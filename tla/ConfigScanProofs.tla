-------------------------- MODULE ConfigScanProofs ---------------------------
(***************************************************************************)
(* Proofs about ConfigScan, for any files, any depth of includes and any   *)
(* number of reads.                                                        *)
(***************************************************************************)
EXTENDS ConfigScan, SequenceTheorems, FiniteSetTheorems, TLAPS

(* The values of the variables. *)
Names == TopNames \cup UNION {DOMAIN Disk[d] : d \in DOMAIN Disk}

Buffers == [contents : Files, pos : Nat \ {0}, line : Nat, live : BOOLEAN]
Frames == [stream : Nat, file : Names, buffer : Nat]
Errors == [type : {"NONE", "PARSE", "FILE_IO"}, file : Names \cup {Nil}, line : Nat]

TypeOK ==
  /\ status \in {"idle", "reading", "crashed"} /\ start \in Conditions /\ reads \in Nat
  /\ config \in [error : Errors, filenames : Seq(Names), includeDir : DOMAIN Disk]
  /\ buffers \in Seq(Buffers) /\ streams \in Seq({"open", "closed"}) /\ stack \in Seq(Frames)
  /\ text \in Seq(Pieces)
  /\ top \in [stream : Nat \cup {Nil}, name : Names \cup {Nil}, contents : Files \cup {<<>>},
              dir : DOMAIN Disk]
  /\ place.pos \in Nat

(* The frames of the stack have a stream and a buffer each, no two the same, *)
(* and not those of the file that is read or of the outermost one.           *)
FramesApart ==
  \A i, j \in 1 .. Len(stack) :
    i # j => stack[i].stream # stack[j].stream /\ stack[i].buffer # stack[j].buffer
FramesOpen ==
  \A i \in 1 .. Len(stack) :
    /\ stack[i].stream \in 1 .. Len(streams) /\ streams[stack[i].stream] = "open"
    /\ stack[i].stream # top.stream
    /\ stack[i].buffer \in 1 .. Len(buffers) /\ buffers[stack[i].buffer].live
    /\ stack[i].buffer # current
    /\ stack[i].file \in ToSet(config.filenames)
CurrentOpen ==
  /\ current \in 1 .. Len(buffers) /\ buffers[current].live
  /\ top.stream # Nil => top.stream \in 1 .. Len(streams) /\ streams[top.stream] = "open"
OthersClosed ==
  /\ \A s \in 1 .. Len(streams) :
       streams[s] = "open" => s = top.stream \/ \E i \in 1 .. Len(stack) : stack[i].stream = s
  /\ \A b \in 1 .. Len(buffers) :
       buffers[b].live => b = current \/ \E i \in 1 .. Len(stack) : stack[i].buffer = b
PlacesInText ==
  \A b \in 1 .. Len(buffers) : buffers[b].pos <= Len(buffers[b].contents) + 1

(* A read that is under way. *)
UnderWay ==
  /\ FramesApart /\ FramesOpen /\ CurrentOpen /\ OthersClosed /\ PlacesInText
  /\ Len(stack) <= MaxDepth
  /\ config.error = NoError /\ IsInjective(config.filenames)
  /\ config.includeDir = top.dir

(* A read that is over. *)
Over ==
  /\ \A s \in 1 .. Len(streams) : streams[s] = "closed"
  /\ \A b \in 1 .. Len(buffers) : ~buffers[b].live

HeldInv ==
  /\ TypeOK /\ ~fault
  /\ status = "reading" => UnderWay
  /\ status = "idle" => Over

-----------------------------------------------------------------------------
(* Where a file comes from. *)
LEMMA FilesAreTexts ==
  \A contents \in Files : /\ contents \in Seq(Pieces)
                          /\ \A i \in 1 .. Len(contents) : contents[i].kind \in Kinds
<1> SUFFICES ASSUME NEW contents \in Files
             PROVE  contents \in Seq(Pieces) /\ \A i \in 1 .. Len(contents) : contents[i].kind \in Kinds
  OBVIOUS
<1>1. IsText(contents)
  BY DiskAssumption DEF Files
<1>2. contents \in Seq(ToSet(contents)) /\ DOMAIN contents = 1 .. Len(contents)
  BY <1>1 DEF IsText
<1>3. ToSet(contents) \subseteq Pieces
  BY DEF Pieces
<1>4. \A i \in 1 .. Len(contents) : contents[i] \in ToSet(contents)
  BY <1>2 DEF ToSet
<1>5. contents \in Seq(Pieces)
  <2>1. contents = [i \in 1 .. Len(contents) |-> contents[i]] /\ Len(contents) \in Nat
    BY <1>2
  <2> QED
    BY <2>1, <1>3, <1>4
<1> QED
  BY <1>1, <1>2, <1>5 DEF IsText

LEMMA InitHeld == Init => HeldInv
<1> SUFFICES ASSUME Init PROVE HeldInv
  OBVIOUS
<1>1. config \in [error : Errors, filenames : Seq(Names), includeDir : DOMAIN Disk]
  BY DiskAssumption DEF Init, NoError, Errors
<1>2. top \in [stream : Nat \cup {Nil}, name : Names \cup {Nil}, contents : Files \cup {<<>>},
               dir : DOMAIN Disk]
  BY DiskAssumption DEF Init
<1>3. /\ buffers \in Seq(Buffers) /\ streams \in Seq({"open", "closed"}) /\ stack \in Seq(Frames)
      /\ text \in Seq(Pieces) /\ place.pos \in Nat
  BY DEF Init
<1>4. TypeOK
  BY <1>1, <1>2, <1>3 DEF Init, TypeOK, Conditions
<1> QED
  BY <1>4 DEF Init, HeldInv, Over, NoError

(* The start of a read. *)
LEMMA BeginHeld ==
  ASSUME HeldInv, NEW stream \in {1, Nil}, NEW name \in Names \cup {Nil}, NEW contents \in Files,
         Begin(stream, name, contents), UNCHANGED fault, reads' \in Nat
  PROVE  HeldInv'
<1> DEFINE b == NewBuffer(contents)
<1>1. b \in Buffers
  BY DEF NewBuffer, Buffers
<1>2. buffers' = <<b>> /\ buffers' \in Seq(Buffers) /\ Len(buffers') = 1 /\ buffers'[1] = b
  BY <1>1 DEF Begin
<1>3. /\ streams' \in Seq({"open", "closed"})
      /\ stream # Nil => Len(streams') = 1 /\ streams'[1] = "open"
      /\ stream = Nil => Len(streams') = 0
  <2>1. CASE stream = Nil
    BY <2>1 DEF Begin
  <2>2. CASE stream # Nil
    BY <2>2 DEF Begin
  <2> QED
    BY <2>1, <2>2
<1>4. /\ config'.filenames \in Seq(Names) /\ IsInjective(config'.filenames)
      /\ config'.error = NoError /\ config'.includeDir = config.includeDir
  <2>1. /\ config'.filenames = IF name = Nil THEN <<>> ELSE <<name>>
        /\ config'.error = NoError /\ config'.includeDir = config.includeDir
    BY DEF Begin
  <2> QED
    BY <2>1 DEF IsInjective
<1>5. config' \in [error : Errors, filenames : Seq(Names), includeDir : DOMAIN Disk]
  BY <1>4 DEF Begin, HeldInv, TypeOK, NoError, Errors
<1>6. top' = [stream |-> stream, name |-> name, contents |-> contents, dir |-> config.includeDir]
  BY DEF Begin
<1>7. top' \in [stream : Nat \cup {Nil}, name : Names \cup {Nil}, contents : Files \cup {<<>>},
                dir : DOMAIN Disk]
  BY <1>6 DEF HeldInv, TypeOK
<1>8. TypeOK'
  BY <1>2, <1>3, <1>5, <1>7 DEF TypeOK, Begin, Conditions
<1>9. stack' = <<>> /\ Len(stack') = 0 /\ current' = 1
  BY DEF Begin
<1>10. FramesApart' /\ FramesOpen' /\ (Len(stack) <= MaxDepth)'
  BY <1>9, DiskAssumption DEF FramesApart, FramesOpen
<1>11. b.live /\ b.pos = 1 /\ b.contents = contents /\ Len(contents) \in Nat
  BY FilesAreTexts DEF NewBuffer
<1>12. CurrentOpen' /\ OthersClosed' /\ PlacesInText'
  BY <1>2, <1>3, <1>6, <1>9, <1>11 DEF CurrentOpen, OthersClosed, PlacesInText
<1>13. UnderWay'
  BY <1>4, <1>6, <1>10, <1>12 DEF UnderWay
<1> QED
  BY <1>4, <1>8, <1>13 DEF HeldInv, Begin, NoError

(* The parts of the state and their types. *)
LEMMA PartsTyped ==
  ASSUME HeldInv
  PROVE  /\ Len(stack) \in Nat /\ DOMAIN stack = 1 .. Len(stack)
         /\ \A i \in 1 .. Len(stack) :
              stack[i].buffer \in Nat /\ stack[i].stream \in Nat /\ stack[i].file \in Names
         /\ Len(buffers) \in Nat /\ DOMAIN buffers = 1 .. Len(buffers)
         /\ \A b \in 1 .. Len(buffers) :
              /\ buffers[b] \in Buffers
              /\ buffers[b].contents \in Files /\ buffers[b].pos \in Nat \ {0}
              /\ buffers[b].line \in Nat /\ buffers[b].live \in BOOLEAN
         /\ Len(streams) \in Nat /\ DOMAIN streams = 1 .. Len(streams)
         /\ \A s \in 1 .. Len(streams) : streams[s] \in {"open", "closed"}
         /\ top.stream \in Nat \cup {Nil}
<1>1. /\ stack \in Seq(Frames) /\ buffers \in Seq(Buffers) /\ streams \in Seq({"open", "closed"})
      /\ top.stream \in Nat \cup {Nil}
  BY DEF HeldInv, TypeOK
<1>2. ASSUME NEW i \in 1 .. Len(stack) PROVE stack[i] \in Frames
  BY <1>1
<1>3. ASSUME NEW b \in 1 .. Len(buffers) PROVE buffers[b] \in Buffers
  BY <1>1
<1>4. /\ Len(stack) \in Nat /\ DOMAIN stack = 1 .. Len(stack)
      /\ Len(buffers) \in Nat /\ DOMAIN buffers = 1 .. Len(buffers)
      /\ Len(streams) \in Nat /\ DOMAIN streams = 1 .. Len(streams)
      /\ \A s \in 1 .. Len(streams) : streams[s] \in {"open", "closed"}
  BY <1>1
<1> QED
  BY <1>1, <1>2, <1>3, <1>4 DEF Frames, Buffers

(* The end of a read: the streams and the buffers that it closes and frees. *)
Ending(ok, failedAt) ==
  LET unwound == IF ok THEN <<>> ELSE stack
  IN  [deleted |-> [i \in DOMAIN unwound |-> unwound[i].buffer] \o <<failedAt.buffer>>,
       closed |-> [i \in DOMAIN unwound |-> unwound[i].stream]
                    \o [i \in 1 .. Len(stack) - Len(unwound) |-> stack[i].stream]
                    \o (IF top.stream = Nil THEN <<>> ELSE <<top.stream>>)]

LEMMA EndingApart ==
  ASSUME HeldInv, status = "reading", NEW ok \in BOOLEAN, ok => stack = <<>>
  PROVE  LET e == Ending(ok, Here)
         IN  /\ ~CloseTwice(e.closed) /\ ~DeleteTwice(e.deleted)
             /\ \A s \in 1 .. Len(streams) : streams[s] = "open" => s \in ToSet(e.closed)
             /\ \A b \in 1 .. Len(buffers) : buffers[b].live => b \in ToSet(e.deleted)
<1> DEFINE n == Len(stack)
           bs == [i \in 1 .. n |-> stack[i].buffer]
           ss == [i \in 1 .. n |-> stack[i].stream]
           tops == IF top.stream = Nil THEN <<>> ELSE <<top.stream>>
           del == bs \o <<current>>
           clo == ss \o tops
           e == Ending(ok, Here)
<1>1. /\ n \in Nat /\ DOMAIN stack = 1 .. n /\ UnderWay /\ top.stream \in Nat \cup {Nil}
      /\ \A i \in 1 .. n : stack[i].buffer \in Nat /\ stack[i].stream \in Nat
  BY PartsTyped DEF HeldInv
<1>2. e.deleted = del /\ e.closed = clo
  <2>1. CASE ok
    <3>1. stack = <<>> /\ n = 0 /\ bs = <<>> /\ ss = <<>>
      BY <2>1
    <3>2. e.deleted = [i \in DOMAIN <<>> |-> <<>>[i].buffer] \o <<current>>
      BY <2>1 DEF Ending, Here
    <3>3. e.closed = [i \in DOMAIN <<>> |-> <<>>[i].stream] \o [i \in 1 .. 0 - 0 |-> stack[i].stream] \o tops
      BY <2>1, <3>1 DEF Ending
    <3>4. [i \in DOMAIN <<>> |-> <<>>[i].buffer] = <<>> /\ [i \in DOMAIN <<>> |-> <<>>[i].stream] = <<>>
          /\ [i \in 1 .. 0 - 0 |-> stack[i].stream] = <<>>
      OBVIOUS
    <3>5. <<>> \o <<>> = <<>>
      OBVIOUS
    <3> QED
      BY <3>1, <3>2, <3>3, <3>4, <3>5
  <2>2. CASE ~ok
    <3>1. e.deleted = bs \o <<current>>
      BY <1>1, <2>2 DEF Ending, Here
    <3>2. e.closed = ss \o [i \in 1 .. n - n |-> stack[i].stream] \o tops
      BY <1>1, <2>2 DEF Ending
    <3>3. [i \in 1 .. n - n |-> stack[i].stream] = <<>>
      BY <1>1
    <3>4. ss \in Seq(Nat)
      BY <1>1
    <3>5. ss \o <<>> = ss
      BY <3>4
    <3> QED
      BY <3>1, <3>2, <3>3, <3>5
  <2> QED
    BY <2>1, <2>2
<1>3. /\ del \in Seq(Nat) /\ Len(del) = n + 1 /\ del[n + 1] = current
      /\ \A i \in 1 .. n : del[i] = stack[i].buffer
  BY <1>1 DEF UnderWay, CurrentOpen
<1>4. /\ clo \in Seq(Nat)
      /\ Len(clo) = IF top.stream = Nil THEN n ELSE n + 1
      /\ \A i \in 1 .. n : clo[i] = stack[i].stream
      /\ top.stream # Nil => clo[n + 1] = top.stream
  <2>1. CASE top.stream = Nil
    BY <1>1, <2>1
  <2>2. CASE top.stream # Nil
    BY <1>1, <2>2
  <2> QED
    BY <2>1, <2>2
<1> HIDE DEF del, clo, e
<1>5. /\ DOMAIN del = 1 .. n + 1
      /\ DOMAIN clo = IF top.stream = Nil THEN 1 .. n ELSE 1 .. n + 1
  BY <1>1, <1>3, <1>4
<1>10. /\ n + 1 \in DOMAIN del /\ \A i \in 1 .. n : i \in DOMAIN del /\ i \in DOMAIN clo
       /\ \A i \in DOMAIN del : i \in 1 .. n \/ i = n + 1
       /\ \A i \in DOMAIN clo : i \in 1 .. n \/ (top.stream # Nil /\ i = n + 1)
       /\ top.stream # Nil => n + 1 \in DOMAIN clo
  <2>1. n \in Nat
    BY <1>1
  <2> HIDE DEF n
  <2> QED
    BY <1>5, <2>1
<1>6. ~DeleteTwice(del)
  <2>1. /\ \A i, j \in 1 .. n : i # j => stack[i].buffer # stack[j].buffer
        /\ \A i \in 1 .. n : stack[i].buffer # current /\ buffers[stack[i].buffer].live
        /\ buffers[current].live
    BY <1>1 DEF UnderWay, FramesApart, FramesOpen, CurrentOpen
  <2>2. IsInjective(del)
    BY <1>3, <1>10, <2>1 DEF IsInjective
  <2>3. \A i \in DOMAIN del : buffers[del[i]].live
    BY <1>3, <1>10, <2>1
  <2> QED
    BY <2>2, <2>3 DEF DeleteTwice
<1>7. ~CloseTwice(clo)
  <2>1. IsInjective(clo)
    BY <1>1, <1>4, <1>5 DEF IsInjective, UnderWay, FramesApart, FramesOpen
  <2>2. ASSUME NEW i \in DOMAIN clo PROVE streams[clo[i]] = "open"
    <3>1. CASE i \in 1 .. n
      BY <1>1, <1>4, <3>1 DEF UnderWay, FramesOpen
    <3>2. CASE top.stream # Nil /\ i = n + 1
      BY <1>1, <1>4, <3>2 DEF UnderWay, CurrentOpen
    <3> QED
      BY <1>10, <3>1, <3>2
  <2> QED
    BY <2>1, <2>2 DEF CloseTwice
<1>8. ASSUME NEW s \in 1 .. Len(streams), streams[s] = "open" PROVE s \in ToSet(clo)
  <2>1. CASE s = top.stream
    <3>1. top.stream # Nil /\ n + 1 \in DOMAIN clo
      BY <1>10, <2>1, DiskAssumption
    <3> QED
      BY <1>4, <2>1, <3>1 DEF ToSet
  <2>2. CASE s # top.stream
    <3>1. PICK i \in 1 .. n : stack[i].stream = s
      BY <1>1, <1>8, <2>2 DEF UnderWay, OthersClosed
    <3> QED
      BY <1>4, <1>10, <3>1 DEF ToSet
  <2> QED
    BY <2>1, <2>2
<1>9. ASSUME NEW b \in 1 .. Len(buffers), buffers[b].live PROVE b \in ToSet(del)
  <2>1. b = current \/ \E i \in 1 .. n : stack[i].buffer = b
    BY <1>1, <1>9 DEF UnderWay, OthersClosed
  <2> QED
    BY <1>3, <1>10, <2>1 DEF ToSet
<1> QED
  BY <1>2, <1>6, <1>7, <1>8, <1>9 DEF e

(* Closing and freeing leave the rest as it was. *)
LEMMA ClosedStreams ==
  ASSUME HeldInv, NEW ss
  PROVE  /\ Close(ss) \in Seq({"open", "closed"}) /\ Len(Close(ss)) = Len(streams)
         /\ \A s \in 1 .. Len(streams) :
              Close(ss)[s] = IF s \in ToSet(ss) THEN "closed" ELSE streams[s]
<1>1. Len(streams) \in Nat /\ DOMAIN streams = 1 .. Len(streams)
      /\ \A s \in 1 .. Len(streams) : streams[s] \in {"open", "closed"}
  BY DEF HeldInv, TypeOK
<1>2. Close(ss) = [s \in 1 .. Len(streams) |-> IF s \in ToSet(ss) THEN "closed" ELSE streams[s]]
  BY <1>1 DEF Close
<1> QED
  BY <1>1, <1>2

LEMMA FreedBuffers ==
  ASSUME HeldInv, NEW bs
  PROVE  /\ Delete(bs) \in Seq(Buffers) /\ Len(Delete(bs)) = Len(buffers)
         /\ \A b \in 1 .. Len(buffers) :
              /\ Delete(bs)[b].contents = buffers[b].contents
              /\ Delete(bs)[b].pos = buffers[b].pos /\ Delete(bs)[b].line = buffers[b].line
              /\ Delete(bs)[b].live <=> buffers[b].live /\ b \notin ToSet(bs)
<1>1. Len(buffers) \in Nat /\ DOMAIN buffers = 1 .. Len(buffers)
      /\ \A b \in 1 .. Len(buffers) : buffers[b] \in Buffers
  BY DEF HeldInv, TypeOK
<1> DEFINE gone(b) == [buffers[b] EXCEPT !.live = @ /\ b \notin ToSet(bs)]
<1>2. Delete(bs) = [b \in 1 .. Len(buffers) |-> gone(b)]
  BY <1>1 DEF Delete
<1>3. ASSUME NEW b \in 1 .. Len(buffers)
      PROVE  /\ gone(b) \in Buffers
             /\ gone(b).contents = buffers[b].contents /\ gone(b).pos = buffers[b].pos
             /\ gone(b).line = buffers[b].line /\ (gone(b).live <=> buffers[b].live /\ b \notin ToSet(bs))
  <2>1. buffers[b] \in Buffers
    BY <1>1
  <2> QED
    BY <2>1 DEF Buffers
<1> HIDE DEF gone
<1>4. Delete(bs) \in Seq(Buffers) /\ Len(Delete(bs)) = Len(buffers)
  BY <1>1, <1>2, <1>3
<1>5. \A b \in 1 .. Len(buffers) : Delete(bs)[b] = gone(b)
  BY <1>2
<1> QED
  BY <1>3, <1>4, <1>5

LEMMA CurrentFileIsName == HeldInv => CurrentFile \in Names \cup {Nil}
<1> SUFFICES ASSUME HeldInv PROVE CurrentFile \in Names \cup {Nil}
  OBVIOUS
<1>1. stack \in Seq(Frames) /\ top.name \in Names \cup {Nil}
  BY DEF HeldInv, TypeOK
<1>2. ASSUME stack # <<>> PROVE stack[Len(stack)].file \in Names
  <2>1. Len(stack) \in 1 .. Len(stack)
    BY <1>1, <1>2
  <2>2. stack[Len(stack)] \in Frames
    BY <1>1, <2>1
  <2> QED
    BY <2>2 DEF Frames
<1> QED
  BY <1>1, <1>2 DEF CurrentFile, Last

LEMMA EndHeld ==
  ASSUME HeldInv, status = "reading", NEW ok \in BOOLEAN, ok => stack = <<>>,
         NEW known \in {Nil, buffers[current].line}, End(ok, Here, known),
         place'.pos \in Nat,
         start' \in Conditions, text' \in Seq(Pieces), UNCHANGED <<top, reads>>
  PROVE  HeldInv'
<1> DEFINE e == Ending(ok, Here)
           line == buffers[current].line
<1>1. /\ fault' = (fault \/ CloseTwice(e.closed) \/ DeleteTwice(e.deleted))
      /\ streams' = Close(e.closed) /\ buffers' = Delete(e.deleted) /\ status' = "idle"
      /\ stack' = SubSeq(stack, 1, Len(stack) - Len(IF ok THEN <<>> ELSE stack))
      /\ config' = IF ok THEN config
                   ELSE [config EXCEPT !.error = [type |-> "PARSE", file |-> CurrentFile,
                                                  line |-> IF known # Nil THEN known ELSE Here.line]]
  BY DEF End, Ending
<1> HIDE DEF e
<1>2. line \in Nat /\ line # Nil /\ Here.line = line
  <2>1. current \in 1 .. Len(buffers)
    BY DEF HeldInv, UnderWay, CurrentOpen
  <2>2. buffers[current] \in Buffers
    BY <2>1 DEF HeldInv, TypeOK
  <2> QED
    BY <2>2, DiskAssumption DEF Buffers, Here
<1>3. stack' = <<>>
  <2>1. stack \in Seq(Frames)
    BY DEF HeldInv, TypeOK
  <2>2. CASE ok
    BY <1>1, <2>2
  <2>3. CASE ~ok
    BY <1>1, <2>1, <2>3
  <2> QED
    BY <2>2, <2>3
<1>4. ~fault'
  BY <1>1, EndingApart DEF e, HeldInv
<1>5. Over'
  <2>1. \A s \in 1 .. Len(streams) : streams[s] \in {"open", "closed"}
    BY DEF HeldInv, TypeOK
  <2>2. \A s \in 1 .. Len(streams) : streams[s] = "open" => s \in ToSet(e.closed)
    BY EndingApart DEF e
  <2>3. \A b \in 1 .. Len(buffers) : buffers[b].live => b \in ToSet(e.deleted)
    BY EndingApart DEF e
  <2> QED
    BY <1>1, <2>1, <2>2, <2>3, ClosedStreams, FreedBuffers DEF Over
<1>6. config' \in [error : Errors, filenames : Seq(Names), includeDir : DOMAIN Disk]
  <2>1. config \in [error : Errors, filenames : Seq(Names), includeDir : DOMAIN Disk]
    BY DEF HeldInv, TypeOK
  <2>2. CASE ok
    BY <1>1, <2>1, <2>2 DEF HeldInv, UnderWay, NoError
  <2>3. CASE ~ok
    <3> DEFINE err == [type |-> "PARSE", file |-> CurrentFile, line |-> line]
    <3>1. config' = [config EXCEPT !.error = err]
      BY <1>1, <1>2, <2>3
    <3>2. err \in Errors
      BY <1>2, CurrentFileIsName DEF Errors
    <3> QED
      BY <2>1, <3>1, <3>2
  <2> QED
    BY <2>2, <2>3
<1>7. TypeOK'
  <2>1. streams' \in Seq({"open", "closed"}) /\ buffers' \in Seq(Buffers)
    BY <1>1, ClosedStreams, FreedBuffers
  <2>2. stack' \in Seq(Frames)
    BY <1>3
  <2> QED
    BY <1>1, <1>6, <2>1, <2>2 DEF HeldInv, TypeOK
<1> QED
  BY <1>1, <1>4, <1>5, <1>6, <1>7 DEF HeldInv

-----------------------------------------------------------------------------
(* The scanner moves on in the current buffer. *)
Moved(n, lines) == buffers' = [buffers EXCEPT ![current].pos = @ + n, ![current].line = @ + lines]

(* A buffer in which so many pieces and lines have been read. *)
MovedOn(b, n, lines) == [b EXCEPT !.pos = @ + n, !.line = @ + lines]

LEMMA BufferMoves ==
  ASSUME NEW b \in Buffers, NEW n \in Nat, NEW lines \in Nat
  PROVE  /\ MovedOn(b, n, lines) \in Buffers 
         /\ MovedOn(b, n, lines).contents = b.contents /\ MovedOn(b, n, lines).live = b.live
         /\ MovedOn(b, n, lines).pos = b.pos + n /\ MovedOn(b, n, lines).line = b.line + lines
<1> DEFINE p == b.pos + n
           l == b.line + lines
<1>1. b.contents \in Files /\ b.live \in BOOLEAN /\ p \in Nat \ {0} /\ l \in Nat
  BY DEF Buffers
<1>2. p = b.pos + n /\ l = b.line + lines
  OBVIOUS
<1>3. MovedOn(b, n, lines) = [b EXCEPT !.pos = p, !.line = l]
  BY DEF MovedOn
<1> HIDE DEF p, l
<1>4. DOMAIN b = {"contents", "pos", "line", "live"} /\ b = [x \in DOMAIN b |-> b[x]]
  BY DEF Buffers
<1>5. MovedOn(b, n, lines) = [x \in {"contents", "pos", "line", "live"} |-> IF x = "line" THEN l ELSE IF x = "pos" THEN p ELSE b[x]]
  BY <1>3, <1>4
<1>6. MovedOn(b, n, lines) \in Buffers
  BY <1>1, <1>5 DEF Buffers
<1> QED
  BY <1>2, <1>5, <1>6

LEMMA OnePieceOn ==
  ASSUME HeldInv, status = "reading"
  PROVE  /\ [buffers EXCEPT ![current].pos = @ + 1]
              = [buffers EXCEPT ![current] = MovedOn(buffers[current], 1, 0)]
         /\ buffers' = [buffers EXCEPT ![current].pos = @ + 1] => Moved(1, 0)
<1> DEFINE b == buffers[current]
           moved == MovedOn(b, 1, 0)
<1>1. current \in 1 .. Len(buffers) /\ DOMAIN buffers = 1 .. Len(buffers) /\ b \in Buffers
  BY PartsTyped DEF HeldInv, UnderWay, CurrentOpen
<1>2. /\ DOMAIN b = {"contents", "pos", "line", "live"} /\ b = [x \in DOMAIN b |-> b[x]]
      /\ b.line \in Nat /\ b.line + 0 = b.line
  BY <1>1 DEF Buffers
<1>3. moved = [b EXCEPT !.pos = @ + 1, !.line = b.line + 0]
  BY DEF MovedOn
<1>4. moved = [b EXCEPT !.pos = @ + 1]
  <2> HIDE DEF b
  <2> QED
    BY <1>2, <1>3
<1>5. [buffers EXCEPT ![current].pos = @ + 1] = [buffers EXCEPT ![current] = moved]
  <2> HIDE DEF moved
  <2> QED
    BY <1>1, <1>4
<1>6. [buffers EXCEPT ![current].pos = @ + 1, ![current].line = @ + 0]
        = [buffers EXCEPT ![current] = moved]
  BY <1>1 DEF MovedOn
<1> QED
  BY <1>5, <1>6 DEF Moved

LEMMA MovedBuffers ==
  ASSUME HeldInv, status = "reading", NEW n \in Nat, NEW lines \in Nat, Moved(n, lines),
         buffers[current].pos + n <= Len(buffers[current].contents) + 1
  PROVE  /\ buffers' \in Seq(Buffers) /\ Len(buffers') = Len(buffers)
         /\ \A b \in 1 .. Len(buffers) :
              /\ buffers'[b].contents = buffers[b].contents /\ buffers'[b].live = buffers[b].live
              /\ b # current => buffers'[b] = buffers[b]
         /\ buffers'[current].pos = buffers[current].pos + n
         /\ buffers'[current].line = buffers[current].line + lines
         /\ PlacesInText'
<1>1. current \in 1 .. Len(buffers) /\ PlacesInText
  BY DEF HeldInv, UnderWay, CurrentOpen
<1> DEFINE moved == MovedOn(buffers[current], n, lines)
<1>2. buffers' = [buffers EXCEPT ![current] = moved]
  BY <1>1, PartsTyped DEF Moved, MovedOn
<1>3. /\ moved \in Buffers /\ moved.contents = buffers[current].contents
      /\ moved.live = buffers[current].live
      /\ moved.pos = buffers[current].pos + n /\ moved.line = buffers[current].line + lines
  <2>1. buffers[current] \in Buffers
    BY <1>1, PartsTyped
  <2> QED
    BY <2>1, BufferMoves
<1> HIDE DEF moved
<1>4. buffers \in Seq(Buffers)
  BY DEF HeldInv, TypeOK
<1>5. /\ buffers' \in Seq(Buffers) /\ Len(buffers') = Len(buffers) /\ buffers'[current] = moved
      /\ \A b \in 1 .. Len(buffers) : b # current => buffers'[b] = buffers[b]
  BY <1>1, <1>2, <1>3, <1>4
<1>6. PlacesInText'
  BY <1>1, <1>3, <1>5 DEF PlacesInText
<1> QED
  BY <1>1, <1>3, <1>5, <1>6

LEMMA MovedUnderWay ==
  ASSUME HeldInv, status = "reading", NEW n \in Nat, NEW lines \in Nat, Moved(n, lines),
         buffers[current].pos + n <= Len(buffers[current].contents) + 1,
         UNCHANGED <<status, config, current, streams, stack, top, fault, reads>>,
         start' \in Conditions, text' \in Seq(Pieces), place'.pos \in Nat
  PROVE  HeldInv'
<1>1. UnderWay
  BY DEF HeldInv
<1>2. /\ buffers' \in Seq(Buffers) /\ Len(buffers') = Len(buffers) /\ PlacesInText'
      /\ \A b \in 1 .. Len(buffers) : buffers'[b].live = buffers[b].live
  BY MovedBuffers
<1>3. FramesApart' /\ FramesOpen' /\ CurrentOpen' /\ OthersClosed'
  BY <1>1, <1>2 DEF UnderWay, FramesApart, FramesOpen, CurrentOpen, OthersClosed
<1>4. UnderWay'
  BY <1>1, <1>2, <1>3 DEF UnderWay
<1>5. TypeOK'
  BY <1>2 DEF HeldInv, TypeOK
<1> QED
  BY <1>1, <1>4, <1>5 DEF HeldInv, UnderWay, NoError

(* Where the scanner is while it reads. *)
LEMMA HereTyped ==
  ASSUME HeldInv, status = "reading"
  PROVE  /\ current \in 1 .. Len(buffers) /\ Contents \in Seq(Pieces) /\ Len(Contents) \in Nat
         /\ Pos \in Nat \ {0} /\ Pos <= Len(Contents) + 1
         /\ buffers[current].line \in Nat
         /\ ~AtEnd => Pos \in 1 .. Len(Contents) /\ Piece \in Pieces /\ Piece.kind \in Kinds
         /\ AtEnd => Pos = Len(Contents) + 1
<1>1. current \in 1 .. Len(buffers) /\ PlacesInText
  BY DEF HeldInv, UnderWay, CurrentOpen
<1>2. /\ Contents \in Files /\ Pos \in Nat \ {0} /\ buffers[current].line \in Nat
      /\ Pos <= Len(Contents) + 1
  BY <1>1, PartsTyped DEF Contents, Pos, PlacesInText
<1>3. Contents \in Seq(Pieces) /\ \A i \in 1 .. Len(Contents) : Contents[i].kind \in Kinds
  BY <1>2, FilesAreTexts
<1>4. Len(Contents) \in Nat /\ \A i \in 1 .. Len(Contents) : Contents[i] \in Pieces
  BY <1>3
<1>5. ~AtEnd => Pos \in 1 .. Len(Contents)
  BY <1>2, <1>4 DEF AtEnd
<1> QED
  BY <1>1, <1>2, <1>3, <1>4, <1>5 DEF AtEnd, Piece

LEMMA SkipHeld ==
  ASSUME HeldInv, status = "reading", NEW n \in {1, 2}, NEW lines \in {0, 1},
         Pos + n <= Len(Contents) + 1, NEW c \in Conditions, NEW t \in Seq(Pieces),
         Skip(n, lines, c, t)
  PROVE  HeldInv'
<1>1. Moved(n, lines) /\ buffers[current].pos + n <= Len(buffers[current].contents) + 1
  BY DEF Skip, Moved, Pos, Contents
<1>2. /\ UNCHANGED <<status, config, current, streams, stack, top, place, fault, reads>>
      /\ start' \in Conditions /\ text' \in Seq(Pieces)
  BY DEF Skip
<1>3. place'.pos \in Nat
  BY <1>2 DEF HeldInv, TypeOK
<1> QED
  BY <1>1, <1>2, <1>3, MovedUnderWay

LEMMA ReturnHeld ==
  ASSUME HeldInv, status = "reading", ~AtEnd, NEW tok, NEW c \in Conditions, NEW t \in Seq(Pieces),
         Return(tok, c, t)
  PROVE  HeldInv'
<1>1. current \in 1 .. Len(buffers) /\ Pos \in Nat /\ Pos + 1 <= Len(Contents) + 1
      /\ buffers[current].line \in Nat
  BY HereTyped
<1>2. /\ place'.pos = Pos
      /\ start' \in Conditions /\ text' \in Seq(Pieces) /\ UNCHANGED <<top, reads>>
  BY DEF Return
<1>3. CASE End(FALSE, Here, Nil)
  BY <1>1, <1>2, <1>3, EndHeld
<1>4. CASE Moved(1, 0) /\ UNCHANGED <<status, config, current, streams, stack, fault>>
  <2>1. buffers[current].pos + 1 <= Len(buffers[current].contents) + 1
    BY <1>1 DEF Pos, Contents
  <2>2. place'.pos \in Nat
    BY <1>1, <1>2
  <2> QED
    BY <1>2, <1>4, <2>1, <2>2, MovedUnderWay
<1> QED
  BY <1>3, <1>4, OnePieceOn DEF Return

LEMMA RulesHeld ==
  ASSUME HeldInv, Initial \/ Comment \/ String \/ IncludePath
  PROVE  HeldInv'
<1>1. status = "reading" /\ ~AtEnd
  BY DEF Initial, Comment, String, IncludePath, Scanning
<1>2. /\ Pos \in Nat /\ Len(Contents) \in Nat /\ Pos + 1 <= Len(Contents) + 1
      /\ Piece \in Pieces /\ text \in Seq(Pieces) /\ start \in Conditions
  BY <1>1, HereTyped DEF HeldInv, TypeOK
<1>3. Append(text, Piece) \in Seq(Pieces) /\ <<>> \in Seq(Pieces)
  BY <1>2
<1>4. CASE Initial
  <2>1. \/ \E tok : Return(tok, start, text)
        \/ Skip(1, 1, start, text)
        \/ \E c \in {"STRING", "COMMENT"} : Skip(1, 0, c, text)
        \/ Pos < Len(Contents) /\ Skip(2, 0, "INCLUDE", text)
    BY <1>4 DEF Initial
  <2> QED
    BY <1>1, <1>2, <2>1, SkipHeld, ReturnHeld DEF Conditions
<1>5. CASE Comment
  <2>1. \E c \in {"INITIAL", start}, lines \in {0, 1} : Skip(1, lines, c, text)
    BY <1>5 DEF Comment
  <2> QED
    BY <1>1, <1>2, <2>1, SkipHeld DEF Conditions
<1>6. CASE String
  <2>1. \/ \E tok : Return(tok, "INITIAL", <<>>)
        \/ \E lines \in {0, 1} : Skip(1, lines, start, Append(text, Piece))
    BY <1>6 DEF String
  <2> QED
    BY <1>1, <1>2, <1>3, <2>1, SkipHeld, ReturnHeld DEF Conditions
<1>7. CASE IncludePath
  <2>1. \E lines \in {0, 1} : Skip(1, lines, start, Append(text, Piece))
    BY <1>7 DEF IncludePath
  <2> QED
    BY <1>1, <1>2, <1>3, <2>1, SkipHeld
<1> QED
  BY <1>4, <1>5, <1>6, <1>7

(* The file that an include opens. *)
Pushed ==
  /\ streams' = Opened
  /\ stack' = Append(stack, [stream |-> Len(Opened), file |-> text[1].v, buffer |-> current])
  /\ buffers' = Append([buffers EXCEPT ![current].pos = @ + 1],
                       NewBuffer(Disk[config.includeDir][text[1].v]))
  /\ current' = Len(buffers')
  /\ config' = [config EXCEPT !.filenames = AddFilename(@, text[1].v)]
  /\ start' = "INITIAL" /\ text' = <<>>
  /\ UNCHANGED <<status, top, tokens, place, fault, reads>>

LEMMA PushedState ==
  ASSUME HeldInv, Scanning("INCLUDE"), Len(stack) < MaxDepth, Found, Pushed
  PROVE  LET n == Len(stack)
             k == Len(buffers)
             m == Len(streams)
             file == Disk[config.includeDir][text[1].v]
         IN  /\ file \in Files /\ text[1].v \in Names /\ text[1].v \in DOMAIN Disk[config.includeDir]
             /\ stack' \in Seq(Frames) /\ Len(stack') = n + 1
             /\ \A i \in 1 .. n : stack'[i] = stack[i]
             /\ stack'[n + 1] = [stream |-> m + 1, file |-> text[1].v, buffer |-> current]
             /\ buffers' \in Seq(Buffers) /\ Len(buffers') = k + 1 /\ current' = k + 1
             /\ \A b \in 1 .. k : /\ buffers'[b].contents = buffers[b].contents
                                  /\ buffers'[b].live = buffers[b].live
                                  /\ b # current => buffers'[b] = buffers[b]
             /\ buffers'[current].pos = buffers[current].pos + 1
             /\ buffers'[k + 1] = NewBuffer(file)
             /\ streams' \in Seq({"open", "closed"}) /\ Len(streams') = m + 1
             /\ \A s \in 1 .. m : streams'[s] = streams[s]
             /\ streams'[m + 1] = "open"
             /\ PlacesInText'
<1> DEFINE n == Len(stack)
           k == Len(buffers)
           m == Len(streams)
           file == Disk[config.includeDir][text[1].v]
           moved == MovedOn(buffers[current], 1, 0)
           here == [buffers EXCEPT ![current] = moved]
<1>1. /\ status = "reading" /\ current \in 1 .. k /\ Pos \in Nat /\ Pos + 1 <= Len(Contents) + 1
      /\ Len(Contents) \in Nat
  BY HereTyped DEF Scanning
<1>2. /\ config.includeDir \in DOMAIN Disk /\ text[1].v \in DOMAIN Disk[config.includeDir]
  BY DEF HeldInv, TypeOK, Found, NamesFile
<1>3. file \in Files /\ text[1].v \in Names
  BY <1>2 DEF Files, Names
<1>4. NewBuffer(file) \in Buffers /\ NewBuffer(file).pos = 1 /\ NewBuffer(file).contents = file
      /\ Len(file) \in Nat
  BY <1>3, FilesAreTexts DEF NewBuffer, Buffers
<1>5. buffers[current] \in Buffers /\ buffers \in Seq(Buffers) /\ streams \in Seq({"open", "closed"})
      /\ stack \in Seq(Frames) /\ current \in Nat /\ k \in Nat /\ m \in Nat /\ n \in Nat
  BY <1>1, PartsTyped DEF HeldInv, TypeOK
<1>6. /\ moved \in Buffers /\ moved.contents = buffers[current].contents
      /\ moved.live = buffers[current].live /\ moved.pos = buffers[current].pos + 1
  <2>1. 0 \in Nat /\ 1 \in Nat /\ buffers[current] \in Buffers
    BY <1>5
  <2> QED
    BY <2>1, BufferMoves
<1>7. [buffers EXCEPT ![current].pos = @ + 1] = here
  BY <1>1, OnePieceOn
<1> HIDE DEF moved
<1>8. here \in Seq(Buffers) /\ Len(here) = k /\ here[current] = moved
      /\ \A b \in 1 .. k : b # current => here[b] = buffers[b]
  BY <1>1, <1>5, <1>6
<1> HIDE DEF here
<1>9. buffers' = Append(here, NewBuffer(file))
  BY <1>7 DEF Pushed
<1>10. /\ buffers' \in Seq(Buffers) /\ Len(buffers') = k + 1 /\ buffers'[k + 1] = NewBuffer(file)
       /\ \A b \in 1 .. k : buffers'[b] = here[b]
  BY <1>4, <1>5, <1>8, <1>9
<1>11. current' = k + 1
  BY <1>10 DEF Pushed
<1>12. streams' = Append(streams, "open")
  BY DEF Pushed, Opened
<1>13. /\ streams' \in Seq({"open", "closed"}) /\ Len(streams') = m + 1
       /\ \A s \in 1 .. m : streams'[s] = streams[s]
       /\ streams'[m + 1] = "open" /\ Len(Opened) = m + 1
  BY <1>5, <1>12 DEF Opened
<1> DEFINE frame == [stream |-> m + 1, file |-> text[1].v, buffer |-> current]
<1>14. frame \in Frames /\ stack' = Append(stack, frame)
  BY <1>3, <1>5, <1>13 DEF Pushed, Frames
<1> HIDE DEF frame
<1>15. /\ stack' \in Seq(Frames) /\ Len(stack') = n + 1
       /\ \A i \in 1 .. n : stack'[i] = stack[i]
       /\ stack'[n + 1] = frame
  BY <1>5, <1>14
<1>16. /\ \A b \in 1 .. k : /\ buffers'[b].contents = buffers[b].contents
                            /\ buffers'[b].live = buffers[b].live
                            /\ b # current => buffers'[b] = buffers[b]
       /\ buffers'[current].pos = buffers[current].pos + 1
  BY <1>1, <1>6, <1>8, <1>10
<1>17. PlacesInText'
  <2>1. \A b \in 1 .. k : buffers[b].pos <= Len(buffers[b].contents) + 1
    BY <1>1 DEF HeldInv, UnderWay, PlacesInText
  <2>2. ASSUME NEW b \in 1 .. k + 1 PROVE buffers'[b].pos <= Len(buffers'[b].contents) + 1
    <3>1. CASE b = k + 1
      BY <1>4, <1>10, <3>1
    <3>2. CASE b = current
      BY <1>1, <1>16, <3>2 DEF Pos, Contents
    <3>3. CASE b \in 1 .. k /\ b # current
      BY <1>16, <2>1, <3>3
    <3> QED
      BY <1>5, <3>1, <3>2, <3>3
  <2> QED
    BY <1>10, <2>2 DEF PlacesInText
<1> QED
  BY <1>2, <1>3, <1>10, <1>11, <1>13, <1>15, <1>16, <1>17 DEF frame

LEMMA FilenamesKept ==
  ASSUME HeldInv, status = "reading", NEW f \in Names
  PROVE  LET names == AddFilename(config.filenames, f)
         IN  /\ names \in Seq(Names) /\ IsInjective(names)
             /\ f \in ToSet(names) /\ ToSet(config.filenames) \subseteq ToSet(names)
<1> DEFINE old == config.filenames
<1>1. old \in Seq(Names) /\ IsInjective(old)
  BY DEF HeldInv, TypeOK, UnderWay
<1> HIDE DEF old
<1>2. CASE f \in ToSet(old)
  BY <1>1, <1>2 DEF AddFilename, old
<1>3. CASE f \notin ToSet(old)
  <2> DEFINE new == Append(old, f)
  <2>1. /\ new \in Seq(Names) /\ Len(new) = Len(old) + 1 /\ Len(old) \in Nat
        /\ \A i \in 1 .. Len(old) : new[i] = old[i]
        /\ new[Len(old) + 1] = f
        /\ DOMAIN new = 1 .. Len(old) + 1 /\ DOMAIN old = 1 .. Len(old)
    BY <1>1
  <2> HIDE DEF new
  <2>2. \A i \in 1 .. Len(old) : new[i] # f
    BY <1>3, <2>1 DEF ToSet
  <2>3. IsInjective(new)
    BY <1>1, <2>1, <2>2 DEF IsInjective
  <2>4. f \in ToSet(new)
    BY <2>1 DEF ToSet
  <2>5. ToSet(old) \subseteq ToSet(new)
    BY <2>1 DEF ToSet
  <2> QED
    BY <1>3, <2>1, <2>3, <2>4, <2>5 DEF AddFilename, new, old
<1> QED
  BY <1>2, <1>3

LEMMA PushHeld ==
  ASSUME HeldInv, PushInclude
  PROVE  HeldInv'
<1>1. /\ status = "reading" /\ Scanning("INCLUDE") /\ ~AtEnd /\ UnderWay
      /\ start \in Conditions /\ text \in Seq(Pieces)
  BY DEF PushInclude, Scanning, HeldInv, TypeOK
<1>2. CASE Len(stack) < MaxDepth /\ Found
  <2> DEFINE n == Len(stack)
             k == Len(buffers)
             m == Len(streams)
             file == Disk[config.includeDir][text[1].v]
             names == AddFilename(config.filenames, text[1].v)
  <2>1. Pushed
    BY <1>2 DEF PushInclude, Pushed
  <2>2. /\ text[1].v \in Names
        /\ stack' \in Seq(Frames) /\ Len(stack') = n + 1
        /\ \A i \in 1 .. n : stack'[i] = stack[i]
        /\ stack'[n + 1] = [stream |-> m + 1, file |-> text[1].v, buffer |-> current]
        /\ buffers' \in Seq(Buffers) /\ Len(buffers') = k + 1 /\ current' = k + 1
        /\ \A b \in 1 .. k : buffers'[b].live = buffers[b].live
        /\ buffers'[k + 1] = NewBuffer(file)
        /\ streams' \in Seq({"open", "closed"}) /\ Len(streams') = m + 1
        /\ \A s \in 1 .. m : streams'[s] = streams[s]
        /\ streams'[m + 1] = "open" /\ PlacesInText'
    BY <1>1, <1>2, <2>1, PushedState
  <2>3. n \in Nat /\ k \in Nat /\ m \in Nat /\ current \in 1 .. k
    BY <1>1, PartsTyped DEF UnderWay, CurrentOpen
  <2>4. /\ names \in Seq(Names) /\ IsInjective(names)
        /\ text[1].v \in ToSet(names) /\ ToSet(config.filenames) \subseteq ToSet(names)
    BY <1>1, <2>2, FilenamesKept
  <2> HIDE DEF names
  <2>5. config' = [config EXCEPT !.filenames = names]
    BY <2>1 DEF Pushed, names
  <2>6. /\ config' \in [error : Errors, filenames : Seq(Names), includeDir : DOMAIN Disk]
        /\ config'.filenames = names /\ config'.error = config.error
        /\ config'.includeDir = config.includeDir
    BY <2>4, <2>5 DEF HeldInv, TypeOK
  <2>7. /\ stack'[n + 1].stream = m + 1 /\ stack'[n + 1].buffer = current
        /\ stack'[n + 1].file = text[1].v /\ buffers'[k + 1].live
    BY <2>2 DEF NewBuffer
  <2>8. \A i \in 1 .. n + 1 : i \in 1 .. n \/ i = n + 1
    BY <2>3
  <2>9. /\ top' = top /\ \A i \in 1 .. n : stack[i].stream \in 1 .. m /\ stack[i].buffer \in 1 .. k
        /\ \A i \in 1 .. n : stack[i].buffer # current
    BY <1>1, <2>1 DEF Pushed, UnderWay, FramesOpen
  <2>10. FramesApart'
    <3> SUFFICES ASSUME NEW i \in 1 .. n + 1, NEW j \in 1 .. n + 1, i # j
                 PROVE  stack'[i].stream # stack'[j].stream /\ stack'[i].buffer # stack'[j].buffer
      BY <2>2 DEF FramesApart
    <3>1. CASE i \in 1 .. n /\ j \in 1 .. n
      BY <1>1, <2>2, <3>1 DEF UnderWay, FramesApart
    <3>2. CASE i \in 1 .. n /\ j = n + 1
      BY <2>2, <2>3, <2>7, <2>9, <3>2
    <3>3. CASE i = n + 1 /\ j \in 1 .. n
      BY <2>2, <2>3, <2>7, <2>9, <3>3
    <3> QED
      BY <2>8, <3>1, <3>2, <3>3
  <2>11. FramesOpen'
    <3> SUFFICES ASSUME NEW i \in 1 .. n + 1
                 PROVE  /\ stack'[i].stream \in 1 .. m + 1 /\ streams'[stack'[i].stream] = "open"
                        /\ stack'[i].stream # top'.stream
                        /\ stack'[i].buffer \in 1 .. k + 1 /\ buffers'[stack'[i].buffer].live
                        /\ stack'[i].buffer # current'
                        /\ stack'[i].file \in ToSet(config'.filenames)
      BY <2>2 DEF FramesOpen
    <3>1. CASE i \in 1 .. n
      <4>1. /\ stack[i].stream \in 1 .. m /\ streams[stack[i].stream] = "open"
            /\ stack[i].stream # top.stream
            /\ stack[i].buffer \in 1 .. k /\ buffers[stack[i].buffer].live
            /\ stack[i].file \in ToSet(config.filenames)
        BY <1>1, <3>1 DEF UnderWay, FramesOpen
      <4>2. stack'[i] = stack[i]
        BY <2>2, <3>1
      <4>3. streams'[stack[i].stream] = "open" /\ buffers'[stack[i].buffer].live
        BY <2>2, <4>1
      <4>4. stack[i].stream \in 1 .. m + 1 /\ stack[i].buffer \in 1 .. k + 1 /\ stack[i].buffer # k + 1
        BY <2>3, <4>1
      <4> QED
        BY <2>2, <2>4, <2>6, <2>9, <4>1, <4>2, <4>3, <4>4
    <3>2. CASE i = n + 1
      <4>1. top.stream # m + 1
        BY <1>1, <2>3, DiskAssumption DEF UnderWay, CurrentOpen
      <4>2. buffers'[current].live
        BY <1>1, <2>2, <2>3 DEF UnderWay, CurrentOpen
      <4>3. m + 1 \in 1 .. m + 1 /\ current \in 1 .. k + 1 /\ current # k + 1
        BY <2>3
      <4> QED
        BY <2>2, <2>4, <2>6, <2>7, <2>9, <3>2, <4>1, <4>2, <4>3
    <3> QED
      BY <2>8, <3>1, <3>2
  <2>12. CurrentOpen'
    BY <1>1, <2>2, <2>3, <2>7, <2>9 DEF UnderWay, CurrentOpen
  <2>13. OthersClosed'
    <3>1. ASSUME NEW s \in 1 .. m + 1, streams'[s] = "open"
          PROVE  s = top'.stream \/ \E i \in 1 .. n + 1 : stack'[i].stream = s
      <4>1. CASE s \in 1 .. m
        <5>1. s = top.stream \/ \E i \in 1 .. n : stack[i].stream = s
          BY <1>1, <2>2, <3>1, <4>1 DEF UnderWay, OthersClosed
        <5> QED
          BY <2>2, <2>3, <2>9, <5>1
      <4>2. CASE s = m + 1
        BY <2>3, <2>7, <4>2
      <4> QED
        BY <2>3, <4>1, <4>2
    <3>2. ASSUME NEW b \in 1 .. k + 1, buffers'[b].live
          PROVE  b = current' \/ \E i \in 1 .. n + 1 : stack'[i].buffer = b
      <4>1. CASE b \in 1 .. k
        <5>1. b = current \/ \E i \in 1 .. n : stack[i].buffer = b
          BY <1>1, <2>2, <3>2, <4>1 DEF UnderWay, OthersClosed
        <5>2. n + 1 \in 1 .. n + 1 /\ \A i \in 1 .. n : i \in 1 .. n + 1
          BY <2>3
        <5> QED
          BY <2>2, <2>7, <5>1, <5>2
      <4>2. CASE b = k + 1
        BY <2>2, <4>2
      <4> QED
        BY <2>3, <4>1, <4>2
    <3> QED
      BY <2>2, <3>1, <3>2 DEF OthersClosed
  <2>14. (Len(stack) <= MaxDepth)'
    BY <1>2, <2>2, <2>3, DiskAssumption
  <2>15. UnderWay'
    <3>1. config'.error = NoError /\ config'.includeDir = top'.dir /\ IsInjective(config'.filenames)
      BY <1>1, <2>4, <2>6, <2>9 DEF UnderWay
    <3>2. PlacesInText'
      BY <2>2
    <3> QED
      BY <2>10, <2>11, <2>12, <2>13, <2>14, <3>1, <3>2 DEF UnderWay
  <2>16. TypeOK'
    <3>1. /\ status' = status /\ start' = "INITIAL" /\ text' = <<>> /\ top' = top /\ place' = place
          /\ reads' = reads
      BY <2>1 DEF Pushed
    <3>2. text' \in Seq(Pieces) /\ start' \in Conditions
      BY <3>1 DEF Conditions
    <3> QED
      BY <2>2, <2>6, <3>1, <3>2 DEF HeldInv, TypeOK
  <2> QED
    BY <1>1, <2>1, <2>6, <2>15, <2>16 DEF HeldInv, Pushed, UnderWay, NoError
<1>3. CASE ~(Len(stack) < MaxDepth /\ Found) /\ Len(stack) < MaxDepth /\ IsDirectory
  <2>1. /\ status' = "crashed"
        /\ UNCHANGED <<config, buffers, current, streams, stack, start, text, top, tokens, place, fault, reads>>
    BY <1>3 DEF PushInclude
  <2> QED
    BY <2>1 DEF HeldInv, TypeOK
<1>4. CASE ~(Len(stack) < MaxDepth /\ Found) /\ ~(Len(stack) < MaxDepth /\ IsDirectory)
  <2>1. /\ place' = [buffer |-> current, pos |-> Pos]
        /\ End(FALSE, Here, buffers[current].line)
        /\ text' = (IF Len(stack) = MaxDepth THEN text ELSE <<>>)
        /\ UNCHANGED <<start, top, reads>>
    BY <1>4 DEF PushInclude
  <2>2. text' \in Seq(Pieces) /\ place'.pos \in Nat
    BY <1>1, <2>1, HereTyped
  <2> QED
    BY <1>1, <2>1, <2>2, EndHeld
<1> QED
  BY <1>2, <1>3, <1>4

(* The end of an included file. *)
Popped ==
  /\ streams' = Close(<<Last(stack).stream>>)
  /\ buffers' = Delete(<<current>>)
  /\ fault' = (fault \/ CloseTwice(<<Last(stack).stream>>) \/ DeleteTwice(<<current>>))
  /\ current' = Last(stack).buffer /\ stack' = Front(stack)
  /\ UNCHANGED <<status, config, tokens, place, start, text, top, reads>>

LEMMA PoppedState ==
  ASSUME HeldInv, status = "reading", stack # <<>>, Popped
  PROVE  LET n == Len(stack)
         IN  /\ n \in Nat \ {0} /\ stack' \in Seq(Frames) /\ Len(stack') = n - 1
             /\ \A i \in 1 .. n - 1 : i \in 1 .. n /\ i # n /\ stack'[i] = stack[i]
             /\ n \in 1 .. n /\ current' = stack[n].buffer
             /\ buffers' \in Seq(Buffers) /\ Len(buffers') = Len(buffers)
             /\ \A b \in 1 .. Len(buffers) :
                  /\ buffers'[b].contents = buffers[b].contents
                  /\ buffers'[b].pos = buffers[b].pos /\ buffers'[b].line = buffers[b].line
                  /\ buffers'[b].live <=> buffers[b].live /\ b # current
             /\ streams' \in Seq({"open", "closed"}) /\ Len(streams') = Len(streams)
             /\ \A s \in 1 .. Len(streams) :
                  streams'[s] = IF s = stack[n].stream THEN "closed" ELSE streams[s]
<1> DEFINE n == Len(stack)
<1>1. n \in Nat \ {0} /\ stack \in Seq(Frames)
  BY DEF HeldInv, TypeOK
<1>2. /\ stack' \in Seq(Frames) /\ Len(stack') = n - 1
      /\ \A i \in 1 .. n - 1 : i \in 1 .. n /\ i # n /\ stack'[i] = stack[i]
  BY <1>1 DEF Popped, Front
<1>3. n \in 1 .. n /\ current' = stack[n].buffer
  BY <1>1 DEF Popped, Last
<1>4. \A x, y : x \in ToSet(<<y>>) <=> x = y
  BY DEF ToSet
<1>5. streams' = Close(<<stack[n].stream>>) /\ buffers' = Delete(<<current>>)
  BY DEF Popped, Last
<1>6. /\ buffers' \in Seq(Buffers) /\ Len(buffers') = Len(buffers)
      /\ \A b \in 1 .. Len(buffers) :
           /\ buffers'[b].contents = buffers[b].contents
           /\ buffers'[b].pos = buffers[b].pos /\ buffers'[b].line = buffers[b].line
           /\ buffers'[b].live <=> buffers[b].live /\ b # current
  BY <1>4, <1>5, FreedBuffers
<1>7. /\ streams' \in Seq({"open", "closed"}) /\ Len(streams') = Len(streams)
      /\ \A s \in 1 .. Len(streams) :
           streams'[s] = IF s = stack[n].stream THEN "closed" ELSE streams[s]
  BY <1>4, <1>5, ClosedStreams
<1> QED
  BY <1>1, <1>2, <1>3, <1>6, <1>7

LEMMA PopHeld ==
  ASSUME HeldInv, status = "reading", stack # <<>>, Popped
  PROVE  HeldInv'
<1> DEFINE n == Len(stack)
           k == Len(buffers)
           m == Len(streams)
<1>1. UnderWay /\ n \in Nat /\ k \in Nat /\ m \in Nat
  BY PartsTyped DEF HeldInv
<1>2. /\ n \in Nat \ {0} /\ stack' \in Seq(Frames) /\ Len(stack') = n - 1
      /\ \A i \in 1 .. n - 1 : i \in 1 .. n /\ i # n /\ stack'[i] = stack[i]
      /\ n \in 1 .. n /\ current' = stack[n].buffer
      /\ buffers' \in Seq(Buffers) /\ Len(buffers') = k
      /\ \A b \in 1 .. k : /\ buffers'[b].contents = buffers[b].contents
                           /\ buffers'[b].pos = buffers[b].pos
                           /\ buffers'[b].live <=> buffers[b].live /\ b # current
      /\ streams' \in Seq({"open", "closed"}) /\ Len(streams') = m
      /\ \A s \in 1 .. m : streams'[s] = IF s = stack[n].stream THEN "closed" ELSE streams[s]
  BY PoppedState
<1>3. UNCHANGED <<status, config, tokens, place, start, text, top, reads>>
  BY DEF Popped
<1>4. \A i \in 1 .. n : i \in 1 .. n - 1 \/ i = n
  BY <1>2
<1>5. /\ stack[n].stream \in 1 .. m /\ streams[stack[n].stream] = "open"
      /\ stack[n].stream # top.stream
      /\ stack[n].buffer \in 1 .. k /\ buffers[stack[n].buffer].live /\ stack[n].buffer # current
  BY <1>1, <1>2 DEF UnderWay, FramesOpen
<1>6. \A i \in 1 .. n - 1 : stack[i].stream # stack[n].stream /\ stack[i].buffer # stack[n].buffer
  BY <1>1, <1>2 DEF UnderWay, FramesApart
<1>7. ~fault'
  <2>1. ~CloseTwice(<<Last(stack).stream>>)
    BY <1>5 DEF CloseTwice, Last, IsInjective
  <2>2. ~DeleteTwice(<<current>>)
    BY <1>1 DEF DeleteTwice, UnderWay, CurrentOpen, IsInjective
  <2> QED
    BY <2>1, <2>2 DEF Popped, HeldInv
<1>8. FramesApart'
  <2>1. \A i, j \in 1 .. n - 1 :
          i # j => stack[i].stream # stack[j].stream /\ stack[i].buffer # stack[j].buffer
    BY <1>1, <1>2 DEF UnderWay, FramesApart
  <2>2. \A i, j \in 1 .. n - 1 :
          i # j => stack'[i].stream # stack'[j].stream /\ stack'[i].buffer # stack'[j].buffer
    <3>1. \A i \in 1 .. n - 1 : stack'[i] = stack[i]
      BY <1>2
    <3> QED
      BY <2>1, <3>1
  <2>3. Len(stack') = n - 1
    BY <1>2
  <2> QED
    BY <2>2, <2>3 DEF FramesApart
<1>9. FramesOpen'
  <2> SUFFICES ASSUME NEW i \in 1 .. n - 1
               PROVE  /\ stack'[i].stream \in 1 .. m /\ streams'[stack'[i].stream] = "open"
                      /\ stack'[i].stream # top'.stream
                      /\ stack'[i].buffer \in 1 .. k /\ buffers'[stack'[i].buffer].live
                      /\ stack'[i].buffer # current'
                      /\ stack'[i].file \in ToSet(config'.filenames)
    BY <1>2 DEF FramesOpen
  <2>1. /\ stack[i].stream \in 1 .. m /\ streams[stack[i].stream] = "open"
        /\ stack[i].stream # top.stream
        /\ stack[i].buffer \in 1 .. k /\ buffers[stack[i].buffer].live /\ stack[i].buffer # current
        /\ stack[i].file \in ToSet(config.filenames)
    BY <1>1, <1>2 DEF UnderWay, FramesOpen
  <2>2. streams'[stack[i].stream] = "open" /\ buffers'[stack[i].buffer].live
    BY <1>2, <1>6, <2>1
  <2>3. stack'[i] = stack[i] /\ top' = top /\ config' = config /\ stack[i].buffer # current'
    BY <1>2, <1>3, <1>6
  <2> QED
    BY <2>1, <2>2, <2>3
<1>10. CurrentOpen'
  BY <1>1, <1>2, <1>3, <1>5 DEF UnderWay, CurrentOpen
<1>11. OthersClosed'
  <2>1. ASSUME NEW s \in 1 .. m, streams'[s] = "open"
        PROVE  s = top'.stream \/ \E i \in 1 .. n - 1 : stack'[i].stream = s
    <3>1. streams[s] = "open" /\ s # stack[n].stream
      BY <1>2, <2>1
    <3>2. s = top.stream \/ \E i \in 1 .. n : stack[i].stream = s
      BY <1>1, <3>1 DEF UnderWay, OthersClosed
    <3> QED
      BY <1>2, <1>3, <1>4, <3>1, <3>2
  <2>2. ASSUME NEW b \in 1 .. k, buffers'[b].live
        PROVE  b = current' \/ \E i \in 1 .. n - 1 : stack'[i].buffer = b
    <3>1. buffers[b].live /\ b # current
      BY <1>2, <2>2
    <3>2. \E i \in 1 .. n : stack[i].buffer = b
      BY <1>1, <3>1 DEF UnderWay, OthersClosed
    <3> QED
      BY <1>2, <1>4, <3>2
  <2> QED
    BY <1>2, <2>1, <2>2 DEF OthersClosed
<1>12. PlacesInText'
  BY <1>1, <1>2 DEF UnderWay, PlacesInText
<1>13. (Len(stack) <= MaxDepth)'
  BY <1>1, <1>2, DiskAssumption DEF UnderWay
<1>14. UnderWay'
  BY <1>1, <1>3, <1>8, <1>9, <1>10, <1>11, <1>12, <1>13 DEF UnderWay
<1>15. TypeOK'
  BY <1>2, <1>3 DEF HeldInv, TypeOK
<1> QED
  BY <1>1, <1>3, <1>7, <1>14, <1>15 DEF HeldInv, UnderWay, NoError

LEMMA EndOfFileHeld ==
  ASSUME HeldInv, EndOfFile
  PROVE  HeldInv'
<1>1. status = "reading" /\ start' = start /\ text' = text /\ top' = top /\ reads' = reads
  BY DEF EndOfFile
<1>2. CASE stack # <<>>
  <2>1. Popped
    BY <1>2 DEF EndOfFile, Popped
  <2> QED
    BY <1>1, <1>2, <2>1, PopHeld
<1>3. CASE stack = <<>>
  <2>1. PICK ok \in BOOLEAN : End(ok, Here, Nil)
    BY <1>3 DEF EndOfFile
  <2>2. place'.pos \in Nat
    <3>1. place' = [buffer |-> current, pos |-> Pos - 1] /\ Pos \in Nat \ {0}
      BY <1>1, <1>3, HereTyped DEF EndOfFile
    <3> QED
      BY <3>1
  <2>3. start' \in Conditions /\ text' \in Seq(Pieces)
    BY <1>1 DEF HeldInv, TypeOK
  <2> QED
    BY <1>1, <1>3, <2>1, <2>2, <2>3, EndHeld
<1> QED
  BY <1>2, <1>3

LEMMA ReadsHeld ==
  ASSUME HeldInv, config_read_string \/ config_read_file \/ SetIncludeDir
  PROVE  HeldInv'
<1>1. CASE config_read_string
  <2>1. PICK contents \in Texts : Begin(Nil, Nil, contents)
    BY <1>1 DEF config_read_string
  <2>2. contents \in Files /\ UNCHANGED fault /\ reads' \in Nat
    BY <1>1 DEF config_read_string, Reading, Files, HeldInv, TypeOK
  <2>3. Nil \in {1, Nil} /\ Nil \in Names \cup {Nil}
    OBVIOUS
  <2>4. ASSUME NEW stream \in {1, Nil}, NEW name \in Names \cup {Nil}, Begin(stream, name, contents)
        PROVE  HeldInv'
    BY <2>2, <2>4, BeginHeld
  <2> QED
    BY <2>1, <2>3, <2>4
<1>2. CASE config_read_file
  <2>0. Reading
    BY <1>2 DEF config_read_file
  <2>1. status = "idle" /\ UNCHANGED fault /\ reads' \in Nat
    BY <2>0 DEF Reading, HeldInv, TypeOK
  <2>2. PICK f \in TopNames :
          IF f \in DOMAIN Disk["."] THEN Begin(1, f, Disk["."][f])
          ELSE /\ UNCHANGED <<buffers, current, stack, start, text, tokens, place>>
               /\ top' = [top EXCEPT !.stream = Nil, !.name = f, !.contents = <<>>]
               /\ IF f \in Directories
                  THEN /\ streams' = <<"closed">>
                       /\ config' = [config EXCEPT !.error = [@ EXCEPT !.type = "FILE_IO"]]
                       /\ UNCHANGED status
                  ELSE status' = "crashed" /\ UNCHANGED <<streams, config>>
    BY <1>2 DEF config_read_file
  <2>3. f \in Names
    BY DEF Names
  <2>4. CASE f \in DOMAIN Disk["."]
    <3>1. Disk["."][f] \in Files
      BY <2>4, DiskAssumption DEF Files
    <3> QED
      BY <2>1, <2>2, <2>3, <2>4, <3>1, BeginHeld
  <2>5. CASE f \notin DOMAIN Disk["."]
    <3>1. top' = [top EXCEPT !.stream = Nil, !.name = f, !.contents = <<>>]
      BY <2>2, <2>5
    <3>2. top' \in [stream : Nat \cup {Nil}, name : Names \cup {Nil}, contents : Files \cup {<<>>},
                    dir : DOMAIN Disk]
      BY <2>3, <3>1 DEF HeldInv, TypeOK
    <3>3. CASE f \in Directories
      <4>1. /\ streams' = <<"closed">> /\ status' = status
            /\ config' = [config EXCEPT !.error = [@ EXCEPT !.type = "FILE_IO"]]
        BY <2>2, <2>5, <3>3
      <4>2. /\ config' \in [error : Errors, filenames : Seq(Names), includeDir : DOMAIN Disk]
            /\ config'.error.type = "FILE_IO"
        <5> DEFINE err == [config.error EXCEPT !.type = "FILE_IO"]
        <5>1. config.error \in Errors
          BY DEF HeldInv, TypeOK
        <5>2. err \in Errors /\ err.type = "FILE_IO"
          BY <5>1 DEF Errors
        <5>3. config' = [config EXCEPT !.error = err]
          BY <4>1
        <5> HIDE DEF err
        <5> QED
          BY <5>2, <5>3 DEF HeldInv, TypeOK
      <4>3. TypeOK'
        BY <2>1, <2>2, <2>5, <3>2, <4>1, <4>2 DEF HeldInv, TypeOK
      <4>4. Over'
        BY <2>1, <2>2, <2>5, <4>1 DEF HeldInv, Over
      <4> QED
        BY <2>1, <4>1, <4>2, <4>3, <4>4 DEF HeldInv
    <3>4. CASE f \notin Directories
      <4>1. /\ status' = "crashed"
            /\ UNCHANGED <<streams, config, buffers, current, stack, start, text, tokens, place>>
        BY <2>2, <2>5, <3>4
      <4>2. TypeOK'
        BY <2>1, <3>2, <4>1 DEF HeldInv, TypeOK
      <4> QED
        BY <2>1, <4>1, <4>2 DEF HeldInv
    <3> QED
      BY <3>3, <3>4
  <2> QED
    BY <2>4, <2>5
<1>3. CASE SetIncludeDir
  <2>1. PICK d \in DOMAIN Disk \ {"."} : config' = [config EXCEPT !.includeDir = d]
    BY <1>3 DEF SetIncludeDir
  <2>2. /\ status = "idle"
        /\ UNCHANGED <<status, buffers, current, streams, stack, start, text, top, tokens, place, fault, reads>>
    BY <1>3 DEF SetIncludeDir
  <2>3. /\ config' \in [error : Errors, filenames : Seq(Names), includeDir : DOMAIN Disk]
        /\ config'.error = config.error
    BY <2>1 DEF HeldInv, TypeOK
  <2>4. TypeOK' /\ Over'
    BY <2>2, <2>3 DEF HeldInv, TypeOK, Over
  <2> QED
    BY <2>2, <2>3, <2>4 DEF HeldInv
<1> QED
  BY <1>1, <1>2, <1>3

LEMMA NextHeld == HeldInv /\ [Next]_vars => HeldInv'
<1> SUFFICES ASSUME HeldInv, [Next]_vars PROVE HeldInv'
  OBVIOUS
<1>1. CASE config_read_string \/ config_read_file \/ SetIncludeDir
  BY <1>1, ReadsHeld
<1>2. CASE Initial \/ Comment \/ String \/ IncludePath
  BY <1>2, RulesHeld
<1>3. CASE PushInclude
  BY <1>3, PushHeld
<1>4. CASE EndOfFile
  BY <1>4, EndOfFileHeld
<1>5. CASE UNCHANGED vars
  <2>1. TypeOK' = TypeOK
    BY <1>5 DEF vars, TypeOK
  <2>2. UnderWay' = UnderWay
    BY <1>5 DEF vars, UnderWay, FramesApart, FramesOpen, CurrentOpen, OthersClosed, PlacesInText
  <2>3. Over' = Over
    BY <1>5 DEF vars, Over
  <2> QED
    BY <1>5, <2>1, <2>2, <2>3 DEF vars, HeldInv
<1> QED
  BY <1>1, <1>2, <1>3, <1>4, <1>5 DEF Next

LEMMA InvariantHeldInv == Spec => []HeldInv
<1> QED
  BY InitHeld, NextHeld, PTL DEF Spec

(* Whatever is included and wherever the parse stops, no stream is closed    *)
(* and no buffer freed twice; a read that is under way has just the files of *)
(* the stack open, and one that is over has nothing open and nothing         *)
(* allocated (libconfig.c:598-613, scanctx.c:78-152).                        *)
THEOREM ReadsLeaveNothingOpen == Spec => []NothingLeftOpen
<1>1. HeldInv => NothingLeftOpen
  <2> SUFFICES ASSUME HeldInv PROVE NothingLeftOpen
    OBVIOUS
  <2>1. OpenFilesAreTheStack
    <3> SUFFICES ASSUME status = "reading"
                 PROVE  /\ {s \in DOMAIN streams : streams[s] = "open"}
                             = {stack[i].stream : i \in DOMAIN stack} \cup ({top.stream} \ {Nil})
                        /\ {b \in DOMAIN buffers : buffers[b].live}
                             = {stack[i].buffer : i \in DOMAIN stack} \cup {current}
                        /\ Len(stack) <= MaxDepth
                        /\ {stack[i].file : i \in DOMAIN stack} \subseteq ToSet(config.filenames)
      BY DEF OpenFilesAreTheStack
    <3>1. /\ DOMAIN stack = 1 .. Len(stack) /\ DOMAIN streams = 1 .. Len(streams)
          /\ DOMAIN buffers = 1 .. Len(buffers) /\ UnderWay
      BY PartsTyped DEF HeldInv
    <3>2. \A s \in 1 .. Len(streams) : s # Nil
      BY PartsTyped, DiskAssumption
    <3>3. {s \in DOMAIN streams : streams[s] = "open"}
            = {stack[i].stream : i \in DOMAIN stack} \cup ({top.stream} \ {Nil})
      BY <3>1, <3>2 DEF UnderWay, FramesOpen, CurrentOpen, OthersClosed
    <3>4. {b \in DOMAIN buffers : buffers[b].live}
            = {stack[i].buffer : i \in DOMAIN stack} \cup {current}
      <4>1. ASSUME NEW b \in DOMAIN buffers, buffers[b].live
            PROVE  b \in {stack[i].buffer : i \in DOMAIN stack} \cup {current}
        BY <3>1, <4>1 DEF UnderWay, OthersClosed
      <4>2. ASSUME NEW b \in {stack[i].buffer : i \in DOMAIN stack} \cup {current}
            PROVE  b \in DOMAIN buffers /\ buffers[b].live
        BY <3>1, <4>2 DEF UnderWay, FramesOpen, CurrentOpen
      <4> QED
        BY <4>1, <4>2
    <3>5. {stack[i].file : i \in DOMAIN stack} \subseteq ToSet(config.filenames)
      BY <3>1 DEF UnderWay, FramesOpen
    <3> QED
      BY <3>1, <3>3, <3>4, <3>5 DEF UnderWay
  <2>2. DOMAIN streams = 1 .. Len(streams) /\ DOMAIN buffers = 1 .. Len(buffers)
    BY PartsTyped
  <2> QED
    BY <2>1, <2>2 DEF NothingLeftOpen, HeldInv, Over
<1> QED
  BY <1>1, InvariantHeldInv, PTL

-----------------------------------------------------------------------------
(* A text without buffers: what Consume makes of it.                       *)
Flat(dir, pieces, bol, cond, str, out) ==
  [dir |-> dir, pieces |-> pieces, bol |-> bol, cond |-> cond, str |-> str, out |-> out]

LEMMA FlatParts ==
  ASSUME NEW r \in Unreads
  PROVE  /\ r = Flat(r.dir, r.pieces, r.bol, r.cond, r.str, r.out)
         /\ r.dir \in DOMAIN Disk /\ r.pieces \in Seq(Pieces \cup {Back}) /\ r.bol \in BOOLEAN
         /\ r.cond \in Conditions /\ r.str \in Seq(Pieces) /\ r.out \in Seq(Tokens)
<1> QED
  BY DEF Unreads, Flat

LEMMA FlatTyped ==
  ASSUME NEW dir \in DOMAIN Disk, NEW pieces \in Seq(Pieces \cup {Back}), NEW bol \in BOOLEAN,
         NEW cond \in Conditions, NEW str \in Seq(Pieces), NEW out \in Seq(Tokens)
  PROVE  Flat(dir, pieces, bol, cond, str, out) \in Unreads
<1> QED
  BY DEF Unreads, Flat

LEMMA FlatCut ==
  ASSUME NEW dir, NEW pieces, NEW bol, NEW cond, NEW str, NEW out, NEW others
  PROVE  [Flat(dir, pieces, bol, cond, str, out) EXCEPT !.pieces = others]
           = Flat(dir, others, bol, cond, str, out)
<1> QED
  BY DEF Flat

LEMMA FlatGoes ==
  ASSUME NEW r \in Unreads, NEW c, NEW s, NEW o
  PROVE  Go(r, c, s, o) = Flat(r.dir, Tail(r.pieces), Head(r.pieces).kind = "newline", c, s, o)
<1> QED
  BY DEF Go, Flat

LEMMA FirstPiece ==
  ASSUME NEW S, NEW s \in Seq(S), s # <<>>
  PROVE  Head(s) \in S /\ Tail(s) \in Seq(S) /\ Len(s) \in Nat \ {0} /\ Head(s) = s[1]
<1> QED
  OBVIOUS

LEMMA DirectiveTyped ==
  ASSUME NEW r \in Unreads, r.pieces # <<>>
  PROVE  /\ ConsumeDirective(r) \in Unreads
         /\ NamesFile(r.dir, r.str) =>
              ConsumeDirective(r) = Flat(r.dir, Disk[r.dir][r.str[1].v] \o <<Back>> \o Tail(r.pieces),
                                         TRUE, "INITIAL", <<>>, r.out)
<1> DEFINE t == Tail(r.pieces)
           S == Pieces \cup {Back}
<1>1. /\ r.dir \in DOMAIN Disk /\ t \in Seq(S) /\ r.str \in Seq(Pieces) /\ r.out \in Seq(Tokens)
  BY FlatParts, FirstPiece
<1> HIDE DEF t
<1>2. CASE NamesFile(r.dir, r.str)
  <2> DEFINE f == Disk[r.dir][r.str[1].v]
             ps == f \o <<Back>> \o t
  <2>1. f \in Files
    BY <1>1, <1>2 DEF NamesFile, Files
  <2>2. f \in Seq(Pieces)
    BY <2>1, FilesAreTexts
  <2>3. f \in Seq(S) /\ <<Back>> \in Seq(S)
    BY <2>2
  <2>4. ps \in Seq(S)
    BY <1>1, <2>3
  <2> HIDE DEF ps
  <2>5. ConsumeDirective(r) = Flat(r.dir, ps, TRUE, "INITIAL", <<>>, r.out)
    BY <1>2 DEF ConsumeDirective, Unread, Flat, ps, t
  <2>6. "INITIAL" \in Conditions /\ <<>> \in Seq(Pieces)
    BY DEF Conditions
  <2> QED
    BY <1>1, <1>2, <2>4, <2>5, <2>6, FlatTyped DEF ps, t
<1>3. CASE ~NamesFile(r.dir, r.str)
  <2> DEFINE tok == [kind |-> "ERROR", v |-> <<>>]
             o == Append(r.out, tok)
             g == Go(r, "INITIAL", r.str, o)
  <2>1. tok \in Tokens
    BY DEF Tokens
  <2>2. o \in Seq(Tokens)
    BY <1>1, <2>1
  <2> HIDE DEF o
  <2>3. g = Flat(r.dir, t, Head(r.pieces).kind = "newline", "INITIAL", r.str, o)
    BY FlatGoes DEF t
  <2>4. ConsumeDirective(r) = [g EXCEPT !.pieces = <<>>]
    BY <1>3 DEF ConsumeDirective, TokenFrom, o
  <2> HIDE DEF g
  <2>5. ConsumeDirective(r) = Flat(r.dir, <<>>, Head(r.pieces).kind = "newline", "INITIAL", r.str, o)
    BY <2>3, <2>4 DEF Flat
  <2>6. "INITIAL" \in Conditions /\ <<>> \in Seq(S) /\ (Head(r.pieces).kind = "newline") \in BOOLEAN
    BY DEF Conditions
  <2>7. Flat(r.dir, <<>>, Head(r.pieces).kind = "newline", "INITIAL", r.str, o) \in Unreads
    BY <1>1, <2>2, <2>6, FlatTyped
  <2> QED
    BY <1>3, <2>5, <2>7
<1> QED
  BY <1>2, <1>3

(* The pieces of files are of a known kind, and none is the end of a file. *)
LEMMA PieceKinds == \A p \in Pieces : p.kind \in Kinds /\ p # Back
<1> SUFFICES ASSUME NEW p \in Pieces PROVE p.kind \in Kinds /\ p # Back
  OBVIOUS
<1>1. PICK contents \in Files : p \in ToSet(contents)
  BY DEF Pieces
<1>2. contents \in Seq(Pieces) /\ \A i \in 1 .. Len(contents) : contents[i].kind \in Kinds
  BY FilesAreTexts
<1>3. PICK i \in 1 .. Len(contents) : p = contents[i]
  BY <1>1, <1>2 DEF ToSet
<1>4. Back.kind = "back" /\ "back" \notin Kinds
  BY DEF Back, Kinds
<1> QED
  BY <1>2, <1>3, <1>4

LEMMA InitialTyped ==
  ASSUME NEW r \in Unreads, r.pieces # <<>>, Head(r.pieces) \in Pieces
  PROVE  ConsumeInitial(r) \in Unreads
<1> DEFINE p == Head(r.pieces)
           t == Tail(r.pieces)
           S == Pieces \cup {Back}
           nl == (p.kind = "newline")
           with(k) == Append(r.out, [kind |-> k, v |-> <<p>>])
<1>1. /\ r.dir \in DOMAIN Disk /\ t \in Seq(S) /\ r.str \in Seq(Pieces) /\ r.out \in Seq(Tokens)
      /\ nl \in BOOLEAN /\ p \in Pieces
  BY FlatParts, FirstPiece
<1>2. \A k \in {"NAME", "GARBAGE"} : with(k) \in Seq(Tokens)
  <2>1. \A k \in {"NAME", "GARBAGE"} : [kind |-> k, v |-> <<p>>] \in Tokens
    BY <1>1 DEF Tokens
  <2> QED
    BY <1>1, <2>1
<1>3. t # <<>> => Tail(t) \in Seq(S)
  BY <1>1
<1> HIDE DEF with, nl, t
<1>4. "INITIAL" \in Conditions /\ "STRING" \in Conditions /\ "COMMENT" \in Conditions /\ "INCLUDE" \in Conditions
  BY DEF Conditions
<1>5. ASSUME NEW c \in Conditions, NEW o \in Seq(Tokens)
      PROVE  Go(r, c, r.str, o) \in Unreads
  <2>1. Go(r, c, r.str, o) = Flat(r.dir, t, nl, c, r.str, o)
    BY FlatGoes DEF t, nl
  <2> QED
    BY <1>1, <2>1, FlatTyped
<1>6. ASSUME t # <<>>
      PROVE  [Go(r, "INCLUDE", r.str, r.out) EXCEPT !.pieces = Tail(t)]
               = Flat(r.dir, Tail(t), nl, "INCLUDE", r.str, r.out)
  <2> DEFINE g == Go(r, "INCLUDE", r.str, r.out)
             tt == Tail(t)
  <2>1. g = Flat(r.dir, t, nl, "INCLUDE", r.str, r.out)
    BY FlatGoes DEF t, nl
  <2> HIDE DEF g, tt
  <2>2. [g EXCEPT !.pieces = tt] = Flat(r.dir, tt, nl, "INCLUDE", r.str, r.out)
    BY <2>1 DEF Flat
  <2> QED
    BY <2>2 DEF g, tt
<1>7. t # <<>> => [Go(r, "INCLUDE", r.str, r.out) EXCEPT !.pieces = Tail(t)] \in Unreads
  <2> SUFFICES ASSUME t # <<>>
               PROVE  [Go(r, "INCLUDE", r.str, r.out) EXCEPT !.pieces = Tail(t)] \in Unreads
    OBVIOUS
  <2>1. Flat(r.dir, Tail(t), nl, "INCLUDE", r.str, r.out) \in Unreads
    BY <1>1, <1>3, <1>4, FlatTyped
  <2> QED
    BY <1>6, <2>1
<1>8. \/ \E c \in {"INITIAL", "STRING", "COMMENT"} : ConsumeInitial(r) = Go(r, c, r.str, r.out)
      \/ \E k \in {"NAME", "GARBAGE"} : ConsumeInitial(r) = Go(r, "INITIAL", r.str, with(k))
      \/ t # <<>> /\ ConsumeInitial(r) = [Go(r, "INCLUDE", r.str, r.out) EXCEPT !.pieces = Tail(t)]
  BY DEF ConsumeInitial, TokenFrom, with, t
<1> QED
  BY <1>1, <1>2, <1>4, <1>5, <1>7, <1>8

LEMMA ConsumeTyped ==
  ASSUME NEW r \in Unreads, r.pieces # <<>>
  PROVE  Consume(r) \in Unreads
<1> DEFINE p == Head(r.pieces)
           t == Tail(r.pieces)
           S == Pieces \cup {Back}
           nl == (p.kind = "newline")
<1>1. /\ r.dir \in DOMAIN Disk /\ t \in Seq(S) /\ r.str \in Seq(Pieces) /\ r.out \in Seq(Tokens)
      /\ nl \in BOOLEAN /\ p \in S /\ r.cond \in Conditions
  BY FlatParts, FirstPiece
<1> HIDE DEF nl, t
<1>2. ASSUME NEW c \in Conditions, NEW s \in Seq(Pieces), NEW o \in Seq(Tokens)
      PROVE  Go(r, c, s, o) \in Unreads
  <2>1. Go(r, c, s, o) = Flat(r.dir, t, nl, c, s, o)
    BY FlatGoes DEF t, nl
  <2> QED
    BY <1>1, <2>1, FlatTyped
<1>3. CASE p = Back
  <2>1. Consume(r) = Go(r, r.cond, r.str, r.out)
    BY <1>3 DEF Consume
  <2> QED
    BY <1>1, <1>2, <2>1
<1>4. CASE p # Back
  <2>1. p \in Pieces
    BY <1>1, <1>4
  <2>2. CASE r.cond = "INITIAL"
    <3>1. Consume(r) = ConsumeInitial(r)
      BY <1>4, <2>2 DEF Consume
    <3> QED
      BY <2>1, <3>1, InitialTyped
  <2>3. CASE r.cond = "COMMENT"
    <3>1. \E c \in {"INITIAL", "COMMENT"} : Consume(r) = Go(r, c, r.str, r.out)
      BY <1>4, <2>3 DEF Consume
    <3> QED
      BY <1>1, <1>2, <3>1 DEF Conditions
  <2>4. CASE r.cond \in {"STRING", "INCLUDE"} /\ p.kind # "quote"
    <3>1. Consume(r) = Go(r, r.cond, Append(r.str, p), r.out)
      BY <1>4, <2>4 DEF Consume
    <3>2. Append(r.str, p) \in Seq(Pieces)
      BY <1>1, <2>1
    <3> QED
      BY <1>1, <1>2, <3>1, <3>2
  <2>5. CASE r.cond = "STRING" /\ p.kind = "quote"
    <3> DEFINE tok == [kind |-> "STRING", v |-> r.str]
    <3>1. Consume(r) = Go(r, "INITIAL", <<>>, Append(r.out, tok))
      BY <1>4, <2>5 DEF Consume, TokenFrom
    <3>2. tok \in Tokens
      BY <1>1 DEF Tokens
    <3>3. Append(r.out, tok) \in Seq(Tokens) /\ <<>> \in Seq(Pieces) /\ "INITIAL" \in Conditions
      BY <1>1, <3>2 DEF Conditions
    <3> QED
      BY <1>2, <3>1, <3>3
  <2>6. CASE r.cond = "INCLUDE" /\ p.kind = "quote"
    <3>1. Consume(r) = ConsumeDirective(r)
      BY <1>4, <2>6 DEF Consume
    <3> QED
      BY <3>1, DirectiveTyped
  <2> QED
    BY <1>1, <2>2, <2>3, <2>4, <2>5, <2>6 DEF Conditions
<1> QED
  BY <1>3, <1>4

(* The tokens that a text may end with: there are some only if it ends.    *)
Consumes(r, n, run) ==
  /\ run \in [0 .. n -> Unreads] /\ run[0] = r /\ run[n].pieces = <<>>
  /\ \A i \in 0 .. n - 1 : run[i].pieces # <<>> /\ run[i + 1] = Consume(run[i])
EndsOf(r) == {v \in Seq(Tokens) : \E n \in Nat : \E run : Consumes(r, n, run) /\ run[n].out = v}

LEMMA EndsHere ==
  ASSUME NEW r \in Unreads, r.pieces = <<>>
  PROVE  EndsOf(r) = {r.out}
<1>1. r.out \in Seq(Tokens)
  BY FlatParts
<1>2. ASSUME NEW n \in Nat, NEW run, Consumes(r, n, run) PROVE run[n].out = r.out
  <2>1. n = 0
    BY <1>2 DEF Consumes
  <2> QED
    BY <1>2, <2>1 DEF Consumes
<1>3. Consumes(r, 0, [i \in 0 .. 0 |-> r])
  BY DEF Consumes
<1>4. \E n \in Nat : \E run : Consumes(r, n, run) /\ run[n].out = r.out
  BY <1>3
<1> QED
  BY <1>1, <1>2, <1>4 DEF EndsOf

LEMMA EndsLater ==
  ASSUME NEW r \in Unreads, r.pieces # <<>>
  PROVE  EndsOf(r) = EndsOf(Consume(r))
<1> DEFINE s == Consume(r)
<1>1. s \in Unreads
  BY ConsumeTyped
<1> HIDE DEF s
<1>2. ASSUME NEW n \in Nat, NEW run, Consumes(r, n, run)
      PROVE  \E k \in Nat : \E rest : Consumes(s, k, rest) /\ rest[k].out = run[n].out
  <2> DEFINE k == n - 1
             rest == [i \in 0 .. k |-> run[i + 1]]
  <2>1. n # 0
    BY <1>2 DEF Consumes
  <2>2. /\ k \in Nat /\ k + 1 = n /\ 0 \in 0 .. k /\ k \in 0 .. k /\ 0 \in 0 .. n - 1
        /\ \A i \in 0 .. k : i + 1 \in 0 .. n
        /\ \A i \in 0 .. k - 1 : i \in 0 .. k /\ i + 1 \in 0 .. k /\ i + 1 \in 0 .. n - 1
    BY <2>1
  <2>3. run[1] = s
    BY <1>2, <2>2 DEF Consumes, s
  <2>4. rest[0] = s /\ rest[k] = run[n] /\ rest \in [0 .. k -> Unreads]
    BY <1>2, <2>2, <2>3 DEF Consumes
  <2>5. ASSUME NEW i \in 0 .. k - 1 PROVE rest[i].pieces # <<>> /\ rest[i + 1] = Consume(rest[i])
    <3>1. rest[i] = run[i + 1] /\ rest[i + 1] = run[(i + 1) + 1]
      BY <2>2
    <3> QED
      BY <1>2, <2>2, <3>1 DEF Consumes
  <2>6. Consumes(s, k, rest)
    BY <1>2, <2>4, <2>5 DEF Consumes
  <2> QED
    BY <2>2, <2>4, <2>6
<1>3. ASSUME NEW n \in Nat, NEW run, Consumes(s, n, run)
      PROVE  \E k \in Nat : \E long : Consumes(r, k, long) /\ long[k].out = run[n].out
  <2> DEFINE k == n + 1
             long == [i \in 0 .. k |-> IF i = 0 THEN r ELSE run[i - 1]]
  <2>1. /\ k \in Nat /\ k - 1 = n /\ 0 \in 0 .. k /\ k \in 0 .. k /\ k # 0 /\ 0 \in 0 .. n
        /\ \A i \in 0 .. k : i # 0 => i - 1 \in 0 .. n
        /\ \A i \in 0 .. k - 1 : i \in 0 .. k /\ i + 1 \in 0 .. k /\ i + 1 # 0 /\ (i + 1) - 1 = i
                                 /\ (i # 0 => i - 1 \in 0 .. n - 1 /\ (i - 1) + 1 = i)
    OBVIOUS
  <2>2. run[0] = s /\ run \in [0 .. n -> Unreads] /\ run[n].pieces = <<>>
        /\ \A i \in 0 .. n - 1 : run[i].pieces # <<>> /\ run[i + 1] = Consume(run[i])
    BY <1>3 DEF Consumes
  <2>3. long[0] = r /\ long[k] = run[n] /\ long \in [0 .. k -> Unreads]
    BY <1>1, <2>1, <2>2
  <2>4. ASSUME NEW i \in 0 .. k - 1 PROVE long[i].pieces # <<>> /\ long[i + 1] = Consume(long[i])
    <3>1. long[i + 1] = run[i]
      BY <2>1
    <3>2. CASE i = 0
      BY <2>2, <2>3, <3>1, <3>2 DEF s
    <3>3. CASE i # 0
      <4>1. long[i] = run[i - 1] /\ i - 1 \in 0 .. n - 1 /\ (i - 1) + 1 = i
        BY <2>1, <3>3
      <4> QED
        BY <2>2, <3>1, <4>1
    <3> QED
      BY <3>2, <3>3
  <2>5. Consumes(r, k, long)
    BY <2>2, <2>3, <2>4 DEF Consumes
  <2> QED
    BY <2>1, <2>3, <2>5
<1>4. ASSUME NEW v \in EndsOf(r) PROVE v \in EndsOf(s)
  <2>0. PICK n \in Nat : \E run : Consumes(r, n, run) /\ run[n].out = v
    BY DEF EndsOf
  <2>1. PICK run : Consumes(r, n, run) /\ run[n].out = v
    BY <2>0
  <2>2. \E k \in Nat : \E rest : Consumes(s, k, rest) /\ rest[k].out = v
    BY <1>2, <2>1
  <2> QED
    BY <2>2 DEF EndsOf
<1>5. ASSUME NEW v \in EndsOf(s) PROVE v \in EndsOf(r)
  <2>0. PICK n \in Nat : \E run : Consumes(s, n, run) /\ run[n].out = v
    BY DEF EndsOf
  <2>1. PICK run : Consumes(s, n, run) /\ run[n].out = v
    BY <2>0
  <2>2. \E k \in Nat : \E long : Consumes(r, k, long) /\ long[k].out = v
    BY <1>3, <2>1
  <2> QED
    BY <2>2 DEF EndsOf
<1> QED
  BY <1>4, <1>5 DEF s

(* The definition of Lex is sound: such a function exists, although the    *)
(* texts of files that include themselves have no end.                     *)
LexStep(f) == [r \in Unreads |-> IF r.pieces = <<>> THEN r.out ELSE f[Consume(r)]]
Chosen(S) == CHOOSE v : v \in S

LEMMA LexExists == Lex = LexStep(Lex)
<1> DEFINE f == [r \in Unreads |-> Chosen(EndsOf(r))]
<1>1. ASSUME NEW r \in Unreads
      PROVE  f[r] = IF r.pieces = <<>> THEN r.out ELSE f[Consume(r)]
  <2>1. f[r] = Chosen(EndsOf(r))
    OBVIOUS
  <2>2. CASE r.pieces = <<>>
    <3>1. Chosen({r.out}) = r.out
      BY DEF Chosen
    <3> QED
      BY <2>1, <2>2, <3>1, EndsHere
  <2>3. CASE r.pieces # <<>>
    <3>1. Consume(r) \in Unreads /\ EndsOf(r) = EndsOf(Consume(r))
      BY <2>3, ConsumeTyped, EndsLater
    <3>2. f[Consume(r)] = Chosen(EndsOf(Consume(r)))
      BY <3>1
    <3> QED
      BY <2>1, <2>3, <3>1, <3>2
  <2> QED
    BY <2>2, <2>3
<1> HIDE DEF f
<1>2. f = [r \in Unreads |-> f[r]]
  BY DEF f
<1>3. f = LexStep(f)
  BY <1>1, <1>2 DEF LexStep
<1>4. \E g : g = LexStep(g)
  BY <1>3
<1>5. Lex = CHOOSE g : g = LexStep(g)
  BY DEF Lex, LexStep
<1> QED
  BY <1>4, <1>5

LEMMA LexEnds ==
  ASSUME NEW r \in Unreads, r.pieces = <<>>
  PROVE  Lex[r] = r.out
<1> QED
  BY LexExists DEF LexStep

LEMMA LexGoesOn ==
  ASSUME NEW r \in Unreads, r.pieces # <<>>
  PROVE  Lex[r] = Lex[Consume(r)]
<1> QED
  BY LexExists DEF LexStep

-----------------------------------------------------------------------------
(* The text that is left to read: of the current buffer, of the buffers of *)
(* the files that include it, innermost first, each end marked by Back.    *)
LevelBuffer(i) == IF i = Len(stack) THEN current ELSE stack[i + 1].buffer
Rest(b) == SubSeq(buffers[b].contents, buffers[b].pos, Len(buffers[b].contents))
Below(ahead, i) == IF i = 0 THEN <<>> ELSE <<Back>> \o ahead[i - 1]
IsAhead(ahead) ==
  /\ ahead \in [0 .. Len(stack) -> Seq(Pieces \cup {Back})]
  /\ \A i \in 0 .. Len(stack) : ahead[i] = Rest(LevelBuffer(i)) \o Below(ahead, i)
Now(ahead) == Flat(top.dir, ahead[Len(stack)], AtBol, start, text, tokens)

(* An including file is read on behind the quote that ends the directive.  *)
BehindDirectives ==
  \A i \in 1 .. Len(stack) :
    LET b == buffers[stack[i].buffer]
    IN  b.pos > 1 /\ b.contents[b.pos - 1].kind = "quote"

(* The tokens so far and the text that is left make those of the whole.    *)
SameText == \E ahead : IsAhead(ahead) /\ Lex[Unread(top.dir, top.contents)] = Lex[Now(ahead)]

TextInv ==
  /\ status = "reading" => tokens \in Seq(Tokens) /\ BehindDirectives /\ SameText
  /\ IncludeIsTextual

LEMMA RestSplits ==
  ASSUME NEW S, NEW c \in Seq(S), NEW p \in 1 .. Len(c)
  PROVE  LET r == SubSeq(c, p, Len(c))
         IN  r # <<>> /\ r \in Seq(S) /\ Head(r) = c[p] /\ Tail(r) = SubSeq(c, p + 1, Len(c))
<1> DEFINE r == SubSeq(c, p, Len(c))
           t == SubSeq(c, p + 1, Len(c))
<1>1. Len(c) \in Nat /\ p \in Nat
  OBVIOUS
<1>2. r \in Seq(S) /\ Len(r) = Len(c) - p + 1 /\ \A i \in 1 .. Len(r) : r[i] = c[p + i - 1]
  BY <1>1
<1>3. t \in Seq(S) /\ Len(t) = Len(c) - p /\ \A i \in 1 .. Len(t) : t[i] = c[(p + 1) + i - 1]
  BY <1>1
<1> HIDE DEF r, t
<1>4. r # <<>> /\ Head(r) = c[p]
  BY <1>1, <1>2
<1>5. Tail(r) \in Seq(S) /\ Len(Tail(r)) = Len(r) - 1 /\ \A i \in 1 .. Len(r) - 1 : Tail(r)[i] = r[i + 1]
  BY <1>2, <1>4
<1>6. Len(Tail(r)) = Len(t) /\ \A i \in 1 .. Len(t) : Tail(r)[i] = t[i]
  <2> SUFFICES ASSUME NEW i \in 1 .. Len(t) PROVE Tail(r)[i] = t[i]
    BY <1>1, <1>2, <1>3, <1>5
  <2>1. i \in 1 .. Len(r) - 1 /\ i + 1 \in 1 .. Len(r) /\ p + (i + 1) - 1 = (p + 1) + i - 1
    BY <1>1, <1>2, <1>3
  <2> QED
    BY <1>2, <1>3, <1>5, <2>1
<1>7. Tail(r) = t
  BY <1>3, <1>5, <1>6
<1> QED
  BY <1>2, <1>4, <1>7 DEF r, t

LEMMA RestEmpty ==
  ASSUME NEW S, NEW c \in Seq(S)
  PROVE  SubSeq(c, Len(c) + 1, Len(c)) = <<>> /\ SubSeq(c, 1, Len(c)) = c
<1> QED
  OBVIOUS

LEMMA JoinSplits ==
  ASSUME NEW S, NEW s \in Seq(S), NEW t \in Seq(S), s # <<>>
  PROVE  s \o t # <<>> /\ Head(s \o t) = Head(s) /\ Tail(s \o t) = Tail(s) \o t
<1>1. Len(s) \in Nat /\ Len(t) \in Nat /\ Len(s) > 0
  OBVIOUS
<1>2. s \o t \in Seq(S) /\ Len(s \o t) = Len(s) + Len(t)
  OBVIOUS
<1>3. s \o t # <<>> /\ Head(s \o t) = Head(s)
  BY <1>1, <1>2
<1> DEFINE a == Tail(s \o t)
           b == Tail(s) \o t
<1>4. a \in Seq(S) /\ Len(a) = Len(s) + Len(t) - 1 /\ \A i \in 1 .. Len(s) + Len(t) - 1 : a[i] = (s \o t)[i + 1]
  BY <1>1, <1>2, <1>3
<1>5. Tail(s) \in Seq(S) /\ Len(Tail(s)) = Len(s) - 1 /\ \A i \in 1 .. Len(s) - 1 : Tail(s)[i] = s[i + 1]
  BY <1>1
<1>6. b \in Seq(S) /\ Len(b) = Len(s) + Len(t) - 1
  BY <1>1, <1>5
<1>7. \A i \in 1 .. Len(s) + Len(t) - 1 : a[i] = b[i]
  <2> SUFFICES ASSUME NEW i \in 1 .. Len(s) + Len(t) - 1 PROVE a[i] = b[i]
    OBVIOUS
  <2>1. CASE i <= Len(s) - 1
    <3>1. b[i] = Tail(s)[i]
      BY <1>1, <1>5, <2>1
    <3>2. (s \o t)[i + 1] = s[i + 1]
      BY <1>1, <2>1
    <3> QED
      BY <1>1, <1>4, <1>5, <2>1, <3>1, <3>2
  <2>2. CASE i > Len(s) - 1
    <3>1. b[i] = t[i - (Len(s) - 1)]
      BY <1>1, <1>5, <2>2
    <3>2. (s \o t)[i + 1] = t[i + 1 - Len(s)]
      BY <1>1, <2>2
    <3>3. i - (Len(s) - 1) = i + 1 - Len(s)
      BY <1>1
    <3> QED
      BY <1>4, <3>1, <3>2, <3>3
  <2> QED
    BY <1>1, <2>1, <2>2
<1> HIDE DEF a, b
<1>8. a = b
  BY <1>4, <1>6, <1>7
<1> QED
  BY <1>3, <1>8 DEF a, b

LEMMA BackInSeq == <<Back>> \in Seq(Pieces \cup {Back}) /\ <<>> \in Seq(Pieces \cup {Back})
<1> QED
  OBVIOUS

LEMMA BelowTyped ==
  ASSUME HeldInv, NEW ahead, IsAhead(ahead), NEW i \in 0 .. Len(stack)
  PROVE  Below(ahead, i) \in Seq(Pieces \cup {Back})
<1>1. CASE i = 0
  BY <1>1, BackInSeq DEF Below
<1>2. CASE i # 0
  <2>1. i - 1 \in 0 .. Len(stack)
    BY <1>2, PartsTyped
  <2>2. ahead[i - 1] \in Seq(Pieces \cup {Back})
    BY <2>1 DEF IsAhead
  <2> QED
    BY <1>2, <2>2, BackInSeq DEF Below
<1> QED
  BY <1>1, <1>2

LEMMA PiecesWithBack == \A s \in Seq(Pieces) : s \in Seq(Pieces \cup {Back})
<1> QED
  OBVIOUS

LEMMA NowTyped ==
  ASSUME HeldInv, NEW ahead, IsAhead(ahead), tokens \in Seq(Tokens)
  PROVE  /\ Now(ahead) \in Unreads /\ Now(ahead).pieces = ahead[Len(stack)] /\ Now(ahead).bol = AtBol
         /\ Now(ahead).cond = start /\ Now(ahead).str = text /\ Now(ahead).out = tokens
         /\ Now(ahead).dir = top.dir
<1>1. Len(stack) \in 0 .. Len(stack)
  BY PartsTyped
<1>2. ahead[Len(stack)] \in Seq(Pieces \cup {Back})
  BY <1>1 DEF IsAhead
<1>3. top.dir \in DOMAIN Disk /\ start \in Conditions /\ text \in Seq(Pieces) /\ AtBol \in BOOLEAN
  BY DEF HeldInv, TypeOK, AtBol
<1> QED
  BY <1>2, <1>3, FlatTyped DEF Now, Flat

(* The next pieces of the text are those of the current buffer.             *)
LEMMA AheadHere ==
  ASSUME HeldInv, status = "reading", NEW ahead, IsAhead(ahead)
  PROVE  LET n == Len(stack)
             rest(k) == SubSeq(Contents, Pos + k, Len(Contents)) \o Below(ahead, n)
         IN  /\ ~AtEnd => /\ ahead[n] # <<>> /\ Head(ahead[n]) = Piece /\ Tail(ahead[n]) = rest(1)
                          /\ rest(1) \in Seq(Pieces \cup {Back})
             /\ Pos < Len(Contents) => /\ rest(1) # <<>> /\ rest(1)[1] = Contents[Pos + 1]
                                       /\ Tail(rest(1)) = rest(2) /\ rest(2) \in Seq(Pieces \cup {Back})
             /\ AtEnd => ahead[n] = Below(ahead, n)
<1> DEFINE n == Len(stack)
           S == Pieces \cup {Back}
           rest(k) == SubSeq(Contents, Pos + k, Len(Contents)) \o Below(ahead, n)
<1>1. n \in 0 .. n
  BY PartsTyped
<1>2. Below(ahead, n) \in Seq(S)
  BY <1>1, BelowTyped
<1>3. ahead[n] = SubSeq(Contents, Pos, Len(Contents)) \o Below(ahead, n)
  BY <1>1 DEF IsAhead, LevelBuffer, Rest, Contents, Pos
<1>4. /\ Contents \in Seq(S) /\ Pos \in Nat \ {0} /\ Len(Contents) \in Nat
      /\ ~AtEnd => Pos \in 1 .. Len(Contents)
      /\ AtEnd => Pos = Len(Contents) + 1
  BY HereTyped, PiecesWithBack
<1>5. ASSUME NEW p \in 1 .. Len(Contents)
      PROVE  LET r == SubSeq(Contents, p, Len(Contents))
             IN  r # <<>> /\ r \in Seq(S) /\ Head(r) = Contents[p] /\ Tail(r) = SubSeq(Contents, p + 1, Len(Contents))
  BY <1>4, RestSplits
<1>6. \A k \in {1, 2} : Pos + k <= Len(Contents) + 1 => SubSeq(Contents, Pos + k, Len(Contents)) \in Seq(S)
  BY <1>4
<1>7. ASSUME ~AtEnd
      PROVE  /\ ahead[n] # <<>> /\ Head(ahead[n]) = Piece /\ Tail(ahead[n]) = rest(1) /\ rest(1) \in Seq(S)
  <2>1. Pos \in 1 .. Len(Contents) /\ Pos + 1 <= Len(Contents) + 1
    BY <1>4, <1>7
  <2> DEFINE r == SubSeq(Contents, Pos, Len(Contents))
  <2>2. r # <<>> /\ r \in Seq(S) /\ Head(r) = Piece /\ Tail(r) = SubSeq(Contents, Pos + 1, Len(Contents))
    BY <1>5, <2>1 DEF Piece
  <2> HIDE DEF r
  <2>3. ahead[n] = r \o Below(ahead, n)
    BY <1>3 DEF r
  <2>4. rest(1) \in Seq(S)
    BY <1>2, <1>6, <2>1
  <2> QED
    BY <1>2, <2>2, <2>3, <2>4, JoinSplits
<1>8. ASSUME Pos < Len(Contents)
      PROVE  /\ rest(1) # <<>> /\ rest(1)[1] = Contents[Pos + 1]
             /\ Tail(rest(1)) = rest(2) /\ rest(2) \in Seq(S)
  <2>1. Pos + 1 \in 1 .. Len(Contents) /\ Pos + 2 <= Len(Contents) + 1 /\ (Pos + 1) + 1 = Pos + 2
    BY <1>4, <1>8
  <2> DEFINE r == SubSeq(Contents, Pos + 1, Len(Contents))
  <2>2. r # <<>> /\ r \in Seq(S) /\ Head(r) = Contents[Pos + 1]
        /\ Tail(r) = SubSeq(Contents, Pos + 2, Len(Contents))
    BY <1>5, <2>1
  <2> HIDE DEF r
  <2>3. rest(1) = r \o Below(ahead, n)
    BY DEF r
  <2>4. r \o Below(ahead, n) # <<>> /\ Head(r \o Below(ahead, n)) = Head(r)
        /\ Tail(r \o Below(ahead, n)) = Tail(r) \o Below(ahead, n)
    BY <1>2, <2>2, JoinSplits
  <2>5. rest(2) \in Seq(S)
    BY <1>2, <1>6, <2>1
  <2>6. Head(rest(1)) = rest(1)[1]
    <3>1. r \o Below(ahead, n) \in Seq(S)
      BY <1>2, <2>2
    <3> HIDE DEF rest
    <3>2. rest(1) \in Seq(S) /\ rest(1) # <<>>
      BY <2>3, <2>4, <3>1
    <3> QED
      BY <3>2, FirstPiece
  <2> HIDE DEF rest
  <2>7. rest(2) = Tail(r) \o Below(ahead, n)
    BY <2>2 DEF rest
  <2> QED
    BY <2>2, <2>3, <2>4, <2>5, <2>6, <2>7
<1>9. ASSUME AtEnd PROVE ahead[n] = Below(ahead, n)
  <2>1. SubSeq(Contents, Pos, Len(Contents)) = <<>>
    BY <1>4, <1>9, RestEmpty
  <2> QED
    BY <1>2, <1>3, <2>1
<1> QED
  BY <1>7, <1>8, <1>9

(* Where the scanner has moved to.                                         *)
LEMMA MovedHere ==
  ASSUME HeldInv, status = "reading", NEW n \in {1, 2}, NEW lines \in {0, 1}, Moved(n, lines),
         Pos + n <= Len(Contents) + 1, UNCHANGED current
  PROVE  /\ Contents' = Contents /\ Pos' = Pos + n
         /\ AtBol' = (Contents[Pos + n - 1].kind = "newline")
<1>1. current \in 1 .. Len(buffers) /\ Pos \in Nat \ {0}
  BY HereTyped
<1>2. /\ buffers'[current].contents = buffers[current].contents
      /\ buffers'[current].pos = buffers[current].pos + n
  <2>1. n \in Nat /\ lines \in Nat /\ buffers[current].pos + n <= Len(buffers[current].contents) + 1
    BY DEF Pos, Contents
  <2>2. \A b \in 1 .. Len(buffers) : buffers'[b].contents = buffers[b].contents
    BY <2>1, MovedBuffers
  <2>3. buffers'[current].pos = buffers[current].pos + n
    BY <2>1, MovedBuffers
  <2> QED
    BY <1>1, <2>2, <2>3
<1>3. Contents' = Contents /\ Pos' = Pos + n
  BY <1>2 DEF Contents, Pos
<1>4. Pos + n # 1 /\ (Pos + n) - 1 = Pos + n - 1
  BY <1>1
<1>5. AtBol' <=> Pos' = 1 \/ Contents'[Pos' - 1].kind = "newline"
  BY DEF AtBol
<1>6. AtBol' <=> Contents[Pos + n - 1].kind = "newline"
  BY <1>3, <1>4, <1>5
<1>7. AtBol' \in BOOLEAN
  BY DEF AtBol
<1> QED
  BY <1>3, <1>6, <1>7

LEMMA LevelsTyped ==
  ASSUME HeldInv, status = "reading"
  PROVE  /\ \A i \in 0 .. Len(stack) : LevelBuffer(i) \in 1 .. Len(buffers)
         /\ \A i \in 0 .. Len(stack) : i # Len(stack) => LevelBuffer(i) # current
<1>1. Len(stack) \in Nat /\ UnderWay
  BY PartsTyped DEF HeldInv
<1> SUFFICES ASSUME NEW i \in 0 .. Len(stack)
             PROVE  LevelBuffer(i) \in 1 .. Len(buffers) /\ (i # Len(stack) => LevelBuffer(i) # current)
  OBVIOUS
<1>2. CASE i = Len(stack)
  BY <1>1, <1>2 DEF LevelBuffer, UnderWay, CurrentOpen
<1>3. CASE i # Len(stack)
  <2>1. i + 1 \in 1 .. Len(stack)
    BY <1>1, <1>3
  <2> QED
    BY <1>1, <1>3, <2>1 DEF LevelBuffer, UnderWay, FramesOpen
<1> QED
  BY <1>2, <1>3

LEMMA AheadMoves ==
  ASSUME HeldInv, status = "reading", NEW ahead, IsAhead(ahead),
         NEW n \in {1, 2}, NEW lines \in {0, 1}, Moved(n, lines),
         Pos + n <= Len(Contents) + 1, UNCHANGED <<current, stack>>
  PROVE  LET rest == SubSeq(Contents, Pos + n, Len(Contents)) \o Below(ahead, Len(stack))
         IN  \E a : IsAhead(a)' /\ a[Len(stack)] = rest
<1> DEFINE m == Len(stack)
           S == Pieces \cup {Back}
           rest == SubSeq(Contents, Pos + n, Len(Contents)) \o Below(ahead, m)
<1> PICK a : a = [ahead EXCEPT ![m] = rest]
  OBVIOUS
<1>1. /\ m \in Nat /\ m \in 0 .. m /\ current \in 1 .. Len(buffers)
      /\ Contents \in Seq(S) /\ Pos \in Nat /\ Len(Contents) \in Nat
  BY PartsTyped, HereTyped, PiecesWithBack
<1>2. rest \in Seq(S)
  <2>1. SubSeq(Contents, Pos + n, Len(Contents)) \in Seq(S)
    BY <1>1
  <2> QED
    BY <1>1, <2>1, BelowTyped
<1>3. /\ ahead \in [0 .. m -> Seq(S)]
      /\ \A i \in 0 .. m : ahead[i] = Rest(LevelBuffer(i)) \o Below(ahead, i)
  BY DEF IsAhead
<1> HIDE DEF rest
<1>4. a \in [0 .. m -> Seq(S)] /\ a[m] = rest /\ \A i \in 0 .. m : i # m => a[i] = ahead[i]
  BY <1>1, <1>2, <1>3
<1>5. \A i \in 0 .. m : Below(a, i) = Below(ahead, i)
  <2> SUFFICES ASSUME NEW i \in 0 .. m, i # 0 PROVE a[i - 1] = ahead[i - 1]
    BY DEF Below
  <2>1. i - 1 \in 0 .. m /\ i - 1 # m
    BY <1>1
  <2> QED
    BY <1>4, <2>1
<1>6. \A i \in 0 .. m : LevelBuffer(i)' = LevelBuffer(i)
  BY DEF LevelBuffer
<1>7. \A b \in 1 .. Len(buffers) : b # current => buffers'[b] = buffers[b]
  BY <1>1, MovedBuffers DEF Pos, Contents
<1>8. ASSUME NEW i \in 0 .. m
      PROVE  a[i] = SubSeq(buffers'[LevelBuffer(i)].contents, buffers'[LevelBuffer(i)].pos,
                           Len(buffers'[LevelBuffer(i)].contents)) \o Below(a, i)
  <2>1. CASE i = m
    <3>1. LevelBuffer(i) = current
      BY <2>1 DEF LevelBuffer
    <3>2. buffers'[current].contents = Contents /\ buffers'[current].pos = Pos + n
      <4>1. Contents' = Contents /\ Pos' = Pos + n
        BY MovedHere
      <4> QED
        BY <4>1 DEF Pos, Contents
    <3> QED
      BY <1>4, <1>5, <2>1, <3>1, <3>2 DEF rest
  <2>2. CASE i # m
    <3>1. LevelBuffer(i) \in 1 .. Len(buffers) /\ LevelBuffer(i) # current
      BY <2>2, LevelsTyped
    <3>2. a[i] = ahead[i] /\ ahead[i] = Rest(LevelBuffer(i)) \o Below(a, i)
      BY <1>3, <1>4, <1>5, <2>2
    <3> QED
      BY <1>7, <3>1, <3>2 DEF Rest
  <2> QED
    BY <2>1, <2>2
<1>9. IsAhead(a)'
  <2>1. \A i \in 0 .. m : Below(a, i)' = Below(a, i)
    BY DEF Below
  <2>2. \A i \in 0 .. m : Rest(LevelBuffer(i))' = SubSeq(buffers'[LevelBuffer(i)].contents,
                              buffers'[LevelBuffer(i)].pos, Len(buffers'[LevelBuffer(i)].contents))
    BY <1>6 DEF Rest
  <2>3. \A i \in 0 .. m : a[i] = Rest(LevelBuffer(i))' \o Below(a, i)
    BY <1>8, <2>2
  <2> QED
    BY <1>4, <2>1, <2>3 DEF IsAhead
<1> QED
  BY <1>4, <1>9 DEF rest

LEMMA BehindKept ==
  ASSUME HeldInv, status = "reading", BehindDirectives, NEW n \in {1, 2}, NEW lines \in {0, 1},
         Moved(n, lines), Pos + n <= Len(Contents) + 1, UNCHANGED <<current, stack>>
  PROVE  BehindDirectives'
<1>1. \A i \in 1 .. Len(stack) : stack[i].buffer \in 1 .. Len(buffers) /\ stack[i].buffer # current
  BY DEF HeldInv, UnderWay, FramesOpen
<1>2. \A b \in 1 .. Len(buffers) : b # current => buffers'[b] = buffers[b]
  BY MovedBuffers DEF Pos, Contents
<1> QED
  BY <1>1, <1>2 DEF BehindDirectives

(* A step that reads n pieces, which the text gives up in one.              *)
LEMMA MovedText ==
  ASSUME HeldInv, TextInv, status = "reading", NEW n \in {1, 2}, NEW lines \in {0, 1},
         Moved(n, lines), Pos + n <= Len(Contents) + 1,
         UNCHANGED <<status, config, current, streams, stack, top, fault, reads>>,
         tokens' \in Seq(Tokens),
         \A ahead : IsAhead(ahead) =>
           /\ ahead[Len(stack)] # <<>>
           /\ Consume(Now(ahead)) =
                Flat(top.dir, SubSeq(Contents, Pos + n, Len(Contents)) \o Below(ahead, Len(stack)),
                     AtBol', start', text', tokens')
  PROVE  TextInv'
<1>1. tokens \in Seq(Tokens) /\ BehindDirectives /\ SameText
  BY DEF TextInv
<1>2. PICK ahead : IsAhead(ahead) /\ Lex[Unread(top.dir, top.contents)] = Lex[Now(ahead)]
  BY <1>1 DEF SameText
<1> DEFINE rest == SubSeq(Contents, Pos + n, Len(Contents)) \o Below(ahead, Len(stack))
<1>3. PICK a : IsAhead(a)' /\ a[Len(stack)] = rest
  BY <1>2, AheadMoves
<1>4. Now(ahead) \in Unreads /\ Now(ahead).pieces # <<>>
  BY <1>1, <1>2, NowTyped
<1>5. Lex[Now(ahead)] = Lex[Consume(Now(ahead))]
  BY <1>4, LexGoesOn
<1>6. Consume(Now(ahead)) = Flat(top.dir, rest, AtBol', start', text', tokens')
  BY <1>2
<1> HIDE DEF rest
<1>7. Now(a)' = Flat(top.dir, a[Len(stack)], AtBol', start', text', tokens')
  BY DEF Now, Flat
<1>8. Lex[Unread(top.dir, top.contents)] = Lex[Now(a)']
  BY <1>2, <1>3, <1>5, <1>6, <1>7
<1>9. SameText'
  <2>1. Lex[Unread(top.dir, top.contents)]' = Lex[Unread(top.dir, top.contents)]
    BY DEF Unread
  <2> QED
    BY <1>3, <1>8, <2>1 DEF SameText
<1>10. BehindDirectives'
  BY <1>1, BehindKept
<1> QED
  BY <1>9, <1>10 DEF TextInv, IncludeIsTextual, ReadToTheEnd

(* ... of one piece, which a rule takes.                                    *)
LEMMA OneGone ==
  ASSUME HeldInv, TextInv, status = "reading", ~AtEnd, NEW lines \in {0, 1}, Moved(1, lines),
         UNCHANGED <<status, config, current, streams, stack, top, fault, reads>>,
         tokens' \in Seq(Tokens),
         \A r \in Unreads : /\ r.pieces # <<>> /\ Head(r.pieces) = Piece /\ r.bol = AtBol
                            /\ r.cond = start /\ r.str = text /\ r.out = tokens
                            => Consume(r) = Go(r, start', text', tokens')
  PROVE  TextInv'
<1>1. Pos + 1 <= Len(Contents) + 1 /\ Pos \in Nat
  BY HereTyped
<1>2. AtBol' = (Piece.kind = "newline")
  <2>1. Pos + 1 - 1 = Pos
    BY <1>1
  <2> QED
    BY <1>1, <2>1, MovedHere DEF Piece
<1>3. ASSUME NEW ahead, IsAhead(ahead)
      PROVE  /\ ahead[Len(stack)] # <<>>
             /\ Consume(Now(ahead)) =
                  Flat(top.dir, SubSeq(Contents, Pos + 1, Len(Contents)) \o Below(ahead, Len(stack)),
                       AtBol', start', text', tokens')
  <2>1. tokens \in Seq(Tokens)
    BY DEF TextInv
  <2>2. /\ Now(ahead) \in Unreads /\ Now(ahead).pieces = ahead[Len(stack)] /\ Now(ahead).bol = AtBol
        /\ Now(ahead).cond = start /\ Now(ahead).str = text /\ Now(ahead).out = tokens
        /\ Now(ahead).dir = top.dir
    BY <1>3, <2>1, NowTyped
  <2>3. /\ ahead[Len(stack)] # <<>> /\ Head(ahead[Len(stack)]) = Piece
        /\ Tail(ahead[Len(stack)]) = SubSeq(Contents, Pos + 1, Len(Contents)) \o Below(ahead, Len(stack))
    BY <1>3, AheadHere
  <2>4. Consume(Now(ahead)) = Go(Now(ahead), start', text', tokens')
    BY <2>2, <2>3
  <2>5. Go(Now(ahead), start', text', tokens')
          = Flat(top.dir, Tail(ahead[Len(stack)]), Piece.kind = "newline", start', text', tokens')
    BY <2>2, <2>3, FlatGoes
  <2> QED
    BY <1>2, <2>3, <2>4, <2>5
<1> QED
  BY <1>1, <1>3, MovedText

(* A parse that fails leaves no text to speak of.                           *)
LEMMA FailedText ==
  ASSUME HeldInv, NEW known, End(FALSE, Here, known)
  PROVE  TextInv'
<1> DEFINE err == [type |-> "PARSE", file |-> CurrentFile,
                   line |-> IF known # Nil THEN known ELSE Here.line]
<1>1. status' = "idle" /\ config' = [config EXCEPT !.error = err]
  BY DEF End
<1>2. err.type = "PARSE"
  OBVIOUS
<1> HIDE DEF err
<1>3. config'.error = err
  BY <1>1 DEF HeldInv, TypeOK
<1> QED
  BY <1>1, <1>2, <1>3 DEF TextInv, IncludeIsTextual, ReadToTheEnd

(* The text where the scanner stands. *)
Stands(r) ==
  /\ r.pieces # <<>> /\ Head(r.pieces) = Piece /\ r.bol = AtBol
  /\ r.cond = start /\ r.str = text /\ r.out = tokens

LEMMA SkippedText ==
  ASSUME HeldInv, TextInv, status = "reading", ~AtEnd, NEW lines \in {0, 1}, NEW c, NEW t,
         Skip(1, lines, c, t),
         \A r \in Unreads : Stands(r) => Consume(r) = Go(r, c, t, tokens)
  PROVE  TextInv'
<1>1. /\ Moved(1, lines) /\ UNCHANGED <<status, config, current, streams, stack, top, fault, reads>>
      /\ start' = c /\ text' = t /\ tokens' = tokens
  BY DEF Skip, Moved
<1>2. tokens' \in Seq(Tokens)
  BY <1>1 DEF TextInv
<1> QED
  BY <1>1, <1>2, OneGone DEF Stands

LEMMA ReturnedText ==
  ASSUME HeldInv, TextInv, status = "reading", ~AtEnd, NEW tok \in Tokens, NEW c, NEW t,
         Return(tok, c, t),
         \A r \in Unreads : Stands(r) => Consume(r) = Go(r, c, t, Append(tokens, tok))
  PROVE  TextInv'
<1>1. tokens' = Append(tokens, tok) /\ start' = c /\ text' = t /\ UNCHANGED <<top, reads>>
  BY DEF Return
<1>2. CASE End(FALSE, Here, Nil)
  BY <1>2, FailedText
<1>3. CASE Moved(1, 0) /\ UNCHANGED <<status, config, current, streams, stack, fault>>
  <2>1. tokens' \in Seq(Tokens)
    BY <1>1 DEF TextInv
  <2> QED
    BY <1>1, <1>3, <2>1, OneGone DEF Stands
<1> QED
  BY <1>2, <1>3, OnePieceOn DEF Return

LEMMA StandsInPiece ==
  ASSUME HeldInv, status = "reading", ~AtEnd, NEW r \in Unreads, Stands(r)
  PROVE  /\ Head(r.pieces) = Piece /\ Piece \in Pieces /\ Piece.kind \in Kinds /\ Piece # Back
         /\ r.cond = start /\ r.str = text /\ r.out = tokens /\ r.bol = AtBol
<1> QED
  BY HereTyped, PieceKinds DEF Stands

LEMMA InitialText ==
  ASSUME HeldInv, TextInv, Initial
  PROVE  TextInv'
<1>1. status = "reading" /\ start = "INITIAL" /\ ~AtEnd
  BY DEF Initial, Scanning
<1>2. /\ Piece \in Pieces /\ Piece.kind \in Kinds /\ <<Piece>> \in Seq(Pieces)
      /\ Pos \in Nat /\ Len(Contents) \in Nat
  BY <1>1, HereTyped
<1>3. \A k \in {"NAME", "GARBAGE"} : [kind |-> k, v |-> <<Piece>>] \in Tokens
  BY <1>2 DEF Tokens
<1>4. ASSUME NEW r \in Unreads, Stands(r)
      PROVE  /\ Consume(r) = ConsumeInitial(r) /\ Head(r.pieces) = Piece
             /\ r.str = text /\ r.out = tokens /\ r.bol = AtBol
  <2>1. Head(r.pieces) = Piece /\ Piece # Back /\ r.cond = "INITIAL"
        /\ r.str = text /\ r.out = tokens /\ r.bol = AtBol
    BY <1>1, <1>4, StandsInPiece
  <2> QED
    BY <2>1 DEF Consume
<1>5. CASE Piece.kind = "word"
  <2>1. Return([kind |-> "NAME", v |-> <<Piece>>], start, text)
    BY <1>5 DEF Initial
  <2>2. \A r \in Unreads : Stands(r) =>
          Consume(r) = Go(r, start, text, Append(tokens, [kind |-> "NAME", v |-> <<Piece>>]))
    BY <1>1, <1>4, <1>5 DEF ConsumeInitial, TokenFrom
  <2> QED
    BY <1>1, <1>3, <2>1, <2>2, ReturnedText
<1>6. CASE Piece.kind = "newline"
  <2>1. Skip(1, 1, start, text)
    BY <1>6 DEF Initial
  <2>2. \A r \in Unreads : Stands(r) => Consume(r) = Go(r, start, text, tokens)
    BY <1>1, <1>4, <1>6 DEF ConsumeInitial
  <2> QED
    BY <1>1, <2>1, <2>2, SkippedText
<1>7. CASE Piece.kind = "quote"
  <2>1. Skip(1, 0, "STRING", text)
    BY <1>7 DEF Initial
  <2>2. \A r \in Unreads : Stands(r) => Consume(r) = Go(r, "STRING", text, tokens)
    BY <1>1, <1>4, <1>7 DEF ConsumeInitial
  <2> QED
    BY <1>1, <2>1, <2>2, SkippedText
<1>8. CASE Piece.kind = "open"
  <2>1. Skip(1, 0, "COMMENT", text)
    BY <1>8 DEF Initial
  <2>2. \A r \in Unreads : Stands(r) => Consume(r) = Go(r, "COMMENT", text, tokens)
    BY <1>1, <1>4, <1>8 DEF ConsumeInitial
  <2> QED
    BY <1>1, <2>1, <2>2, SkippedText
<1>9. CASE Piece.kind = "close"
  <2>1. Return([kind |-> "GARBAGE", v |-> <<Piece>>], start, text)
    BY <1>9 DEF Initial
  <2>2. \A r \in Unreads : Stands(r) =>
          Consume(r) = Go(r, start, text, Append(tokens, [kind |-> "GARBAGE", v |-> <<Piece>>]))
    BY <1>1, <1>4, <1>9 DEF ConsumeInitial, TokenFrom
  <2> QED
    BY <1>1, <1>3, <2>1, <2>2, ReturnedText
<1>10. CASE Piece.kind = "include"
  <2> DEFINE begins == AtBol /\ Pos < Len(Contents) /\ Contents[Pos + 1].kind = "quote"
             n == Len(stack)
             rest(ahead, k) == SubSeq(Contents, Pos + k, Len(Contents)) \o Below(ahead, n)
  \* The directive begins in the text where it begins in the file: no quote
  \* follows the end of a file.
  <2>1. ASSUME NEW ahead, IsAhead(ahead)
        PROVE  /\ Now(ahead) \in Unreads /\ Now(ahead).pieces = ahead[n] /\ Stands(Now(ahead))
               /\ ahead[n] # <<>> /\ Head(ahead[n]) = Piece /\ Tail(ahead[n]) = rest(ahead, 1)
               /\ begins <=> AtBol /\ rest(ahead, 1) # <<>> /\ rest(ahead, 1)[1].kind = "quote"
               /\ begins => Tail(rest(ahead, 1)) = rest(ahead, 2)
    <3>1. tokens \in Seq(Tokens)
      BY <1>1 DEF TextInv
    <3>2. /\ ahead[n] # <<>> /\ Head(ahead[n]) = Piece /\ Tail(ahead[n]) = rest(ahead, 1)
          /\ Pos < Len(Contents) => /\ rest(ahead, 1) # <<>> /\ rest(ahead, 1)[1] = Contents[Pos + 1]
                                    /\ Tail(rest(ahead, 1)) = rest(ahead, 2)
      BY <1>1, <2>1, AheadHere
    <3>3. CASE Pos < Len(Contents)
      BY <2>1, <3>1, <3>2, <3>3, NowTyped DEF Stands
    <3>4. CASE ~(Pos < Len(Contents))
      <4>1. Pos = Len(Contents)
        BY <1>1, <3>4, HereTyped
      <4>2. n \in 0 .. n /\ Below(ahead, n) \in Seq(Pieces \cup {Back})
        BY <2>1, PartsTyped, BelowTyped
      <4>3. rest(ahead, 1) = Below(ahead, n)
        <5>1. SubSeq(Contents, Pos + 1, Len(Contents)) = <<>>
          BY <1>1, <4>1, HereTyped, RestEmpty
        <5>2. \A s \in Seq(Pieces \cup {Back}) : <<>> \o s = s
          OBVIOUS
        <5> QED
          BY <4>2, <5>1, <5>2
      <4>4. Below(ahead, n) # <<>> => Below(ahead, n)[1] = Back
        <5>1. CASE n = 0
          BY <5>1 DEF Below
        <5>2. CASE n # 0
          <6>1. n - 1 \in 0 .. n
            BY <4>2, <5>2
          <6>2. ahead[n - 1] \in Seq(Pieces \cup {Back})
            BY <2>1, <6>1 DEF IsAhead
          <6>3. (<<Back>> \o ahead[n - 1])[1] = Back
            BY <6>2
          <6> QED
            BY <5>2, <6>3 DEF Below
        <5> QED
          BY <5>1, <5>2
      <4>5. ~(rest(ahead, 1) # <<>> /\ rest(ahead, 1)[1].kind = "quote")
        <5>1. Back.kind = "back"
          BY DEF Back
        <5> QED
          BY <4>3, <4>4, <5>1
      <4> HIDE DEF rest
      <4> QED
        BY <2>1, <3>1, <3>2, <3>4, <4>5, NowTyped DEF Stands
    <3> QED
      BY <3>3, <3>4
  <2>2. CASE begins
    <3>1. Skip(2, 0, "INCLUDE", text)
      BY <1>10, <2>2 DEF Initial
    <3>2. /\ Moved(2, 0) /\ UNCHANGED <<status, config, current, streams, stack, top, fault, reads>>
          /\ start' = "INCLUDE" /\ text' = text /\ tokens' = tokens
      BY <3>1 DEF Skip, Moved
    <3>3. Pos + 2 <= Len(Contents) + 1 /\ Pos + 2 - 1 = Pos + 1
      BY <1>2, <2>2
    <3>4. AtBol' = FALSE
      <4>1. AtBol' = (Contents[Pos + 2 - 1].kind = "newline")
        BY <1>1, <3>2, <3>3, MovedHere
      <4> QED
        BY <2>2, <3>3, <4>1
    <3>5. ASSUME NEW ahead, IsAhead(ahead)
          PROVE  /\ ahead[n] # <<>>
                 /\ Consume(Now(ahead)) = Flat(top.dir, rest(ahead, 2), AtBol', start', text', tokens')
      <4> DEFINE r == Now(ahead)
                 t == Tail(ahead[n])
                 tt == Tail(t)
                 g == Go(r, "INCLUDE", r.str, r.out)
      <4>1. /\ r \in Unreads /\ r.pieces = ahead[n] /\ Stands(r) /\ ahead[n] # <<>>
            /\ t # <<>> /\ t[1].kind = "quote" /\ tt = rest(ahead, 2)
        BY <2>1, <2>2, <3>5
      <4>2. r.dir = top.dir /\ Head(r.pieces) = Piece /\ r.bol = AtBol /\ r.str = text /\ r.out = tokens
            /\ Consume(r) = ConsumeInitial(r)
        BY <1>1, <1>4, <3>5, <4>1, NowTyped DEF TextInv, Stands
      <4> HIDE DEF r
      <4>3. ConsumeInitial(r) = [g EXCEPT !.pieces = tt]
        BY <1>10, <2>2, <4>1, <4>2 DEF ConsumeInitial
      <4> DEFINE nl == (Head(r.pieces).kind = "newline")
      <4>4. nl = AtBol'
        BY <1>10, <3>4, <4>2
      <4>5. g = Flat(top.dir, t, nl, "INCLUDE", text, tokens)
        <5>1. Tail(r.pieces) = t
          BY <4>1
        <5> QED
          BY <4>1, <4>2, <5>1, FlatGoes
      <4> HIDE DEF g, t, tt, nl
      <4>6. [g EXCEPT !.pieces = tt] = Flat(top.dir, tt, nl, "INCLUDE", text, tokens)
        BY <4>5, FlatCut
      <4>7. Consume(r) = Flat(top.dir, tt, AtBol', start', text', tokens')
        BY <3>2, <4>2, <4>3, <4>4, <4>6
      <4> QED
        BY <4>1, <4>7 DEF r
    <3>6. tokens' \in Seq(Tokens)
      BY <1>1, <3>2 DEF TextInv
    <3> QED
      BY <1>1, <3>2, <3>3, <3>5, <3>6, MovedText
  <2>3. CASE ~begins
    <3> DEFINE tok == [kind |-> "GARBAGE", v |-> <<Piece>>]
    <3>1. Return(tok, start, text)
      BY <1>10, <2>3 DEF Initial
    <3>2. CASE End(FALSE, Here, Nil)
      BY <3>2, FailedText
    <3>3. CASE Moved(1, 0) /\ UNCHANGED <<status, config, current, streams, stack, fault>>
      <4>1. /\ UNCHANGED <<status, config, current, streams, stack, top, fault, reads>>
            /\ start' = "INITIAL" /\ text' = text /\ tokens' = Append(tokens, tok)
        BY <1>1, <3>1, <3>3 DEF Return
      <4>2. tokens' \in Seq(Tokens)
        BY <1>1, <1>3, <4>1 DEF TextInv
      <4>3. Pos + 1 <= Len(Contents) + 1 /\ Pos + 1 - 1 = Pos
        BY <1>1, HereTyped
      <4>4. AtBol' = FALSE
        <5>1. AtBol' = (Contents[Pos + 1 - 1].kind = "newline")
          BY <1>1, <3>3, <4>3, MovedHere
        <5> QED
          BY <1>10, <4>3, <5>1 DEF Piece
      <4>5. ASSUME NEW ahead, IsAhead(ahead)
            PROVE  /\ ahead[n] # <<>>
                   /\ Consume(Now(ahead)) = Flat(top.dir, rest(ahead, 1), AtBol', start', text', tokens')
        <5> DEFINE r == Now(ahead)
                   t == Tail(ahead[n])
        <5>1. /\ r \in Unreads /\ r.pieces = ahead[n] /\ Stands(r) /\ ahead[n] # <<>>
              /\ t = rest(ahead, 1) /\ ~(AtBol /\ t # <<>> /\ t[1].kind = "quote")
          BY <2>1, <2>3, <4>5
        <5>2. r.dir = top.dir /\ Head(r.pieces) = Piece /\ r.bol = AtBol /\ r.str = text /\ r.out = tokens
              /\ Consume(r) = ConsumeInitial(r)
          BY <1>1, <1>4, <4>5, <5>1, NowTyped DEF TextInv, Stands
        <5> HIDE DEF r
        <5>3. ConsumeInitial(r) = Go(r, "INITIAL", text, Append(tokens, tok))
          BY <1>10, <5>1, <5>2 DEF ConsumeInitial, TokenFrom
        <5>4. Go(r, "INITIAL", text, Append(tokens, tok))
                = Flat(top.dir, t, FALSE, "INITIAL", text, Append(tokens, tok))
          <6>1. (Head(r.pieces).kind = "newline") = FALSE /\ Tail(r.pieces) = t
            BY <1>10, <5>1, <5>2
          <6>2. Go(r, "INITIAL", text, Append(tokens, tok))
                  = Flat(r.dir, Tail(r.pieces), Head(r.pieces).kind = "newline", "INITIAL", text, Append(tokens, tok))
            BY <5>1, FlatGoes
          <6> QED
            BY <5>2, <6>1, <6>2
        <5> HIDE DEF t
        <5>5. Consume(r) = Flat(top.dir, t, AtBol', start', text', tokens')
          BY <4>1, <4>4, <5>2, <5>3, <5>4
        <5> QED
          BY <5>1, <5>5 DEF r
      <4> QED
        BY <1>1, <3>3, <4>1, <4>2, <4>3, <4>5, MovedText
    <3> QED
      BY <1>1, <3>1, <3>2, <3>3, OnePieceOn DEF Return
  <2> QED
    BY <2>2, <2>3
<1> QED
  BY <1>2, <1>5, <1>6, <1>7, <1>8, <1>9, <1>10 DEF Kinds

LEMMA RulesText ==
  ASSUME HeldInv, TextInv, Initial \/ Comment \/ String \/ IncludePath
  PROVE  TextInv'
<1>1. status = "reading" /\ ~AtEnd
  BY DEF Initial, Comment, String, IncludePath, Scanning
<1>2. text \in Seq(Pieces) /\ tokens \in Seq(Tokens) /\ Piece.kind \in Kinds
  BY <1>1, HereTyped DEF HeldInv, TypeOK, TextInv
<1>3. CASE Initial
  BY <1>3, InitialText
<1>4. CASE Comment
  <2> DEFINE c == IF Piece.kind = "close" THEN "INITIAL" ELSE "COMMENT"
  <2>1. start = "COMMENT"
    BY <1>4 DEF Comment, Scanning
  <2>2. \E lines \in {0, 1} : Skip(1, lines, c, text)
    BY <1>4, <2>1 DEF Comment
  <2>3. ASSUME NEW r \in Unreads, Stands(r) PROVE Consume(r) = Go(r, c, text, tokens)
    <3>1. Head(r.pieces) = Piece /\ Piece # Back /\ r.cond = "COMMENT" /\ r.str = text /\ r.out = tokens
      BY <1>1, <2>1, <2>3, StandsInPiece
    <3> QED
      BY <3>1 DEF Consume
  <2> QED
    BY <1>1, <2>2, <2>3, SkippedText
<1>5. CASE String
  <2>1. start = "STRING"
    BY <1>5 DEF String, Scanning
  <2>2. ASSUME NEW r \in Unreads, Stands(r)
        PROVE  Head(r.pieces) = Piece /\ Piece # Back /\ r.cond = "STRING" /\ r.str = text /\ r.out = tokens
    BY <1>1, <2>1, <2>2, StandsInPiece
  <2>3. CASE Piece.kind = "quote"
    <3> DEFINE tok == [kind |-> "STRING", v |-> text]
    <3>1. tok \in Tokens
      BY <1>2 DEF Tokens
    <3>2. Return(tok, "INITIAL", <<>>)
      BY <1>5, <2>3 DEF String
    <3>3. ASSUME NEW r \in Unreads, Stands(r) PROVE Consume(r) = Go(r, "INITIAL", <<>>, Append(tokens, tok))
      BY <2>2, <2>3, <3>3 DEF Consume, TokenFrom
    <3> QED
      BY <1>1, <3>1, <3>2, <3>3, ReturnedText
  <2>4. CASE Piece.kind # "quote"
    <3>1. \E lines \in {0, 1} : Skip(1, lines, start, Append(text, Piece))
      BY <1>5, <2>4 DEF String
    <3>2. ASSUME NEW r \in Unreads, Stands(r) PROVE Consume(r) = Go(r, start, Append(text, Piece), tokens)
      BY <2>1, <2>2, <2>4, <3>2 DEF Consume
    <3> QED
      BY <1>1, <3>1, <3>2, SkippedText
  <2> QED
    BY <2>3, <2>4
<1>6. CASE IncludePath
  <2>1. start = "INCLUDE" /\ Piece.kind # "quote"
    BY <1>6 DEF IncludePath, Scanning
  <2>2. \E lines \in {0, 1} : Skip(1, lines, start, Append(text, Piece))
    BY <1>6 DEF IncludePath
  <2>3. ASSUME NEW r \in Unreads, Stands(r) PROVE Consume(r) = Go(r, start, Append(text, Piece), tokens)
    <3>1. Head(r.pieces) = Piece /\ Piece # Back /\ r.cond = "INCLUDE" /\ r.str = text /\ r.out = tokens
      BY <1>1, <2>1, <2>3, StandsInPiece
    <3> QED
      BY <2>1, <3>1 DEF Consume
  <2> QED
    BY <1>1, <2>2, <2>3, SkippedText
<1> QED
  BY <1>3, <1>4, <1>5, <1>6

(* The text of the file that is included stands before the rest. *)
LEMMA PushedText ==
  ASSUME HeldInv, TextInv, Scanning("INCLUDE"), Piece.kind = "quote", Len(stack) < MaxDepth, Found, Pushed
  PROVE  TextInv'
<1> DEFINE S == Pieces \cup {Back}
           file == Disk[config.includeDir][text[1].v]
<1>0. PICK n, k, c : n = Len(stack) /\ k = Len(buffers) /\ c = current
  OBVIOUS
<1>1. /\ status = "reading" /\ ~AtEnd /\ start = "INCLUDE" /\ UnderWay /\ n \in Nat /\ k \in Nat
      /\ tokens \in Seq(Tokens) /\ BehindDirectives /\ SameText /\ c \in 1 .. k
      /\ Pos \in Nat \ {0} /\ Piece # Back
  BY <1>0, PartsTyped, HereTyped, PieceKinds DEF Scanning, HeldInv, TextInv
<1>2. /\ file \in Files
      /\ Len(stack') = n + 1 /\ \A i \in 1 .. n : stack'[i] = stack[i]
      /\ stack'[n + 1].buffer = c
      /\ Len(buffers') = k + 1 /\ current' = k + 1
      /\ \A b \in 1 .. k : /\ buffers'[b].contents = buffers[b].contents
                           /\ b # c => buffers'[b] = buffers[b]
      /\ buffers'[c].pos = buffers[c].pos + 1
      /\ buffers'[k + 1] = NewBuffer(file)
  BY <1>0, PushedState
<1>3. /\ status' = status /\ start' = "INITIAL" /\ text' = <<>> /\ top' = top /\ tokens' = tokens
  BY DEF Pushed
<1>4. file \in Seq(Pieces) /\ file \in Seq(S) /\ config.includeDir = top.dir
  BY <1>1, <1>2, FilesAreTexts, PiecesWithBack DEF UnderWay
<1> HIDE DEF file
<1>5. PICK ahead : IsAhead(ahead) /\ Lex[Unread(top.dir, top.contents)] = Lex[Now(ahead)]
  BY <1>1 DEF SameText
<1> DEFINE rest == SubSeq(Contents, Pos + 1, Len(Contents)) \o Below(ahead, n)
           inner == file \o <<Back>> \o rest
<1>6. /\ ahead \in [0 .. n -> Seq(S)]
      /\ \A i \in 0 .. n : ahead[i] = Rest(LevelBuffer(i)) \o Below(ahead, i)
  BY <1>0, <1>5 DEF IsAhead
<1>7. ahead[n] # <<>> /\ Head(ahead[n]) = Piece /\ Tail(ahead[n]) = rest /\ rest \in Seq(S)
  BY <1>0, <1>1, <1>5, AheadHere
<1>8. inner \in Seq(S)
  BY <1>4, <1>7, BackInSeq
<1> HIDE DEF rest, inner
<1> PICK a : a = [i \in 0 .. n + 1 |-> IF i = n + 1 THEN inner ELSE IF i = n THEN rest ELSE ahead[i]]
  OBVIOUS
<1>9. /\ a \in [0 .. n + 1 -> Seq(S)] /\ a[n + 1] = inner /\ a[n] = rest
      /\ \A i \in 0 .. n - 1 : a[i] = ahead[i] /\ i # n /\ i # n + 1 /\ i \in 0 .. n
      /\ \A i \in 0 .. n + 1 : i = n + 1 \/ i = n \/ i \in 0 .. n - 1
      /\ n \in 0 .. n + 1 /\ n + 1 \in 0 .. n + 1 /\ n # n + 1 /\ n \in 0 .. n
  <2>1. /\ \A i \in 0 .. n - 1 : i # n /\ i # n + 1 /\ i \in 0 .. n /\ i \in 0 .. n + 1
        /\ \A i \in 0 .. n + 1 : i = n + 1 \/ i = n \/ i \in 0 .. n - 1
        /\ n \in 0 .. n + 1 /\ n + 1 \in 0 .. n + 1 /\ n # n + 1 /\ n \in 0 .. n
    BY <1>1
  <2>2. a[n + 1] = inner /\ a[n] = rest /\ \A i \in 0 .. n - 1 : a[i] = ahead[i]
    BY <2>1
  <2>3. \A i \in 0 .. n + 1 : a[i] \in Seq(S)
    BY <1>6, <1>7, <1>8, <2>1, <2>2
  <2> QED
    BY <2>1, <2>2, <2>3
<1>10. Below(a, n) = Below(ahead, n) /\ \A i \in 0 .. n - 1 : Below(a, i) = Below(ahead, i)
  <2>1. ASSUME NEW i \in 0 .. n, i # 0 PROVE a[i - 1] = ahead[i - 1]
    <3>1. i - 1 \in 0 .. n - 1
      BY <1>1, <2>1
    <3> QED
      BY <1>9, <3>1
  <2>2. \A i \in 0 .. n : Below(a, i) = Below(ahead, i)
    BY <2>1 DEF Below
  <2> QED
    BY <1>9, <2>2
<1>11. Below(a, n + 1) = <<Back>> \o rest
  <2>1. n + 1 # 0 /\ (n + 1) - 1 = n
    BY <1>1
  <2>2. a[(n + 1) - 1] = rest
    BY <1>9, <2>1
  <2>3. Below(a, n + 1) = <<Back>> \o a[(n + 1) - 1]
    BY <2>1 DEF Below
  <2> QED
    BY <2>2, <2>3
<1>12. /\ LevelBuffer(n + 1)' = k + 1 /\ LevelBuffer(n)' = c
       /\ \A i \in 0 .. n - 1 : /\ LevelBuffer(i)' = LevelBuffer(i)
                                /\ LevelBuffer(i) \in 1 .. k /\ LevelBuffer(i) # c
  <2>1. LevelBuffer(n + 1)' = k + 1
    BY <1>2 DEF LevelBuffer
  <2>2. LevelBuffer(n)' = c
    BY <1>1, <1>2 DEF LevelBuffer
  <2>3. ASSUME NEW i \in 0 .. n - 1 PROVE LevelBuffer(i)' = LevelBuffer(i)
    <3>1. i + 1 \in 1 .. n /\ i # n /\ i # n + 1
      BY <1>1
    <3> QED
      BY <1>0, <1>2, <3>1 DEF LevelBuffer
  <2> QED
    BY <1>0, <1>1, <1>9, <2>1, <2>2, <2>3, LevelsTyped
<1>13. Rest(k + 1)' = file
  <2>1. buffers'[k + 1].contents = file /\ buffers'[k + 1].pos = 1
    BY <1>2 DEF NewBuffer
  <2>2. SubSeq(file, 1, Len(file)) = file
    BY <1>4, RestEmpty
  <2> QED
    BY <2>1, <2>2 DEF Rest
<1>14. Rest(c)' = SubSeq(Contents, Pos + 1, Len(Contents))
  <2>1. buffers'[c].contents = Contents /\ buffers'[c].pos = Pos + 1
    BY <1>0, <1>1, <1>2 DEF Contents, Pos
  <2> QED
    BY <2>1 DEF Rest
<1>15. ASSUME NEW i \in 0 .. n + 1 PROVE a[i] = Rest(LevelBuffer(i))' \o Below(a, i)
  <2>1. CASE i = n + 1
    <3>1. Rest(LevelBuffer(i))' = file
      BY <1>12, <1>13, <2>1 DEF Rest
    <3>2. inner = file \o (<<Back>> \o rest)
      BY <1>4, <1>7, BackInSeq, ConcatAssociative DEF inner
    <3> QED
      BY <1>9, <1>11, <2>1, <3>1, <3>2
  <2>2. CASE i = n
    <3>1. Rest(LevelBuffer(i))' = SubSeq(Contents, Pos + 1, Len(Contents))
      BY <1>12, <1>14, <2>2 DEF Rest
    <3> QED
      BY <1>9, <1>10, <2>2, <3>1 DEF rest
  <2>3. CASE i \in 0 .. n - 1
    <3>1. Rest(LevelBuffer(i))' = Rest(LevelBuffer(i))
      BY <1>2, <1>12, <2>3 DEF Rest
    <3> QED
      BY <1>6, <1>9, <1>10, <2>3, <3>1
  <2> QED
    BY <1>9, <2>1, <2>2, <2>3
<1>16. IsAhead(a)'
  <2>1. \A i \in 0 .. n + 1 : Below(a, i)' = Below(a, i)
    BY DEF Below
  <2> QED
    BY <1>2, <1>9, <1>15, <2>1 DEF IsAhead
<1>17. BehindDirectives'
  <2> SUFFICES ASSUME NEW i \in 1 .. n + 1
               PROVE  LET b == buffers'[stack'[i].buffer]
                      IN  b.pos > 1 /\ b.contents[b.pos - 1].kind = "quote"
    BY <1>2 DEF BehindDirectives
  <2>1. CASE i = n + 1
    <3>1. buffers'[c].contents = Contents /\ buffers'[c].pos = Pos + 1
      BY <1>0, <1>1, <1>2 DEF Contents, Pos
    <3>2. Pos + 1 > 1 /\ (Pos + 1) - 1 = Pos
      BY <1>1
    <3> QED
      BY <1>2, <2>1, <3>1, <3>2 DEF Piece
  <2>2. CASE i \in 1 .. n
    <3>1. stack[i].buffer \in 1 .. k /\ stack[i].buffer # c
      BY <1>0, <1>1, <2>2 DEF UnderWay, FramesOpen
    <3>2. buffers'[stack'[i].buffer] = buffers[stack[i].buffer]
      BY <1>2, <2>2, <3>1
    <3>3. buffers[stack[i].buffer].pos > 1
          /\ buffers[stack[i].buffer].contents[buffers[stack[i].buffer].pos - 1].kind = "quote"
      BY <1>0, <1>1, <2>2 DEF BehindDirectives
    <3> QED
      BY <3>2, <3>3
  <2> QED
    BY <1>1, <2>1, <2>2
<1>18. AtBol' = TRUE
  <2>1. Pos' = 1
    BY <1>2 DEF Pos, NewBuffer
  <2> QED
    BY <2>1 DEF AtBol
<1>19. Consume(Now(ahead)) = Now(a)'
  <2> DEFINE r == Now(ahead)
  <2>1. /\ r \in Unreads /\ r.pieces = ahead[n] /\ r.cond = "INCLUDE" /\ r.str = text /\ r.out = tokens
        /\ r.dir = top.dir /\ r.pieces # <<>> /\ Head(r.pieces) = Piece /\ Tail(r.pieces) = rest
    BY <1>0, <1>1, <1>5, <1>7, NowTyped
  <2> HIDE DEF r
  <2>2. NamesFile(r.dir, r.str) /\ file = Disk[r.dir][r.str[1].v]
    BY <1>4, <2>1 DEF Found, file
  <2>3. Consume(r) = ConsumeDirective(r)
    BY <1>1, <2>1 DEF Consume
  <2>4. ConsumeDirective(r) = Flat(r.dir, file \o <<Back>> \o Tail(r.pieces), TRUE, "INITIAL", <<>>, r.out)
    BY <2>1, <2>2, DirectiveTyped
  <2>6. Now(a)' = Flat(top.dir, inner, TRUE, "INITIAL", <<>>, tokens)
    BY <1>2, <1>3, <1>9, <1>18 DEF Now
  <2> QED
    BY <2>1, <2>3, <2>4, <2>6 DEF r, inner
<1>20. SameText'
  <2>1. Now(ahead) \in Unreads /\ Now(ahead).pieces # <<>>
    BY <1>0, <1>1, <1>5, <1>7, NowTyped
  <2>2. Lex[Now(ahead)] = Lex[Now(a)']
    BY <1>19, <2>1, LexGoesOn
  <2>3. Lex[Unread(top.dir, top.contents)]' = Lex[Unread(top.dir, top.contents)]
    BY <1>3 DEF Unread
  <2> QED
    BY <1>5, <1>16, <2>2, <2>3 DEF SameText
<1> QED
  BY <1>1, <1>3, <1>17, <1>20 DEF TextInv, IncludeIsTextual, ReadToTheEnd

(* Behind the included file the text goes on with the rest of the including one. *)
LEMMA PoppedText ==
  ASSUME HeldInv, TextInv, status = "reading", AtEnd, stack # <<>>, Popped
  PROVE  TextInv'
<1> DEFINE S == Pieces \cup {Back}
<1>0. PICK n, k, c : n = Len(stack) /\ k = Len(buffers) /\ c = current
  OBVIOUS
<1>1. /\ UnderWay /\ n \in Nat \ {0} /\ k \in Nat /\ tokens \in Seq(Tokens) /\ BehindDirectives /\ SameText
      /\ n \in 1 .. n
  BY <1>0, PartsTyped, PoppedState DEF HeldInv, TextInv
<1>2. /\ Len(stack') = n - 1 /\ \A i \in 1 .. n - 1 : i \in 1 .. n /\ stack'[i] = stack[i]
      /\ current' = stack[n].buffer
      /\ Len(buffers') = k
      /\ \A b \in 1 .. k : /\ buffers'[b].contents = buffers[b].contents
                           /\ buffers'[b].pos = buffers[b].pos
  BY <1>0, PoppedState
<1>3. UNCHANGED <<status, config, tokens, start, text, top, reads>>
  BY DEF Popped
<1>4. PICK ahead : IsAhead(ahead) /\ Lex[Unread(top.dir, top.contents)] = Lex[Now(ahead)]
  BY <1>1 DEF SameText
<1>5. /\ ahead \in [0 .. n -> Seq(S)]
      /\ \A i \in 0 .. n : ahead[i] = Rest(LevelBuffer(i)) \o Below(ahead, i)
  BY <1>0, <1>4 DEF IsAhead
<1>6. /\ n - 1 \in 0 .. n - 1 /\ n - 1 \in 0 .. n /\ n \in 0 .. n /\ n # 0
      /\ \A i \in 0 .. n - 1 : i \in 0 .. n /\ i # n
  BY <1>1
<1>7. ahead[n] = <<Back>> \o ahead[n - 1]
  <2>1. ahead[n] = Below(ahead, n)
    BY <1>0, <1>4, AheadHere
  <2> QED
    BY <1>6, <2>1 DEF Below
<1>8. ahead[n] # <<>> /\ Head(ahead[n]) = Back /\ Tail(ahead[n]) = ahead[n - 1]
  <2>1. ahead[n - 1] \in Seq(S)
    BY <1>5, <1>6
  <2>2. <<Back>> # <<>> /\ Head(<<Back>>) = Back /\ Tail(<<Back>>) = <<>>
    OBVIOUS
  <2>3. \A s \in Seq(S) : <<>> \o s = s
    OBVIOUS
  <2> QED
    BY <1>7, <2>1, <2>2, <2>3, BackInSeq, JoinSplits
<1> PICK a : a = [i \in 0 .. n - 1 |-> ahead[i]]
  OBVIOUS
<1>9. a \in [0 .. n - 1 -> Seq(S)] /\ \A i \in 0 .. n - 1 : a[i] = ahead[i]
  BY <1>5, <1>6
<1>10. \A i \in 0 .. n - 1 : Below(a, i) = Below(ahead, i)
  <2> SUFFICES ASSUME NEW i \in 0 .. n - 1, i # 0 PROVE a[i - 1] = ahead[i - 1]
    BY DEF Below
  <2>1. i - 1 \in 0 .. n - 1
    BY <1>1
  <2> QED
    BY <1>9, <2>1
<1>11. \A i \in 0 .. n - 1 : LevelBuffer(i)' = LevelBuffer(i) /\ LevelBuffer(i) \in 1 .. k
  <2> SUFFICES ASSUME NEW i \in 0 .. n - 1 PROVE LevelBuffer(i)' = LevelBuffer(i)
    BY <1>0, <1>1, <1>6, LevelsTyped
  <2>1. LevelBuffer(i) = stack[i + 1].buffer
    BY <1>0, <1>6 DEF LevelBuffer
  <2>2. CASE i = n - 1
    <3>1. i + 1 = n
      BY <1>1, <2>2
    <3> QED
      BY <1>2, <2>1, <2>2, <3>1 DEF LevelBuffer
  <2>3. CASE i # n - 1
    <3>1. i + 1 \in 1 .. n - 1
      BY <1>1, <2>3
    <3>2. LevelBuffer(i)' = stack'[i + 1].buffer
      BY <1>2, <2>3 DEF LevelBuffer
    <3> QED
      BY <1>2, <2>1, <3>1, <3>2
  <2> QED
    BY <2>2, <2>3
<1>12. \A i \in 0 .. n - 1 : Rest(LevelBuffer(i))' = Rest(LevelBuffer(i))
  BY <1>2, <1>11 DEF Rest
<1>13. IsAhead(a)'
  <2>1. \A i \in 0 .. n - 1 : Below(a, i)' = Below(a, i)
    BY DEF Below
  <2>2. \A i \in 0 .. n - 1 : a[i] = Rest(LevelBuffer(i))' \o Below(a, i)
    BY <1>5, <1>6, <1>9, <1>10, <1>12
  <2> QED
    BY <1>2, <1>9, <2>1, <2>2 DEF IsAhead
<1>14. \A i \in 1 .. n : stack[i].buffer \in 1 .. k
  BY <1>0, <1>1 DEF UnderWay, FramesOpen
<1>15. BehindDirectives'
  <2> SUFFICES ASSUME NEW i \in 1 .. n - 1
               PROVE  LET b == buffers'[stack'[i].buffer]
                      IN  b.pos > 1 /\ b.contents[b.pos - 1].kind = "quote"
    BY <1>2 DEF BehindDirectives
  <2>1. stack'[i] = stack[i] /\ i \in 1 .. n
    BY <1>2
  <2>2. buffers[stack[i].buffer].pos > 1
        /\ buffers[stack[i].buffer].contents[buffers[stack[i].buffer].pos - 1].kind = "quote"
    BY <1>0, <1>1, <2>1 DEF BehindDirectives
  <2> QED
    BY <1>2, <1>14, <2>1, <2>2
<1>16. AtBol' = FALSE
  <2> DEFINE b == stack[n].buffer
  <2>1. b \in 1 .. k /\ buffers[b].pos > 1 /\ buffers[b].contents[buffers[b].pos - 1].kind = "quote"
    BY <1>0, <1>1, <1>14 DEF BehindDirectives
  <2>2. buffers[b].pos \in Nat
    BY <1>0, <2>1, PartsTyped
  <2>3. Pos' = buffers[b].pos /\ Contents' = buffers[b].contents
    BY <1>2, <2>1 DEF Pos, Contents
  <2>4. AtBol' <=> Pos' = 1 \/ Contents'[Pos' - 1].kind = "newline"
    BY DEF AtBol
  <2>5. ~AtBol'
    BY <2>1, <2>2, <2>3, <2>4
  <2> QED
    BY <2>5 DEF AtBol
<1>17. Consume(Now(ahead)) = Now(a)'
  <2> DEFINE r == Now(ahead)
  <2>1. /\ r \in Unreads /\ r.pieces = ahead[n] /\ r.cond = start /\ r.str = text /\ r.out = tokens
        /\ r.dir = top.dir /\ r.pieces # <<>> /\ Head(r.pieces) = Back /\ Tail(r.pieces) = ahead[n - 1]
    BY <1>0, <1>1, <1>4, <1>8, NowTyped
  <2> HIDE DEF r
  <2>2. Consume(r) = Go(r, start, text, tokens)
    BY <2>1 DEF Consume
  <2>3. (Head(r.pieces).kind = "newline") = AtBol'
    <3>1. Back.kind = "back"
      BY DEF Back
    <3>2. (Head(r.pieces).kind = "newline") = FALSE
      BY <2>1, <3>1
    <3> QED
      BY <1>16, <3>2
  <2>4. Go(r, start, text, tokens)
          = Flat(r.dir, Tail(r.pieces), Head(r.pieces).kind = "newline", start, text, tokens)
    BY <2>1, FlatGoes
  <2>5. Now(a)' = Flat(top.dir, ahead[n - 1], AtBol', start, text, tokens)
    BY <1>2, <1>3, <1>6, <1>9 DEF Now
  <2> QED
    BY <2>1, <2>2, <2>3, <2>4, <2>5 DEF r
<1>18. SameText'
  <2>1. Now(ahead) \in Unreads /\ Now(ahead).pieces # <<>>
    BY <1>0, <1>1, <1>4, <1>8, NowTyped
  <2>2. Lex[Now(ahead)] = Lex[Now(a)']
    BY <1>17, <2>1, LexGoesOn
  <2>3. Lex[Unread(top.dir, top.contents)]' = Lex[Unread(top.dir, top.contents)]
    BY <1>3 DEF Unread
  <2> QED
    BY <1>4, <1>13, <2>2, <2>3 DEF SameText
<1> QED
  BY <1>1, <1>3, <1>15, <1>18 DEF TextInv, IncludeIsTextual, ReadToTheEnd

LEMMA EndOfFileText ==
  ASSUME HeldInv, TextInv, EndOfFile
  PROVE  TextInv'
<1>1. status = "reading" /\ AtEnd /\ start' = start /\ text' = text /\ top' = top /\ reads' = reads
  BY DEF EndOfFile
<1>2. CASE stack # <<>>
  <2>1. Popped
    BY <1>2 DEF EndOfFile, Popped
  <2> QED
    BY <1>1, <1>2, <2>1, PoppedText
<1>3. CASE stack = <<>>
  <2>1. PICK ok \in BOOLEAN : End(ok, Here, Nil)
    BY <1>3 DEF EndOfFile
  <2>2. CASE ~ok
    BY <2>1, <2>2, FailedText
  <2>3. CASE ok
    <3>1. tokens' = WithEOF(tokens)
      BY <1>3 DEF EndOfFile, WithEOF
    <3>2. tokens \in Seq(Tokens) /\ SameText
      BY <1>1 DEF TextInv
    <3>3. PICK ahead : IsAhead(ahead) /\ Lex[Unread(top.dir, top.contents)] = Lex[Now(ahead)]
      BY <3>2 DEF SameText
    <3>4. Len(stack) = 0 /\ ahead[Len(stack)] = <<>>
      <4>1. Len(stack) = 0
        BY <1>3
      <4>2. ahead[Len(stack)] = Below(ahead, Len(stack))
        BY <1>1, <3>3, AheadHere
      <4> QED
        BY <4>1, <4>2 DEF Below
    <3>5. Lex[Now(ahead)] = tokens
      <4>1. Now(ahead) \in Unreads /\ Now(ahead).pieces = <<>> /\ Now(ahead).out = tokens
        BY <3>2, <3>3, <3>4, NowTyped
      <4> QED
        BY <4>1, LexEnds
    <3>6. Lex[Unread(top.dir, top.contents)]' = Lex[Unread(top.dir, top.contents)]
      BY <1>1 DEF Unread
    <3>7. IncludeIsTextual'
      BY <3>1, <3>3, <3>5, <3>6 DEF IncludeIsTextual
    <3>8. status' = "idle"
      BY <2>1 DEF End
    <3> QED
      BY <3>7, <3>8 DEF TextInv
  <2> QED
    BY <2>2, <2>3
<1> QED
  BY <1>2, <1>3

LEMMA PushIncludeText ==
  ASSUME HeldInv, TextInv, PushInclude
  PROVE  TextInv'
<1>1. Scanning("INCLUDE") /\ Piece.kind = "quote"
  BY DEF PushInclude
<1>2. CASE Len(stack) < MaxDepth /\ Found
  <2>1. Pushed
    BY <1>2 DEF PushInclude, Pushed
  <2> QED
    BY <1>1, <1>2, <2>1, PushedText
<1>3. CASE ~(Len(stack) < MaxDepth /\ Found) /\ Len(stack) < MaxDepth /\ IsDirectory
  <2>1. status' = "crashed"
    BY <1>3 DEF PushInclude
  <2> QED
    BY <2>1 DEF TextInv, IncludeIsTextual, ReadToTheEnd
<1>4. CASE ~(Len(stack) < MaxDepth /\ Found) /\ ~(Len(stack) < MaxDepth /\ IsDirectory)
  <2>1. End(FALSE, Here, buffers[current].line)
    BY <1>4 DEF PushInclude
  <2> QED
    BY <2>1, FailedText
<1> QED
  BY <1>2, <1>3, <1>4

(* A read begins with all of its text. *)
LEMMA BeginText ==
  ASSUME HeldInv, NEW stream \in {1, Nil}, NEW name, NEW contents \in Files, Begin(stream, name, contents)
  PROVE  TextInv'
<1> DEFINE S == Pieces \cup {Back}
           dir == config.includeDir
<1>1. /\ buffers' = <<NewBuffer(contents)>> /\ current' = 1 /\ stack' = <<>> /\ Len(stack') = 0
      /\ start' = "INITIAL" /\ text' = <<>> /\ tokens' = <<>> /\ status' = "reading"
      /\ top' = [stream |-> stream, name |-> name, contents |-> contents, dir |-> dir]
  BY DEF Begin
<1>2. contents \in Seq(S)
  BY FilesAreTexts, PiecesWithBack
<1> PICK a : a = [i \in 0 .. 0 |-> contents]
  OBVIOUS
<1>3. a \in [0 .. 0 -> Seq(S)] /\ a[0] = contents /\ 0 \in 0 .. 0 /\ \A i \in 0 .. 0 : i = 0
  BY <1>2
<1>4. LevelBuffer(0)' = 1 /\ buffers'[1].contents = contents /\ buffers'[1].pos = 1
  BY <1>1 DEF LevelBuffer, NewBuffer
<1>5. Rest(LevelBuffer(0))' = contents
  <2>1. SubSeq(contents, 1, Len(contents)) = contents
    BY <1>2, RestEmpty
  <2> QED
    BY <1>4, <2>1 DEF Rest
<1>6. contents \o <<>> = contents
  BY <1>2
<1>7. IsAhead(a)'
  <2>1. Below(a, 0)' = <<>>
    BY DEF Below
  <2>2. a[0] = Rest(LevelBuffer(0))' \o Below(a, 0)'
    BY <1>3, <1>5, <1>6, <2>1
  <2> QED
    BY <1>1, <1>3, <2>2 DEF IsAhead
<1>8. AtBol' = TRUE
  <2>1. Pos' = 1
    BY <1>1, <1>4 DEF Pos
  <2> QED
    BY <2>1 DEF AtBol
<1>9. Now(a)' = Flat(dir, contents, TRUE, "INITIAL", <<>>, <<>>)
  <2>1. top'.dir = dir
    BY <1>1
  <2> QED
    BY <1>1, <1>3, <1>8, <2>1 DEF Now
<1>10. Unread(top.dir, top.contents)' = Flat(dir, contents, TRUE, "INITIAL", <<>>, <<>>)
  <2>1. top'.dir = dir /\ top'.contents = contents
    BY <1>1
  <2> QED
    BY <2>1 DEF Unread, Flat
<1>11. SameText'
  <2>1. Lex[Unread(top.dir, top.contents)]' = Lex[Now(a)]'
    BY <1>9, <1>10
  <2> QED
    BY <1>7, <2>1 DEF SameText
<1>12. BehindDirectives'
  BY <1>1 DEF BehindDirectives
<1> QED
  BY <1>1, <1>11, <1>12 DEF TextInv, IncludeIsTextual, ReadToTheEnd

LEMMA ReadsText ==
  ASSUME HeldInv, TextInv, config_read_string \/ config_read_file \/ SetIncludeDir
  PROVE  TextInv'
<1>1. CASE config_read_string
  <2>1. PICK contents \in Texts : Begin(Nil, Nil, contents)
    BY <1>1 DEF config_read_string
  <2>2. contents \in Files /\ Nil \in {1, Nil}
    BY DEF Files
  <2> QED
    BY <2>1, <2>2, BeginText
<1>2. CASE config_read_file
  <2>0. Reading
    BY <1>2 DEF config_read_file
  <2>1. PICK f \in TopNames :
          IF f \in DOMAIN Disk["."] THEN Begin(1, f, Disk["."][f])
          ELSE IF f \in Directories
               THEN /\ config' = [config EXCEPT !.error = [@ EXCEPT !.type = "FILE_IO"]]
                    /\ UNCHANGED status
               ELSE status' = "crashed"
    BY <1>2 DEF config_read_file
  <2>2. CASE f \in DOMAIN Disk["."]
    <3>1. Disk["."][f] \in Files /\ 1 \in {1, Nil}
      BY <2>2, DiskAssumption DEF Files
    <3> QED
      BY <2>1, <2>2, <3>1, BeginText
  <2>3. CASE f \notin DOMAIN Disk["."] /\ f \in Directories
    <3>1. config' = [config EXCEPT !.error = [@ EXCEPT !.type = "FILE_IO"]] /\ status' = status
      BY <2>1, <2>3
    <3>2. config'.error.type = "FILE_IO"
      <4> DEFINE err == [config.error EXCEPT !.type = "FILE_IO"]
      <4>1. config.error \in Errors /\ config \in [error : Errors, filenames : Seq(Names), includeDir : DOMAIN Disk]
        BY DEF HeldInv, TypeOK
      <4>2. err.type = "FILE_IO"
        BY <4>1 DEF Errors
      <4>3. config' = [config EXCEPT !.error = err]
        BY <3>1
      <4> HIDE DEF err
      <4> QED
        BY <4>1, <4>2, <4>3
    <3>3. status = "idle"
      BY <2>0 DEF Reading
    <3> QED
      BY <3>1, <3>2, <3>3 DEF TextInv, IncludeIsTextual, ReadToTheEnd
  <2>4. CASE f \notin DOMAIN Disk["."] /\ f \notin Directories
    <3>1. status' = "crashed"
      BY <2>1, <2>4
    <3> QED
      BY <3>1 DEF TextInv, IncludeIsTextual, ReadToTheEnd
  <2> QED
    BY <2>2, <2>3, <2>4
<1>3. CASE SetIncludeDir
  <2>1. PICK d \in DOMAIN Disk \ {"."} : config' = [config EXCEPT !.includeDir = d]
    BY <1>3 DEF SetIncludeDir
  <2>2. /\ status = "idle" /\ status' = status /\ tokens' = tokens /\ top' = top /\ reads' = reads
    BY <1>3 DEF SetIncludeDir
  <2>3. config'.error = config.error
    BY <2>1 DEF HeldInv, TypeOK
  <2>4. ReadToTheEnd' <=> ReadToTheEnd
    BY <2>2, <2>3 DEF ReadToTheEnd
  <2>5. Lex[Unread(top.dir, top.contents)]' = Lex[Unread(top.dir, top.contents)]
    BY <2>2 DEF Unread
  <2> QED
    BY <2>2, <2>4, <2>5 DEF TextInv, IncludeIsTextual
<1> QED
  BY <1>1, <1>2, <1>3

LEMMA InitText == Init => TextInv
<1> QED
  BY DEF Init, TextInv, IncludeIsTextual, ReadToTheEnd

LEMMA NextText == HeldInv /\ TextInv /\ [Next]_vars => TextInv'
<1> SUFFICES ASSUME HeldInv, TextInv, [Next]_vars PROVE TextInv'
  OBVIOUS
<1>1. CASE config_read_string \/ config_read_file \/ SetIncludeDir
  BY <1>1, ReadsText
<1>2. CASE Initial \/ Comment \/ String \/ IncludePath
  BY <1>2, RulesText
<1>3. CASE PushInclude
  BY <1>3, PushIncludeText
<1>4. CASE EndOfFile
  BY <1>4, EndOfFileText
<1>5. CASE UNCHANGED vars
  <2>1. \A ahead : /\ IsAhead(ahead)' <=> IsAhead(ahead)
                   /\ Now(ahead)' = Now(ahead)
    BY <1>5 DEF vars, IsAhead, Now, LevelBuffer, Rest, Below, AtBol, Pos, Contents
  <2>2. SameText' <=> SameText
    BY <1>5, <2>1 DEF vars, SameText, Unread
  <2>3. /\ IncludeIsTextual' <=> IncludeIsTextual
        /\ BehindDirectives' <=> BehindDirectives
    BY <1>5 DEF vars, IncludeIsTextual, ReadToTheEnd, BehindDirectives, Unread
  <2> QED
    BY <1>5, <2>2, <2>3 DEF vars, TextInv
<1> QED
  BY <1>1, <1>2, <1>3, <1>4, <1>5 DEF Next

(* A file read to its end gives the tokens of one text, in which each       *)
(* directive is replaced by the file it names: no switch of buffers, start  *)
(* condition or saved text shows, at any depth and in any read               *)
(* (scanner.c:1067-1090, 1204-1220, 1666-1705).                              *)
THEOREM InclusionIsTextual == Spec => []IncludeIsTextual
<1>1. TextInv => IncludeIsTextual
  BY DEF TextInv
<1> QED
  BY <1>1, InitText, NextText, InvariantHeldInv, PTL DEF Spec

-----------------------------------------------------------------------------
(* The line and the file that a failed read reports.                       *)
LEMMA LinesStart == \A contents : LineAt(contents, 0) = 1
<1> SUFFICES ASSUME NEW contents PROVE LineAt(contents, 0) = 1
  OBVIOUS
<1>1. {i \in 1 .. 0 : contents[i].kind = "newline"} = {}
  OBVIOUS
<1> QED
  BY <1>1, FS_EmptySet DEF LineAt

LEMMA LinesGoOn ==
  ASSUME NEW contents, NEW n \in Nat
  PROVE  /\ LineAt(contents, n) \in Nat
         /\ contents[n + 1].kind = "newline" => LineAt(contents, n + 1) = LineAt(contents, n) + 1
         /\ contents[n + 1].kind # "newline" => LineAt(contents, n + 1) = LineAt(contents, n)
<1> DEFINE S(m) == {i \in 1 .. m : contents[i].kind = "newline"}
<1>1. IsFiniteSet(1 .. n) /\ S(n) \subseteq 1 .. n
  BY FS_Interval
<1>2. IsFiniteSet(S(n)) /\ Cardinality(S(n)) \in Nat
  BY <1>1, FS_Subset, FS_CardinalityType
<1>3. n + 1 \notin S(n)
  OBVIOUS
<1>4. contents[n + 1].kind = "newline" => S(n + 1) = S(n) \cup {n + 1}
  OBVIOUS
<1>5. contents[n + 1].kind # "newline" => S(n + 1) = S(n)
  OBVIOUS
<1>6. LineAt(contents, n) = 1 + Cardinality(S(n)) /\ LineAt(contents, n + 1) = 1 + Cardinality(S(n + 1))
  BY DEF LineAt
<1> HIDE DEF S
<1>7. Cardinality(S(n) \cup {n + 1}) = Cardinality(S(n)) + 1
  BY <1>2, <1>3, FS_AddElement
<1> QED
  BY <1>2, <1>4, <1>5, <1>6, <1>7

(* Every buffer knows its line, that of the last piece read from it; the     *)
(* buffers of the levels hold the files of the stack, and the outermost one  *)
(* what was to be read.                                                      *)
LinesCounted ==
  \A b \in 1 .. Len(buffers) : buffers[b].line = LineAt(buffers[b].contents, buffers[b].pos - 1)
FilesMatch ==
  status = "reading" =>
    /\ buffers[LevelBuffer(0)].contents = top.contents
    /\ \A i \in 1 .. Len(stack) :
         /\ stack[i].file \in DOMAIN Disk[top.dir]
         /\ buffers[LevelBuffer(i)].contents = Disk[top.dir][stack[i].file]
ErrorPlaced ==
  status = "idle" /\ config.error.type = "PARSE" =>
    LET contents == buffers[place.buffer].contents
    IN  config.error.line = LineAt(contents, place.pos) /\ HasText(config.error.file, contents)
PlaceInv == LinesCounted /\ FilesMatch /\ ErrorPlaced

LEMMA HasCurrentText ==
  ASSUME HeldInv, PlaceInv, status = "reading"
  PROVE  HasText(CurrentFile, Contents)
<1>1. Len(stack) \in Nat /\ FilesMatch /\ (stack = <<>> <=> Len(stack) = 0)
  BY PartsTyped DEF PlaceInv, HeldInv, TypeOK
<1>2. LevelBuffer(Len(stack)) = current
  BY DEF LevelBuffer
<1>3. CASE stack = <<>>
  BY <1>1, <1>2, <1>3 DEF FilesMatch, HasText, CurrentFile, Contents
<1>4. CASE stack # <<>>
  <2>1. Len(stack) \in 1 .. Len(stack) /\ CurrentFile = stack[Len(stack)].file
    BY <1>1, <1>4 DEF CurrentFile, Last
  <2> QED
    BY <1>1, <1>2, <2>1 DEF FilesMatch, HasText, Contents
<1> QED
  BY <1>3, <1>4

(* Where the piece before is, and after it. *)
LEMMA LineHere ==
  ASSUME HeldInv, PlaceInv, status = "reading"
  PROVE  /\ Pos - 1 \in Nat /\ buffers[current].line = LineAt(Contents, Pos - 1)
         /\ ~AtEnd /\ Piece.kind = "newline" => LineAt(Contents, Pos) = buffers[current].line + 1
         /\ ~AtEnd /\ Piece.kind # "newline" => LineAt(Contents, Pos) = buffers[current].line
<1>1. current \in 1 .. Len(buffers) /\ Pos \in Nat \ {0}
  BY HereTyped
<1>2. buffers[current].line = LineAt(Contents, Pos - 1)
  BY <1>1 DEF PlaceInv, LinesCounted, Contents, Pos
<1>3. Pos - 1 \in Nat /\ Pos - 1 + 1 = Pos
  BY <1>1
<1>4. /\ Contents[Pos - 1 + 1].kind = "newline" => LineAt(Contents, Pos - 1 + 1) = LineAt(Contents, Pos - 1) + 1
      /\ Contents[Pos - 1 + 1].kind # "newline" => LineAt(Contents, Pos - 1 + 1) = LineAt(Contents, Pos - 1)
  BY <1>3, LinesGoOn
<1> QED
  BY <1>2, <1>3, <1>4 DEF Piece

LEMMA MovedPlaced ==
  ASSUME HeldInv, PlaceInv, status = "reading", NEW n \in {1, 2}, NEW lines \in {0, 1}, Moved(n, lines),
         Pos + n <= Len(Contents) + 1, UNCHANGED <<status, current, stack, top>>,
         LineAt(Contents, Pos + n - 1) = buffers[current].line + lines
  PROVE  PlaceInv'
<1>1. current \in 1 .. Len(buffers) /\ Pos \in Nat \ {0} /\ n \in Nat /\ lines \in Nat
  BY HereTyped
<1>2. /\ Len(buffers') = Len(buffers)
      /\ \A b \in 1 .. Len(buffers) : /\ buffers'[b].contents = buffers[b].contents
                                      /\ b # current => buffers'[b] = buffers[b]
      /\ buffers'[current].pos = buffers[current].pos + n
      /\ buffers'[current].line = buffers[current].line + lines
  BY <1>1, MovedBuffers DEF Pos, Contents
<1>3. LinesCounted'
  <2> SUFFICES ASSUME NEW b \in 1 .. Len(buffers)
               PROVE  buffers'[b].line = LineAt(buffers'[b].contents, buffers'[b].pos - 1)
    BY <1>2 DEF LinesCounted
  <2>1. CASE b = current
    BY <1>1, <1>2, <2>1 DEF Pos, Contents
  <2>2. CASE b # current
    BY <1>2, <2>2 DEF PlaceInv, LinesCounted
  <2> QED
    BY <2>1, <2>2
<1>4. \A i \in 0 .. Len(stack) : LevelBuffer(i)' = LevelBuffer(i) /\ LevelBuffer(i) \in 1 .. Len(buffers)
  BY LevelsTyped DEF LevelBuffer
<1>5. FilesMatch'
  <2>1. Len(stack) \in Nat /\ stack' = stack /\ top' = top /\ FilesMatch
    BY PartsTyped DEF PlaceInv
  <2>2. 0 \in 0 .. Len(stack) /\ \A i \in 1 .. Len(stack) : i \in 0 .. Len(stack)
    BY <2>1
  <2>3. \A i \in 0 .. Len(stack) : buffers'[LevelBuffer(i)'].contents = buffers[LevelBuffer(i)].contents
    BY <1>2, <1>4
  <2> QED
    BY <2>1, <2>2, <2>3 DEF FilesMatch
<1> QED
  BY <1>3, <1>5 DEF PlaceInv, ErrorPlaced

LEMMA SkipPlaced ==
  ASSUME HeldInv, PlaceInv, status = "reading", ~AtEnd, NEW lines, NEW c, NEW t,
         lines = IF Piece.kind = "newline" THEN 1 ELSE 0, Skip(1, lines, c, t)
  PROVE  PlaceInv'
<1>1. Pos + 1 <= Len(Contents) + 1 /\ Pos \in Nat /\ Pos + 1 - 1 = Pos /\ buffers[current].line \in Nat
  BY HereTyped
<1>2. LineAt(Contents, Pos + 1 - 1) = buffers[current].line + lines
  BY <1>1, LineHere
<1>3. Moved(1, lines) /\ UNCHANGED <<status, current, stack, top>> /\ lines \in {0, 1}
  BY DEF Skip, Moved
<1> QED
  BY <1>1, <1>2, <1>3, MovedPlaced

LEMMA EndPlaced ==
  ASSUME HeldInv, PlaceInv, status = "reading", NEW ok \in BOOLEAN,
         NEW known \in {Nil, buffers[current].line}, End(ok, Here, known), top' = top,
         place'.buffer = current, LineAt(Contents, place'.pos) = buffers[current].line
  PROVE  PlaceInv'
<1> DEFINE e == Ending(ok, Here)
           err == [type |-> "PARSE", file |-> CurrentFile, line |-> buffers[current].line]
<1>1. /\ buffers' = Delete(e.deleted) /\ status' = "idle"
      /\ config' = IF ok THEN config
                   ELSE [config EXCEPT !.error = [type |-> "PARSE", file |-> CurrentFile,
                                                  line |-> IF known # Nil THEN known ELSE Here.line]]
  BY DEF End, Ending
<1> HIDE DEF e
<1>2. current \in 1 .. Len(buffers) /\ buffers[current].line \in Nat
  BY HereTyped
<1>3. buffers[current].line # Nil /\ Here.line = buffers[current].line
  BY <1>2, DiskAssumption DEF Here
<1>4. /\ Len(buffers') = Len(buffers)
      /\ \A b \in 1 .. Len(buffers) :
           /\ buffers'[b].contents = buffers[b].contents
           /\ buffers'[b].pos = buffers[b].pos /\ buffers'[b].line = buffers[b].line
  BY <1>1, FreedBuffers
<1>5. LinesCounted'
  BY <1>4 DEF PlaceInv, LinesCounted
<1>6. FilesMatch'
  BY <1>1 DEF FilesMatch
<1>7. ErrorPlaced'
  <2>1. CASE ok
    <3>1. config'.error.type = "NONE"
      BY <1>1, <2>1 DEF HeldInv, UnderWay, NoError
    <3> QED
      BY <3>1 DEF ErrorPlaced
  <2>2. CASE ~ok
    <3>1. config' = [config EXCEPT !.error = err]
      BY <1>1, <1>3, <2>2
    <3>2. config'.error = err
      <4> HIDE DEF err
      <4> QED
        BY <3>1 DEF HeldInv, TypeOK
    <3>3. buffers'[place'.buffer].contents = Contents
      BY <1>2, <1>4 DEF Contents
    <3>4. HasText(CurrentFile, Contents)
      BY HasCurrentText
    <3>5. config'.error.line = LineAt(Contents, place'.pos) /\ config'.error.file = CurrentFile
      BY <3>2
    <3>6. \/ CurrentFile = top'.name /\ Contents = top'.contents
          \/ CurrentFile \in DOMAIN Disk[top'.dir] /\ Contents = Disk[top'.dir][CurrentFile]
      BY <3>4 DEF HasText
    <3> DEFINE file == config'.error.file
               contents == buffers'[place'.buffer].contents
    <3>7. contents = Contents /\ file = CurrentFile
      BY <3>3, <3>5
    <3>8. \/ file = top'.name /\ contents = top'.contents
          \/ file \in DOMAIN Disk[top'.dir] /\ contents = Disk[top'.dir][file]
      <4> HIDE DEF file, contents
      <4> QED
        BY <3>6, <3>7
    <3> QED
      BY <3>5, <3>7, <3>8 DEF ErrorPlaced, HasText
  <2> QED
    BY <2>1, <2>2
<1> QED
  BY <1>5, <1>6, <1>7 DEF PlaceInv

LEMMA ReturnPlaced ==
  ASSUME HeldInv, PlaceInv, status = "reading", ~AtEnd, Piece.kind # "newline", NEW tok, NEW c, NEW t,
         Return(tok, c, t)
  PROVE  PlaceInv'
<1>1. /\ place' = [buffer |-> current, pos |-> Pos] /\ top' = top
      /\ Pos \in Nat /\ Pos + 1 - 1 = Pos /\ Pos + 1 <= Len(Contents) + 1
      /\ LineAt(Contents, Pos) = buffers[current].line /\ buffers[current].line \in Nat
  BY HereTyped, LineHere DEF Return
<1>2. CASE End(FALSE, Here, Nil)
  BY <1>1, <1>2, EndPlaced
<1>3. CASE Moved(1, 0) /\ UNCHANGED <<status, config, current, streams, stack, fault>>
  <2>1. 1 \in {1, 2} /\ 0 \in {0, 1} /\ LineAt(Contents, Pos + 1 - 1) = buffers[current].line + 0
    BY <1>1
  <2> QED
    BY <1>1, <1>3, <2>1, MovedPlaced
<1> QED
  BY <1>2, <1>3, OnePieceOn DEF Return

LEMMA RulesPlaced ==
  ASSUME HeldInv, PlaceInv, Initial \/ Comment \/ String \/ IncludePath
  PROVE  PlaceInv'
<1>1. status = "reading" /\ ~AtEnd
  BY DEF Initial, Comment, String, IncludePath, Scanning
<1>2. CASE Initial
  <2>1. \/ Piece.kind # "newline" /\ \E tok, c, t : Return(tok, c, t)
        \/ Piece.kind = "newline" /\ \E c, t : Skip(1, 1, c, t)
        \/ Piece.kind # "newline" /\ \E c, t : Skip(1, 0, c, t)
        \/ /\ Piece.kind = "include" /\ Pos < Len(Contents) /\ Contents[Pos + 1].kind = "quote"
           /\ Skip(2, 0, "INCLUDE", text)
    BY <1>2 DEF Initial
  <2>2. ASSUME Piece.kind = "include", Pos < Len(Contents), Contents[Pos + 1].kind = "quote",
               Skip(2, 0, "INCLUDE", text)
        PROVE  PlaceInv'
    <3>1. Pos \in Nat /\ Len(Contents) \in Nat /\ Pos + 2 <= Len(Contents) + 1 /\ Pos + 2 - 1 = Pos + 1
          /\ buffers[current].line \in Nat
      BY <1>1, <2>2, HereTyped
    <3>2. LineAt(Contents, Pos) = buffers[current].line
      BY <1>1, <2>2, LineHere
    <3>3. LineAt(Contents, Pos + 1) = LineAt(Contents, Pos)
      BY <2>2, <3>1, LinesGoOn
    <3>4. Moved(2, 0) /\ UNCHANGED <<status, current, stack, top>>
      BY <2>2 DEF Skip, Moved
    <3> QED
      BY <1>1, <3>1, <3>2, <3>3, <3>4, MovedPlaced
  <2> QED
    BY <1>1, <2>1, <2>2, ReturnPlaced, SkipPlaced
<1>3. CASE Comment
  <2>1. \E c, t : Skip(1, IF Piece.kind = "newline" THEN 1 ELSE 0, c, t)
    BY <1>3 DEF Comment
  <2> QED
    BY <1>1, <2>1, SkipPlaced
<1>4. CASE String
  <2>1. \/ Piece.kind # "newline" /\ \E tok, c, t : Return(tok, c, t)
        \/ \E c, t : Skip(1, IF Piece.kind = "newline" THEN 1 ELSE 0, c, t)
    BY <1>4 DEF String
  <2> QED
    BY <1>1, <2>1, ReturnPlaced, SkipPlaced
<1>5. CASE IncludePath
  <2>1. \E c, t : Skip(1, IF Piece.kind = "newline" THEN 1 ELSE 0, c, t)
    BY <1>5 DEF IncludePath
  <2> QED
    BY <1>1, <2>1, SkipPlaced
<1> QED
  BY <1>2, <1>3, <1>4, <1>5

LEMMA PushPlaced ==
  ASSUME HeldInv, PlaceInv, PushInclude
  PROVE  PlaceInv'
<1>1. status = "reading" /\ ~AtEnd /\ Piece.kind # "newline" /\ Scanning("INCLUDE") /\ FilesMatch
  BY DEF PushInclude, Scanning, PlaceInv
<1>2. CASE Len(stack) < MaxDepth /\ Found
  <2> DEFINE n == Len(stack)
             k == Len(buffers)
             file == Disk[config.includeDir][text[1].v]
  <2>1. Pushed
    BY <1>2 DEF PushInclude, Pushed
  <2>2. /\ text[1].v \in DOMAIN Disk[config.includeDir]
        /\ Len(stack') = n + 1 /\ \A i \in 1 .. n : stack'[i] = stack[i]
        /\ stack'[n + 1] = [stream |-> Len(streams) + 1, file |-> text[1].v, buffer |-> current]
        /\ Len(buffers') = k + 1 /\ current' = k + 1
        /\ \A b \in 1 .. k : /\ buffers'[b].contents = buffers[b].contents
                             /\ b # current => buffers'[b] = buffers[b]
        /\ buffers'[current].pos = buffers[current].pos + 1
        /\ buffers'[k + 1] = NewBuffer(file)
    BY <1>1, <1>2, <2>1, PushedState
  <2>3. /\ n \in Nat /\ k \in Nat /\ current \in 1 .. k /\ Pos \in Nat \ {0} /\ buffers[current] \in Buffers
        /\ top' = top /\ status' = "reading" /\ config.includeDir = top.dir
    BY <1>1, <2>1, HereTyped, PartsTyped DEF Pushed, HeldInv, UnderWay
  <2>4. stack'[n + 1].file = text[1].v /\ stack'[n + 1].buffer = current
    BY <2>2
  <2>5. buffers'[k + 1].contents = file /\ buffers'[k + 1].pos = 1 /\ buffers'[k + 1].line = 1
    <3> HIDE DEF file
    <3> QED
      BY <2>2 DEF NewBuffer
  <2>6. buffers'[current].line = buffers[current].line
    <3>1. buffers' = Append([buffers EXCEPT ![current] = MovedOn(buffers[current], 1, 0)], NewBuffer(file))
      BY <1>1, <2>1, OnePieceOn DEF Pushed
    <3> DEFINE moved == MovedOn(buffers[current], 1, 0)
    <3>2. moved \in Buffers /\ moved.line = buffers[current].line
      <4>1. /\ buffers[current].line \in Nat /\ buffers[current].line + 0 = buffers[current].line
            /\ 0 \in Nat /\ 1 \in Nat
        BY <2>3 DEF Buffers
      <4> QED
        BY <2>3, <4>1, BufferMoves
    <3> HIDE DEF moved
    <3>3. buffers'[current] = moved
      <4>1. buffers \in Seq(Buffers) /\ buffers' = Append([buffers EXCEPT ![current] = moved], NewBuffer(file))
        BY <3>1 DEF HeldInv, TypeOK, moved
      <4> DEFINE here == [buffers EXCEPT ![current] = moved]
      <4>2. here \in Seq(Buffers) /\ Len(here) = k /\ here[current] = moved
        BY <2>3, <3>2, <4>1
      <4> HIDE DEF here
      <4>3. buffers' = Append(here, NewBuffer(file))
        BY <4>1 DEF here
      <4> QED
        BY <2>3, <4>2, <4>3
    <3> QED
      BY <3>2, <3>3
  <2>7. LinesCounted'
    <3> SUFFICES ASSUME NEW b \in 1 .. k + 1
                 PROVE  buffers'[b].line = LineAt(buffers'[b].contents, buffers'[b].pos - 1)
      BY <2>2 DEF LinesCounted
    <3>1. CASE b = k + 1
      BY <2>5, <3>1, LinesStart
    <3>2. CASE b = current
      <4>1. buffers'[b].pos - 1 = Pos /\ buffers'[b].contents = Contents
        BY <2>2, <2>3, <3>2 DEF Pos, Contents
      <4> QED
        BY <1>1, <2>6, <3>2, <4>1, LineHere
    <3>3. CASE b \in 1 .. k /\ b # current
      BY <2>2, <3>3 DEF PlaceInv, LinesCounted
    <3> QED
      BY <2>3, <3>1, <3>2, <3>3
  <2>8. ASSUME NEW i \in 0 .. n
        PROVE  LevelBuffer(i)' = LevelBuffer(i) /\ LevelBuffer(i) \in 1 .. k
    <3>1. i # n + 1 /\ LevelBuffer(i) = IF i = n THEN current ELSE stack[i + 1].buffer
      BY <2>3 DEF LevelBuffer
    <3>2. LevelBuffer(i)' = stack'[i + 1].buffer
      BY <2>2, <3>1 DEF LevelBuffer
    <3>3. LevelBuffer(i) \in 1 .. k
      BY <1>1, LevelsTyped
    <3>4. CASE i = n
      BY <2>4, <3>1, <3>2, <3>3, <3>4
    <3>5. CASE i # n
      <4>1. i + 1 \in 1 .. n
        BY <2>3, <3>5
      <4> QED
        BY <2>2, <3>1, <3>2, <3>3, <3>5, <4>1
    <3> QED
      BY <3>4, <3>5
  <2>9. ASSUME NEW i \in 1 .. n + 1, i = n + 1
        PROVE  LevelBuffer(i)' = k + 1
    BY <2>2, <2>9 DEF LevelBuffer
  <2>10. FilesMatch'
    <3>1. buffers'[LevelBuffer(0)'].contents = top.contents
      BY <1>1, <2>2, <2>3, <2>8 DEF FilesMatch
    <3>2. ASSUME NEW i \in 1 .. n + 1
          PROVE  /\ stack'[i].file \in DOMAIN Disk[top.dir]
                 /\ buffers'[LevelBuffer(i)'].contents = Disk[top.dir][stack'[i].file]
      <4>1. CASE i = n + 1
        <5>1. LevelBuffer(i)' = k + 1 /\ stack'[i].file = text[1].v
          BY <2>4, <2>9, <4>1
        <5> QED
          BY <2>2, <2>3, <2>5, <5>1
      <4>2. CASE i \in 1 .. n
        BY <1>1, <2>2, <2>3, <2>8, <4>2 DEF FilesMatch
      <4> QED
        BY <2>3, <4>1, <4>2
    <3> QED
      BY <2>2, <2>3, <3>1, <3>2 DEF FilesMatch
  <2> QED
    BY <2>3, <2>7, <2>10 DEF PlaceInv, ErrorPlaced
<1>3. CASE ~(Len(stack) < MaxDepth /\ Found) /\ Len(stack) < MaxDepth /\ IsDirectory
  BY <1>3 DEF PushInclude, PlaceInv, LinesCounted, FilesMatch, ErrorPlaced
<1>4. CASE ~(Len(stack) < MaxDepth /\ Found) /\ ~(Len(stack) < MaxDepth /\ IsDirectory)
  <2>1. /\ place' = [buffer |-> current, pos |-> Pos] /\ top' = top
        /\ End(FALSE, Here, buffers[current].line)
    BY <1>4 DEF PushInclude
  <2>2. LineAt(Contents, Pos) = buffers[current].line
    BY <1>1, LineHere
  <2> QED
    BY <1>1, <2>1, <2>2, EndPlaced
<1> QED
  BY <1>2, <1>3, <1>4

LEMMA EndOfFilePlaced ==
  ASSUME HeldInv, PlaceInv, EndOfFile
  PROVE  PlaceInv'
<1>1. status = "reading" /\ top' = top /\ FilesMatch
  BY DEF EndOfFile, PlaceInv
<1>2. CASE stack # <<>>
  <2> DEFINE n == Len(stack)
             k == Len(buffers)
  <2>1. Popped
    BY <1>2 DEF EndOfFile, Popped
  <2>2. /\ n \in Nat \ {0} /\ Len(stack') = n - 1 /\ \A i \in 1 .. n - 1 : i \in 1 .. n /\ stack'[i] = stack[i]
        /\ current' = stack[n].buffer
        /\ Len(buffers') = k
        /\ \A b \in 1 .. k : /\ buffers'[b].contents = buffers[b].contents
                             /\ buffers'[b].pos = buffers[b].pos /\ buffers'[b].line = buffers[b].line
    BY <1>1, <1>2, <2>1, PoppedState
  <2>3. LinesCounted'
    BY <2>2 DEF PlaceInv, LinesCounted
  <2>4. ASSUME NEW i \in 0 .. n - 1
        PROVE  LevelBuffer(i)' = LevelBuffer(i) /\ LevelBuffer(i) \in 1 .. k
    <3>1. i \in 0 .. n /\ i # n /\ LevelBuffer(i) = stack[i + 1].buffer
      BY <2>2 DEF LevelBuffer
    <3>2. LevelBuffer(i)' = IF i = n - 1 THEN current' ELSE stack'[i + 1].buffer
      BY <2>2 DEF LevelBuffer
    <3>3. CASE i = n - 1
      <4>1. i + 1 = n
        BY <2>2, <3>3
      <4> QED
        BY <1>1, <2>2, <3>1, <3>2, <3>3, <4>1, LevelsTyped
    <3>4. CASE i # n - 1
      <4>1. i + 1 \in 1 .. n - 1
        BY <2>2, <3>4
      <4> QED
        BY <1>1, <2>2, <3>1, <3>2, <3>4, <4>1, LevelsTyped
    <3> QED
      BY <3>3, <3>4
  <2>5. FilesMatch'
    <3>1. 0 \in 0 .. n - 1 /\ \A i \in 1 .. n - 1 : i \in 0 .. n - 1
      BY <2>2
    <3>2. \A i \in 0 .. n - 1 : buffers'[LevelBuffer(i)'].contents = buffers[LevelBuffer(i)].contents
      BY <2>2, <2>4
    <3> QED
      BY <1>1, <2>2, <3>1, <3>2 DEF FilesMatch
  <2>6. ErrorPlaced'
    BY <1>1, <2>1 DEF Popped, ErrorPlaced
  <2> QED
    BY <2>3, <2>5, <2>6 DEF PlaceInv
<1>3. CASE stack = <<>>
  <2>1. PICK ok \in BOOLEAN : End(ok, Here, Nil)
    BY <1>3 DEF EndOfFile
  <2>2. place' = [buffer |-> current, pos |-> Pos - 1]
    BY <1>3 DEF EndOfFile
  <2>3. LineAt(Contents, Pos - 1) = buffers[current].line
    BY <1>1, LineHere
  <2> QED
    BY <1>1, <2>1, <2>2, <2>3, EndPlaced
<1> QED
  BY <1>2, <1>3

LEMMA BeginPlaced ==
  ASSUME NEW stream, NEW name, NEW contents, Begin(stream, name, contents)
  PROVE  PlaceInv'
<1>1. /\ buffers' = <<NewBuffer(contents)>> /\ Len(buffers') = 1 /\ current' = 1
      /\ stack' = <<>> /\ Len(stack') = 0 /\ status' = "reading" /\ top'.contents = contents
  BY DEF Begin
<1>2. buffers'[1].contents = contents /\ buffers'[1].pos - 1 = 0 /\ buffers'[1].line = 1
  BY <1>1 DEF NewBuffer
<1>3. LinesCounted'
  BY <1>1, <1>2, LinesStart DEF LinesCounted
<1>4. FilesMatch'
  BY <1>1, <1>2 DEF FilesMatch, LevelBuffer
<1> QED
  BY <1>1, <1>3, <1>4 DEF PlaceInv, ErrorPlaced

LEMMA ReadsPlaced ==
  ASSUME HeldInv, PlaceInv, config_read_string \/ config_read_file \/ SetIncludeDir
  PROVE  PlaceInv'
<1>1. CASE config_read_string
  BY <1>1, BeginPlaced DEF config_read_string
<1>2. CASE config_read_file
  <2>1. PICK f \in TopNames :
          IF f \in DOMAIN Disk["."] THEN Begin(1, f, Disk["."][f])
          ELSE /\ UNCHANGED <<buffers, current, stack, start, text, tokens, place>>
               /\ top' = [top EXCEPT !.stream = Nil, !.name = f, !.contents = <<>>]
               /\ IF f \in Directories
                  THEN /\ streams' = <<"closed">>
                       /\ config' = [config EXCEPT !.error = [@ EXCEPT !.type = "FILE_IO"]]
                       /\ UNCHANGED status
                  ELSE status' = "crashed" /\ UNCHANGED <<streams, config>>
    BY <1>2 DEF config_read_file
  <2>2. status = "idle"
    BY <1>2 DEF config_read_file, Reading
  <2>3. CASE f \in DOMAIN Disk["."]
    BY <2>1, <2>3, BeginPlaced
  <2>4. CASE f \notin DOMAIN Disk["."]
    <3>1. buffers' = buffers /\ status' # "reading"
      BY <2>1, <2>2, <2>4
    <3>2. status' = "idle" => config'.error.type = "FILE_IO"
      <4>1. CASE f \in Directories
        <5> DEFINE err == [config.error EXCEPT !.type = "FILE_IO"]
        <5>1. config.error \in Errors
          BY DEF HeldInv, TypeOK
        <5>2. err.type = "FILE_IO"
          BY <5>1 DEF Errors
        <5>3. config' = [config EXCEPT !.error = err]
          BY <2>1, <2>4, <4>1
        <5> HIDE DEF err
        <5> QED
          BY <5>2, <5>3 DEF HeldInv, TypeOK
      <4> QED
        BY <2>1, <2>4, <4>1
    <3> QED
      BY <3>1, <3>2 DEF PlaceInv, LinesCounted, FilesMatch, ErrorPlaced
  <2> QED
    BY <2>3, <2>4
<1>3. CASE SetIncludeDir
  <2>1. PICK d \in DOMAIN Disk \ {"."} : config' = [config EXCEPT !.includeDir = d]
    BY <1>3 DEF SetIncludeDir
  <2>2. config'.error = config.error
    BY <2>1 DEF HeldInv, TypeOK
  <2>3. status = "idle" /\ UNCHANGED <<status, buffers, place, top>>
    BY <1>3 DEF SetIncludeDir
  <2>4. ErrorPlaced'
    BY <2>2, <2>3 DEF PlaceInv, ErrorPlaced, HasText
  <2> QED
    BY <2>3, <2>4 DEF PlaceInv, LinesCounted, FilesMatch
<1> QED
  BY <1>1, <1>2, <1>3

LEMMA InitPlaced == Init => PlaceInv
<1> QED
  BY DEF Init, NoError, PlaceInv, LinesCounted, FilesMatch, ErrorPlaced

LEMMA NextPlaced == HeldInv /\ PlaceInv /\ [Next]_vars => PlaceInv'
<1> SUFFICES ASSUME HeldInv, PlaceInv, [Next]_vars PROVE PlaceInv'
  OBVIOUS
<1>1. CASE config_read_string \/ config_read_file \/ SetIncludeDir
  BY <1>1, ReadsPlaced
<1>2. CASE Initial \/ Comment \/ String \/ IncludePath
  BY <1>2, RulesPlaced
<1>3. CASE PushInclude
  BY <1>3, PushPlaced
<1>4. CASE EndOfFile
  BY <1>4, EndOfFilePlaced
<1>5. CASE UNCHANGED vars
  BY <1>5 DEF vars, PlaceInv, LinesCounted, FilesMatch, LevelBuffer, ErrorPlaced, HasText
<1> QED
  BY <1>1, <1>2, <1>3, <1>4, <1>5 DEF Next

(* However deep the includes, a failed read reports the line of the piece    *)
(* that ended the token, counted from the beginning of the text it stands    *)
(* in, and a file that has this text; a read that is under way starts        *)
(* without the error of an earlier one and keeps every name of a file once   *)
(* (libconfig.c:563-604, grammar.c:114-120, scanner.c:1067-1090,             *)
(* scanctx.c:165-168).                                                       *)
THEOREM ErrorsInPlace == Spec => []ErrorIsInPlace
<1>1. HeldInv /\ PlaceInv => ErrorIsInPlace
  BY DEF HeldInv, UnderWay, PlaceInv, ErrorPlaced, ErrorIsInPlace
<1>2. Spec => []PlaceInv
  BY InitPlaced, NextPlaced, InvariantHeldInv, PTL DEF Spec
<1> QED
  BY <1>1, <1>2, InvariantHeldInv, PTL
=============================================================================
