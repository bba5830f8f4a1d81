---------------------------- MODULE SerLinkProofs ----------------------------
(***************************************************************************)
(* The hand-over of replies between the two threads of the sender, and what *)
(* the sender has in the end, for any commands and any number of them.  That *)
(* no two threads ever have the same buffer follows from when they run, as   *)
(* long as replies come one at a time (OneReplyAtATime); and on a line that  *)
(* is in step they do, as one frame at most is on it, first the command and  *)
(* then its answer.                                                          *)
(***************************************************************************)
EXTENDS SerLink, FiniteSetTheorems, SequenceTheorems, TLAPS

(* The reply in replied_pkt has not been freed or given to the caller. *)
InMailbox == rpc = "tell" \/ replied \/ spc \in {"clear", "dump", "free"}

ReadersBuffer == IF buf = None THEN {} ELSE {buf}
MailboxBuffer == IF InMailbox THEN {replied_pkt} ELSE {}
CallersBuffer == IF got = None THEN {} ELSE {got}

(* The buffers in use are those of the three, each another one. *)
OwnedApart ==
  /\ DOMAIN bufs = ReadersBuffer \cup MailboxBuffer \cup CallersBuffer
  /\ None \notin DOMAIN bufs
  /\ buf # None => buf # got /\ (InMailbox => buf # replied_pkt)
  /\ got # None => (InMailbox => got # replied_pkt)

(* Where the two threads are when they have a buffer. *)
ThreadsAgree ==
  /\ spc \in {"idle", "wait", "clear", "dump", "free", "keep"} /\ rpc \in {"read", "tell"}
  /\ replied \in BOOLEAN /\ (replied => spc \in {"wait", "clear"})
  /\ HasBuffer(parse) <=> buf # None
  /\ rpc = "tell" => buf = None
  /\ got # None <=> spc = "keep"

ParseOK == parse = [i |-> parse.i, len |-> parse.len, got |-> parse.got] /\ parse.i \in Nat

HandInv ==
  /\ restarts \in Nat /\ ParseOK
  /\ restarts = 0 => ~freed /\ ThreadsAgree /\ OwnedApart

-----------------------------------------------------------------------------
(* ser_cmd_rcv has memory for a frame from its length on, to its end. *)
LEMMA FeedKeeps ==
  ASSUME ParseOK, NEW ch, NEW memory, NEW p, p = Feed(parse, ch, memory)
  PROVE  /\ p = [i |-> p.i, len |-> p.len, got |-> p.got] /\ p.i \in Nat
         /\ HasBuffer(parse) => HasBuffer(p)
         /\ Complete(p) => HasBuffer(parse)
<1>1. CASE parse.i <= 1 /\ ch = MacHead[parse.i + 1]
  <2>1. p = [parse EXCEPT !.i = @ + 1, !.got = Append(@, ch)]
    BY <1>1 DEF Feed
  <2>2. p = [i |-> parse.i + 1, len |-> parse.len, got |-> Append(parse.got, ch)]
    BY <2>1 DEF ParseOK
  <2> QED
    BY <1>1, <2>2 DEF ParseOK, HasBuffer, Complete
<1>2. CASE p = Unsynced /\ parse.i <= 2
  BY <1>2 DEF ParseOK, HasBuffer, Complete, Unsynced
<1>3. CASE parse.i = 2 /\ ~(ch < HdrLen \/ ~memory)
  <2>1. p = [i |-> 3, len |-> ch, got |-> Append(parse.got, ch)]
    BY <1>3 DEF Feed
  <2>2. ~(3 = ch)
    BY <1>3 DEF HdrLen
  <2> QED
    BY <1>3, <2>1, <2>2 DEF ParseOK, HasBuffer, Complete
<1>4. CASE parse.i >= 3
  <2>1. p = [parse EXCEPT !.i = @ + 1, !.got = Append(@, ch)]
    BY <1>4 DEF Feed, ParseOK
  <2>2. p = [i |-> parse.i + 1, len |-> parse.len, got |-> Append(parse.got, ch)]
    BY <2>1 DEF ParseOK
  <2> QED
    BY <1>4, <2>2 DEF ParseOK, HasBuffer, Complete
<1>5. /\ parse.i <= 1 \/ parse.i = 2 \/ parse.i >= 3
      /\ parse.i <= 1 \/ parse.i = 2 => parse.i <= 2
  BY DEF ParseOK
<1>6. parse.i <= 1 /\ ch # MacHead[parse.i + 1] => p = Unsynced
  BY DEF Feed
<1>7. parse.i = 2 /\ (ch < HdrLen \/ ~memory) => p = Unsynced
  <2>1. parse.i = 2 => ~(parse.i <= 1)
    OBVIOUS
  <2> QED
    BY <2>1 DEF Feed
<1> QED
  BY <1>1, <1>2, <1>3, <1>4, <1>5, <1>6, <1>7

(* malloc gives memory that is not in use. *)
LEMMA FreshIsFree ==
  ASSUME OwnedApart
  PROVE  FreshBuffer \notin DOMAIN bufs /\ FreshBuffer # None
<1>1. IsFiniteSet(DOMAIN bufs)
  <2>1. \A x : IsFiniteSet({x}) /\ IsFiniteSet({})
    BY FS_Singleton, FS_EmptySet
  <2>2. IsFiniteSet(ReadersBuffer) /\ IsFiniteSet(MailboxBuffer) /\ IsFiniteSet(CallersBuffer)
    BY <2>1 DEF ReadersBuffer, MailboxBuffer, CallersBuffer
  <2> QED
    BY <2>2, FS_Union DEF OwnedApart
<1>2. PICK n \in Nat : n = Cardinality(DOMAIN bufs)
  BY <1>1, FS_CardinalityType
<1>3. ~(1 .. n + 1 \subseteq DOMAIN bufs)
  <2> SUFFICES ASSUME 1 .. n + 1 \subseteq DOMAIN bufs PROVE FALSE
    OBVIOUS
  <2>1. Cardinality(1 .. n + 1) <= n
    BY <1>1, <1>2, FS_Subset
  <2>2. Cardinality(1 .. n + 1) = n + 1
    <3>1. 1 \in Int /\ n + 1 \in Int /\ 1 <= n + 1
      OBVIOUS
    <3>2. Cardinality(1 .. n + 1) = (n + 1) - 1 + 1
      BY <3>1, FS_Interval
    <3> QED
      BY <3>2
  <2> QED
    BY <2>1, <2>2
<1>4. FreshBuffer \in 1 .. n + 1 /\ FreshBuffer \notin DOMAIN bufs
  BY <1>2, <1>3 DEF FreshBuffer
<1> QED
  BY <1>4 DEF None

-----------------------------------------------------------------------------
LEMMA InitHand == Init => HandInv
<1> SUFFICES ASSUME Init PROVE HandInv
  OBVIOUS
<1>1. ParseOK /\ ~HasBuffer(parse)
  BY DEF Init, Unsynced, ParseOK, HasBuffer
<1>2. DOMAIN bufs = {}
  BY DEF Init
<1>3. OwnedApart
  BY <1>2 DEF Init, OwnedApart, InMailbox, ReadersBuffer, MailboxBuffer, CallersBuffer
<1>4. ThreadsAgree
  BY <1>1 DEF Init, ThreadsAgree
<1> QED
  BY <1>1, <1>3, <1>4 DEF Init, HandInv

(* Steps of the line, the receiver and the call that sends a command leave *)
(* the buffers alone.                                                      *)
HandVars == <<rpc, parse, buf, replied_pkt, got, replied, bufs, freed>>

LEMMA QuietKeeps ==
  ASSUME HandInv, UNCHANGED HandVars, restarts' = restarts,
         spc' = spc \/ (spc = "idle" /\ spc' = "wait")
  PROVE  HandInv'
<1>1. /\ rpc' = rpc /\ parse' = parse /\ buf' = buf /\ replied_pkt' = replied_pkt
      /\ got' = got /\ replied' = replied /\ bufs' = bufs /\ freed' = freed
  BY DEF HandVars
<1>2. restarts' \in Nat /\ ParseOK'
  BY <1>1 DEF HandInv, ParseOK
<1>3. InMailbox' <=> InMailbox
  BY <1>1 DEF InMailbox
<1>4. OwnedApart => OwnedApart'
  BY <1>1, <1>3 DEF OwnedApart, ReadersBuffer, MailboxBuffer, CallersBuffer
<1>5. ThreadsAgree => ThreadsAgree'
  BY <1>1 DEF ThreadsAgree, HasBuffer
<1> QED
  BY <1>1, <1>2, <1>4, <1>5 DEF HandInv

LEMMA SenderKeeps ==
  ASSUME HandInv, OneReplyAtATime, Sender
  PROVE  HandInv'
<1> USE DEF None, InMailbox, ReadersBuffer, MailboxBuffer, CallersBuffer
<1>1. /\ restarts' = restarts /\ UNCHANGED <<rpc, parse, buf, replied_pkt>>
  BY DEF Sender, SeeReplied, ClearReplied, DumpReply, FreeReply, KeepReply, CallerFrees, readerVars, bounds
<1>2. restarts' \in Nat /\ ParseOK'
  BY <1>1 DEF HandInv, ParseOK
<1> SUFFICES ASSUME restarts = 0 PROVE ~freed' /\ ThreadsAgree' /\ OwnedApart'
  BY <1>1, <1>2 DEF HandInv
<1>3. ~freed /\ ThreadsAgree /\ OwnedApart
  BY DEF HandInv
<1>4. CASE SeeReplied
  BY <1>1, <1>3, <1>4 DEF SeeReplied, ThreadsAgree, OwnedApart, HasBuffer, OneReplyAtATime
<1>9. CASE ClearReplied
  BY <1>1, <1>3, <1>9 DEF ClearReplied, ThreadsAgree, OwnedApart, HasBuffer, OneReplyAtATime
<1>5. CASE DumpReply
  BY <1>1, <1>3, <1>5 DEF DumpReply, ThreadsAgree, OwnedApart, HasBuffer, OneReplyAtATime
<1>6. CASE FreeReply
  BY <1>1, <1>3, <1>6 DEF FreeReply, Without, ThreadsAgree, OwnedApart, HasBuffer, OneReplyAtATime
<1>7. CASE KeepReply
  BY <1>1, <1>3, <1>7 DEF KeepReply, ThreadsAgree, OwnedApart, HasBuffer, OneReplyAtATime
<1>8. CASE CallerFrees
  BY <1>1, <1>3, <1>8 DEF CallerFrees, Without, ThreadsAgree, OwnedApart, HasBuffer, OneReplyAtATime
<1> QED
  BY <1>4, <1>5, <1>6, <1>7, <1>8, <1>9 DEF Sender

-----------------------------------------------------------------------------
(* The reading thread. *)
LEMMA ReadsKeep ==
  ASSUME HandInv, NEW memory \in BOOLEAN, ReaderReads(memory)
  PROVE  HandInv'
<1> DEFINE p == Feed(parse, Head(toSender), memory)
<1>1. /\ rpc = "read" /\ rpc' = rpc /\ parse' = p /\ freed' = freed /\ restarts' = restarts
      /\ spc' = spc /\ got' = got /\ replied' = replied /\ replied_pkt' = replied_pkt
  BY DEF ReaderReads, senderVars
<1>2. ParseOK
  BY DEF HandInv
<1>3. ParseOK' /\ (HasBuffer(parse) => HasBuffer(p))
  BY <1>1, <1>2, FeedKeeps DEF ParseOK
<1> SUFFICES ASSUME restarts = 0 PROVE ThreadsAgree' /\ OwnedApart'
  BY <1>1, <1>3 DEF HandInv
<1>4. ThreadsAgree /\ OwnedApart
  BY DEF HandInv
<1>5. CASE HasBuffer(p) /\ ~HasBuffer(parse)
  <2>1. buf' = FreshBuffer /\ DOMAIN bufs' = {FreshBuffer} \cup DOMAIN bufs
    BY <1>5 DEF ReaderReads, With
  <2>2. FreshBuffer \notin DOMAIN bufs /\ FreshBuffer # None
    BY <1>4, FreshIsFree
  <2>3. buf = None
    BY <1>4, <1>5 DEF ThreadsAgree
  <2>4. ThreadsAgree'
    BY <1>1, <1>4, <1>5, <2>1, <2>2 DEF ThreadsAgree
  <2>5. InMailbox' <=> InMailbox
    BY <1>1 DEF InMailbox
  <2>6. OwnedApart'
    BY <1>1, <1>4, <2>1, <2>2, <2>3, <2>5 DEF OwnedApart, ReadersBuffer, MailboxBuffer, CallersBuffer
  <2> QED
    BY <2>4, <2>6
<1>6. CASE ~(HasBuffer(p) /\ ~HasBuffer(parse))
  <2>1. buf' = buf /\ bufs' = bufs
    BY <1>6 DEF ReaderReads
  <2>2. HasBuffer(parse) <=> HasBuffer(p)
    BY <1>3, <1>6
  <2>3. ThreadsAgree'
    BY <1>1, <1>4, <2>1, <2>2 DEF ThreadsAgree
  <2>4. InMailbox' <=> InMailbox
    BY <1>1 DEF InMailbox
  <2>5. OwnedApart'
    BY <1>1, <1>4, <2>1, <2>4 DEF OwnedApart, ReadersBuffer, MailboxBuffer, CallersBuffer
  <2> QED
    BY <2>3, <2>5
<1> QED
  BY <1>5, <1>6

(* A whole frame: a reply goes into the mailbox, which OneReplyAtATime says *)
(* is empty.                                                                *)
LEMMA EndsKeep ==
  ASSUME HandInv, OneReplyAtATime', ReaderEnds
  PROVE  HandInv'
<1> DEFINE p == Feed(parse, Head(toSender), TRUE)
           reply == IsAnswer(p)
<1>1. /\ rpc = "read" /\ parse' = Unsynced /\ buf' = None /\ Complete(p)
      /\ freed' = freed /\ restarts' = restarts
      /\ spc' = spc /\ got' = got /\ replied' = replied
  BY DEF ReaderEnds, senderVars
<1>2. ParseOK' /\ ~HasBuffer(parse')
  BY <1>1 DEF ParseOK, Unsynced, HasBuffer
<1>3. HasBuffer(parse)
  BY <1>1, FeedKeeps DEF HandInv
<1> SUFFICES ASSUME restarts = 0 PROVE ThreadsAgree' /\ OwnedApart'
  BY <1>1, <1>2 DEF HandInv
<1>4. ThreadsAgree /\ OwnedApart /\ buf # None
  BY <1>3 DEF HandInv, ThreadsAgree
<1>5. CASE reply
  <2>1. bufs' = [bufs EXCEPT ![buf] = p.got] /\ replied_pkt' = buf /\ rpc' = "tell"
    BY <1>5 DEF ReaderEnds
  <2>2. DOMAIN bufs' = DOMAIN bufs
    BY <2>1
  <2>3. spc = "wait" /\ ~replied
    BY <1>1, <2>1 DEF OneReplyAtATime
  <2>4. ~InMailbox /\ InMailbox'
    BY <1>1, <2>1, <2>3 DEF InMailbox
  <2>5. ThreadsAgree'
    BY <1>1, <1>2, <1>4, <2>1 DEF ThreadsAgree
  <2>6. OwnedApart'
    BY <1>1, <1>4, <2>1, <2>2, <2>4 DEF OwnedApart, ReadersBuffer, MailboxBuffer, CallersBuffer
  <2> QED
    BY <2>5, <2>6
<1>6. CASE ~reply
  <2>1. bufs' = Without(buf) /\ replied_pkt' = replied_pkt /\ rpc' = rpc
    BY <1>6 DEF ReaderEnds
  <2>2. DOMAIN bufs' = DOMAIN bufs \ {buf}
    BY <2>1 DEF Without
  <2>3. ThreadsAgree'
    BY <1>1, <1>2, <1>4, <2>1 DEF ThreadsAgree
  <2>4. InMailbox' <=> InMailbox
    BY <1>1, <2>1 DEF InMailbox
  <2>5. OwnedApart'
    BY <1>1, <1>4, <2>1, <2>2, <2>4 DEF OwnedApart, ReadersBuffer, MailboxBuffer, CallersBuffer
  <2> QED
    BY <2>3, <2>5
<1> QED
  BY <1>5, <1>6

LEMMA TellsKeep ==
  ASSUME HandInv, OneReplyAtATime, ReaderTells
  PROVE  HandInv'
<1>1. /\ rpc = "tell" /\ rpc' = "read" /\ replied' = TRUE /\ parse' = parse /\ buf' = buf
      /\ replied_pkt' = replied_pkt /\ bufs' = bufs /\ freed' = freed /\ restarts' = restarts
      /\ spc' = spc /\ got' = got
  BY DEF ReaderTells, senderVars, bounds
<1>2. restarts' \in Nat /\ ParseOK'
  BY <1>1 DEF HandInv, ParseOK
<1>3. InMailbox /\ InMailbox'
  BY <1>1 DEF InMailbox
<1>4. OwnedApart => OwnedApart'
  BY <1>1, <1>3 DEF OwnedApart, ReadersBuffer, MailboxBuffer, CallersBuffer
<1>5. restarts = 0 /\ ThreadsAgree => ThreadsAgree'
  BY <1>1 DEF ThreadsAgree, HasBuffer, OneReplyAtATime
<1> QED
  BY <1>1, <1>2, <1>4, <1>5 DEF HandInv

-----------------------------------------------------------------------------
LEMMA NextHand == HandInv /\ OneReplyAtATime /\ OneReplyAtATime' /\ [Next]_vars => HandInv'
<1> SUFFICES ASSUME HandInv, OneReplyAtATime, OneReplyAtATime', [Next]_vars PROVE HandInv'
  OBVIOUS
<1>1. CASE UNCHANGED vars
  BY <1>1, QuietKeeps DEF vars, HandVars, senderVars, readerVars, bounds
<1>2. ASSUME NEW c \in Commands, NEW written, Send(c[1], c[2], c[3], written)
      PROVE  HandInv'
  BY <1>2, QuietKeeps DEF Send, HandVars, readerVars
<1>3. ASSUME Reader PROVE HandInv'
  BY <1>3, ReadsKeep, EndsKeep, TellsKeep DEF Reader
<1>4. ASSUME Device PROVE HandInv'
  BY <1>4, QuietKeeps DEF Device, DeviceReads, DeviceAnswers, HandVars, senderVars, readerVars
<1>5. CASE LoseByte \/ ChangeByte
  BY <1>5, QuietKeeps DEF LoseByte, ChangeByte, HandVars, senderVars, readerVars
<1>6. CASE Restart
  <2>1. restarts' = restarts + 1 /\ restarts' \in Nat /\ restarts' # 0
    BY <1>6 DEF Restart, HandInv
  <2>2. ParseOK'
    BY <1>6 DEF Restart, ParseOK, Unsynced
  <2> QED
    BY <2>1, <2>2 DEF HandInv
<1> QED
  BY <1>1, <1>2, <1>3, <1>4, <1>5, <1>6, SenderKeeps DEF Next

(* Three places, none of which has the buffer of another. *)
LEMMA OneOwner ==
  ASSUME ThreadsAgree, OwnedApart, OneReplyAtATime, restarts = 0, NEW b \in DOMAIN bufs
  PROVE  Cardinality(Owners(b)) = 1
<1> DEFINE inMailbox == replied_pkt = b /\ (rpc = "tell" \/ replied \/ spc \in {"clear", "dump", "free"})
<1>1. /\ "reader" \in Owners(b) <=> buf = b
      /\ "mailbox" \in Owners(b) <=> inMailbox
      /\ "caller" \in Owners(b) <=> got = b
      /\ Owners(b) \subseteq {"reader", "mailbox", "caller"}
  BY DEF Owners
<1>2. b # None
  BY DEF OwnedApart
<1>3. buf = b \/ inMailbox \/ got = b
  BY DEF OwnedApart, ReadersBuffer, MailboxBuffer, CallersBuffer, InMailbox
<1>4. /\ buf = b => ~inMailbox /\ got # b
      /\ got = b => ~inMailbox
  BY <1>2 DEF OwnedApart, InMailbox
<1>5. PICK o \in {"reader", "mailbox", "caller"} : Owners(b) = {o}
  <2>1. CASE buf = b
    BY <1>1, <1>4, <2>1
  <2>2. CASE inMailbox
    BY <1>1, <1>4, <2>2
  <2>3. CASE got = b
    BY <1>1, <1>4, <2>3
  <2> QED
    BY <1>3, <2>1, <2>2, <2>3
<1> QED
  BY <1>5, FS_Singleton

-----------------------------------------------------------------------------
(* A frame, whatever its checksum; the receiver that has n bytes of it; the rest *)
(* of it on the line.                                                            *)
IsFrame(f) ==
  /\ f \in Seq(ToSet(f)) /\ 6 <= Len(f) /\ Len(f) <= 255
  /\ f[1] = 64 /\ f[2] = 62 /\ f[3] = Len(f)
ParsedTo(f, n) == [i |-> n, len |-> IF n < 3 THEN 0 ELSE Len(f), got |-> SubSeq(f, 1, n)]
Travels(f, p, line) == \E n \in 0 .. Len(f) - 1 : p = ParsedTo(f, n) /\ line = SubSeq(f, n + 1, Len(f))

(* The head of a frame. *)
LEMMA SixBytes == ASSUME NEW S, NEW a \in S, NEW b \in S, NEW c \in S, NEW d \in S, NEW e \in S, NEW g \in S,
    NEW h, h = <<e, g>> \o <<a, b, c, d>> 
 PROVE h \in Seq(S) /\ Len(h) = 6 /\ h[1] = e /\ h[2] = g /\ h[3] = a /\ h[5] = c /\ h[6] = d
<1> DEFINE s == <<e, g>>
           t == <<a, b, c, d>>
<1>1. s \in Seq(S) /\ Len(s) = 2 /\ s[1] = e /\ s[2] = g
  OBVIOUS
<1>2. t \in Seq(S) /\ Len(t) = 4 /\ t[1] = a /\ t[2] = b /\ t[3] = c /\ t[4] = d
  OBVIOUS
<1>3. h = s \o t
  OBVIOUS
<1> HIDE DEF s, t
<1>4. /\ s \o t \in Seq(S) /\ Len(s \o t) = Len(s) + Len(t)
      /\ \A i \in 1 .. Len(s) + Len(t) : (s \o t)[i] = IF i <= Len(s) THEN s[i] ELSE t[i - Len(s)]
  BY <1>1, <1>2, ConcatProperties
<1>5. \A i \in 1 .. 6 : h[i] = IF i <= 2 THEN s[i] ELSE t[i - 2]
  BY <1>1, <1>2, <1>3, <1>4
<1>6. h[1] = s[1] /\ h[2] = s[2] /\ h[3] = t[1] /\ h[5] = t[3] /\ h[6] = t[4]
  BY <1>5
<1> QED BY <1>1, <1>2, <1>3, <1>4, <1>6
(* A byte of a frame that is set later. *)
LEMMA BytePatched == ASSUME NEW T, NEW raw \in Seq(T), NEW v, NEW f, f = [raw EXCEPT ![4] = v], Len(raw) >= 6
  PROVE /\ f \in Seq(T \cup {v}) /\ Len(f) = Len(raw)
      /\ f[1] = raw[1] /\ f[2] = raw[2] /\ f[3] = raw[3] /\ f[5] = raw[5] /\ f[6] = raw[6]
<1>1. raw \in Seq(T \cup {v})
  OBVIOUS
<1>2. 4 \in 1 .. Len(raw) /\ v \in T \cup {v}
  OBVIOUS
<1>3. f \in Seq(T \cup {v}) /\ Len(f) = Len(raw) /\ \A i \in 1 .. Len(raw) : f[i] = IF i = 4 THEN v ELSE raw[i]
  BY <1>1, <1>2, ExceptSeq
<1>4. 1 \in 1 .. Len(raw) /\ 2 \in 1 .. Len(raw) /\ 3 \in 1 .. Len(raw) /\ 5 \in 1 .. Len(raw) /\ 6 \in 1 .. Len(raw)
  OBVIOUS
<1> QED BY <1>3, <1>4
(* A sequence is one of its own elements. *)
LEMMA SeqOfItsOwn == ASSUME NEW S, NEW f \in Seq(S) PROVE f \in Seq(ToSet(f))
  <2>1. DOMAIN f = 1 .. Len(f) /\ f \in [1 .. Len(f) -> S] /\ Len(f) \in Nat
    BY LenProperties
  <2>2. \A i \in 1 .. Len(f) : f[i] \in ToSet(f)
    BY <2>1 DEF ToSet
  <2>3. f \in [1 .. Len(f) -> ToSet(f)]
    BY <2>1, <2>2
  <2> QED
    BY <2>1, <2>3, SeqDef
(* The first bytes of a frame, and one more. *)
LEMMA OneMore ==
  ASSUME NEW S, NEW f \in Seq(S), NEW n \in 0 .. Len(f) - 1
  PROVE  SubSeq(f, 1, n + 1) = Append(SubSeq(f, 1, n), f[n + 1])
<1>1. Len(f) \in Nat /\ n \in Nat /\ n + 1 \in 1 .. Len(f) /\ n + 1 <= Len(f)
  BY LenProperties
<1>2. f[n + 1] \in S
  BY <1>1, ElementOfSeq
<1>3. SubSeq(f, 1, n + 1) = SubSeq(f, 1, n + 1 - 1) \o <<f[n + 1]>>
  <2>1. 1 \in 1 .. Len(f) /\ n + 1 \in 1 .. Len(f)
    BY <1>1
  <2> QED
    BY <2>1, SubSeqRecursiveSecond
<1>4. n + 1 - 1 = n
  BY <1>1
<1>5. SubSeq(f, 1, n) \in Seq(S)
  <2>1. \A i \in 1 .. n : f[i] \in S
    BY <1>1, ElementOfSeq
  <2> QED
    BY <1>1, <2>1, SubSeqProperties
<1>6. Append(SubSeq(f, 1, n), f[n + 1]) = SubSeq(f, 1, n) \o <<f[n + 1]>>
  BY <1>2, <1>5, AppendIsConcat
<1> QED
  BY <1>3, <1>4, <1>6

(* What ser_cmd_rcv does with a byte that fits. *)
LEMMA OneByteMore ==
  ASSUME NEW p, p = [i |-> p.i, len |-> p.len, got |-> p.got], p.i \in Nat, NEW ch,
         NEW q, q = [p EXCEPT !.i = @ + 1, !.got = Append(@, ch)]
  PROVE  q = [i |-> p.i + 1, len |-> p.len, got |-> Append(p.got, ch)]
OBVIOUS

(* One byte more of a frame. *)
LEMMA FeedsFrame ==
  ASSUME NEW f, IsFrame(f), NEW n \in 0 .. Len(f) - 1
  PROVE  Feed(ParsedTo(f, n), f[n + 1], TRUE) = ParsedTo(f, n + 1)
<1> DEFINE g(k) == SubSeq(f, 1, k)
           ch == f[n + 1]
           len(k) == IF k < 3 THEN 0 ELSE Len(f)
           p == [i |-> n, len |-> len(n), got |-> g(n)]
           q == [i |-> n + 1, len |-> len(n + 1), got |-> Append(g(n), ch)]
<1>1. /\ Len(f) \in Nat /\ 6 <= Len(f) /\ n \in Nat
      /\ f[1] = 64 /\ f[2] = 62 /\ f[3] = Len(f)
  BY LenProperties DEF IsFrame
<1>2. g(n + 1) = Append(g(n), ch)
  BY OneMore DEF IsFrame
<1>3. p = ParsedTo(f, n) /\ q = ParsedTo(f, n + 1)
  BY <1>2 DEF ParsedTo
<1>4. p.i = n /\ p.len = len(n) /\ p.got = g(n)
  OBVIOUS
<1>5. [p EXCEPT !.i = @ + 1, !.got = Append(@, ch)] = [i |-> n + 1, len |-> len(n), got |-> Append(g(n), ch)]
  <2>1. p = [i |-> p.i, len |-> p.len, got |-> p.got] /\ p.i \in Nat
    BY <1>1
  <2>2. [p EXCEPT !.i = @ + 1, !.got = Append(@, ch)] = [i |-> p.i + 1, len |-> p.len, got |-> Append(p.got, ch)]
    <3> HIDE DEF p, ch
    <3> QED
      BY <2>1, OneByteMore
  <2> QED
    BY <1>4, <2>2
<1> HIDE DEF p, g
<1>6. CASE n <= 1
  <2>1. n = 0 \/ n = 1
    BY <1>1, <1>6
  <2>2. ch = MacHead[n + 1]
    BY <1>1, <2>1 DEF MacHead
  <2>3. Feed(p, ch, TRUE) = [p EXCEPT !.i = @ + 1, !.got = Append(@, ch)]
    BY <1>4, <1>6, <2>2 DEF Feed
  <2>4. len(n + 1) = len(n)
    BY <2>1
  <2> QED
    BY <1>3, <1>5, <2>3, <2>4
<1>7. CASE n = 2
  <2>1. ch = Len(f) /\ ~(ch < HdrLen) /\ ~(n <= 1)
    BY <1>1, <1>7 DEF HdrLen
  <2>2. Feed(p, ch, TRUE) = [i |-> 3, len |-> ch, got |-> Append(p.got, ch)]
    <3> HIDE DEF ch
    <3> QED
      BY <1>4, <1>7, <2>1 DEF Feed
  <2>3. n + 1 = 3 /\ len(n + 1) = ch
    BY <1>7, <2>1
  <2> QED
    BY <1>3, <1>4, <2>2, <2>3
<1>8. CASE n >= 3
  <2>1. ~(n <= 1) /\ n # 2
    BY <1>1, <1>8
  <2>2. Feed(p, ch, TRUE) = [p EXCEPT !.i = @ + 1, !.got = Append(@, ch)]
    <3> HIDE DEF ch
    <3> QED
      BY <1>4, <2>1 DEF Feed
  <2>3. len(n + 1) = len(n)
    BY <1>1, <1>8
  <2> QED
    BY <1>3, <1>5, <2>2, <2>3
<1>9. n <= 1 \/ n = 2 \/ n >= 3
  BY <1>1
<1> QED
  BY <1>3, <1>6, <1>7, <1>8, <1>9

(* A frame that is written whole on a quiet line, and goes on to its end. *)
LEMMA TravelStarts ==
  ASSUME NEW f, IsFrame(f)
  PROVE  Travels(f, Unsynced, f)
<1>1. f \in Seq(ToSet(f)) /\ Len(f) \in Nat /\ 6 <= Len(f)
  BY LenProperties DEF IsFrame
<1>2. SubSeq(f, 1, 0) = <<>> /\ SubSeq(f, 0 + 1, Len(f)) = f
  BY <1>1, SubSeqEmpty, SubSeqFull
<1>3. Unsynced = ParsedTo(f, 0) /\ 0 \in 0 .. Len(f) - 1
  BY <1>1, <1>2 DEF Unsynced, ParsedTo
<1> QED
  BY <1>2, <1>3 DEF Travels

(* The receiver of n bytes. *)
LEMMA ParsedFields ==
  ASSUME NEW f, NEW n \in Nat, NEW p, p = ParsedTo(f, n)
  PROVE  /\ p = [i |-> p.i, len |-> p.len, got |-> p.got]
         /\ p.i = n /\ (n >= 3 => p.len = Len(f)) /\ p.got = SubSeq(f, 1, n)
BY DEF ParsedTo

LEMMA TravelGoesOn ==
  ASSUME NEW f, IsFrame(f), NEW p, NEW line, Travels(f, p, line),
         NEW q, q = Feed(p, Head(line), TRUE)
  PROVE  /\ line # <<>> /\ p = [i |-> p.i, len |-> p.len, got |-> p.got] /\ p.i \in Nat
         /\ Complete(q) => q.got = f /\ Tail(line) = <<>>
         /\ ~Complete(q) => Travels(f, q, Tail(line))
<1>1. f \in Seq(ToSet(f)) /\ Len(f) \in Nat /\ 6 <= Len(f)
  BY LenProperties DEF IsFrame
<1>2. PICK n \in 0 .. Len(f) - 1 : p = ParsedTo(f, n) /\ line = SubSeq(f, n + 1, Len(f))
  BY DEF Travels
<1>3. n \in Nat /\ n + 1 \in 1 .. Len(f) /\ Len(f) \in n + 1 .. Len(f)
  BY <1>1, <1>2
<1>4. line # <<>> /\ Head(line) = f[n + 1] /\ Tail(line) = SubSeq(f, n + 2, Len(f))
  <2>1. Head(line) = f[n + 1] /\ Tail(line) = SubSeq(f, n + 1 + 1, Len(f))
    BY <1>1, <1>2, <1>3, HeadTailOfSubSeq
  <2>2. Len(line) = Len(f) - (n + 1) + 1
    <3>1. \A i \in n + 1 .. Len(f) : f[i] \in ToSet(f)
      <4>1. \A i \in n + 1 .. Len(f) : i \in 1 .. Len(f)
        BY <1>3
      <4> QED
        BY <1>1, <4>1, ElementOfSeq
    <3>2. n + 1 \in Int /\ Len(f) \in Int /\ n + 1 <= Len(f)
      BY <1>1, <1>3
    <3> QED
      BY <1>2, <3>1, <3>2, SubSeqProperties
  <2>3. Len(line) # 0
    BY <1>1, <1>3, <2>2
  <2>4. line # <<>>
    BY <2>3
  <2>5. n + 1 + 1 = n + 2
    BY <1>3
  <2> QED
    BY <2>1, <2>4, <2>5
<1>5. PICK m \in Nat : m = n + 1
  BY <1>3
<1>6. q = ParsedTo(f, m)
  BY <1>2, <1>4, <1>5, FeedsFrame
<1>7. /\ q.i = m /\ (m >= 3 => q.len = Len(f)) /\ q.got = SubSeq(f, 1, m)
      /\ p = [i |-> p.i, len |-> p.len, got |-> p.got] /\ p.i \in Nat
  <2>1. q.i = m /\ (m >= 3 => q.len = Len(f)) /\ q.got = SubSeq(f, 1, m)
    BY <1>6, ParsedFields
  <2>2. p = [i |-> p.i, len |-> p.len, got |-> p.got] /\ p.i \in Nat
    BY <1>2, <1>3, ParsedFields
  <2> QED
    BY <2>1, <2>2
<1>8. Complete(q) <=> m = Len(f)
  <2>1. Complete(q) <=> m >= 3 /\ m = q.len
    BY <1>7 DEF Complete
  <2>2. m = Len(f) => m >= 3
    BY <1>1
  <2> QED
    BY <1>7, <2>1, <2>2
<1>9. CASE m = Len(f)
  <2>1. q.got = f
    BY <1>1, <1>7, <1>9, SubSeqFull
  <2>2. Tail(line) = <<>>
    <3>1. Len(f) < n + 2 /\ n + 2 \in Int /\ Len(f) \in Int
      BY <1>1, <1>3, <1>5, <1>9
    <3> QED
      BY <1>4, <3>1, SubSeqEmpty
  <2> QED
    BY <1>4, <1>7, <1>8, <1>9, <2>1, <2>2
<1>10. CASE m # Len(f)
  <2>1. m \in 0 .. Len(f) - 1 /\ m + 1 = n + 2
    BY <1>1, <1>3, <1>5, <1>10
  <2>2. Travels(f, q, Tail(line))
    BY <1>4, <1>6, <2>1 DEF Travels
  <2> QED
    BY <1>4, <1>7, <1>8, <1>10, <2>2
<1> QED
  BY <1>9, <1>10
(* The head of a frame and its data. *)
LEMMA SixAndMore ==
  ASSUME NEW T, NEW h \in Seq(T), Len(h) = 6, NEW data \in Seq(T)
  PROVE  h \o data \in Seq(T) /\ Len(h \o data) = 6 + Len(data) /\ \A i \in 1 .. 6 : (h \o data)[i] = h[i]
<1>1. Len(data) \in Nat
  OBVIOUS
<1>2. /\ h \o data \in Seq(T) /\ Len(h \o data) = Len(h) + Len(data)
      /\ \A i \in 1 .. Len(h) + Len(data) : (h \o data)[i] = IF i <= Len(h) THEN h[i] ELSE data[i - Len(h)]
  BY ConcatProperties
<1>3. \A i \in 1 .. 6 : i \in 1 .. 6 + Len(data) /\ i <= 6
  BY <1>1
<1> QED
  BY <1>2, <1>3

(* _build_pkt makes a frame with its sn and its command, if its length is one byte. *)
LEMMA BuiltFrame ==
  ASSUME NEW S, NEW data \in Seq(S), HdrLen + Len(data) \in Byte, NEW cmd, NEW sn,
         NEW f, f = BuildPkt(cmd, sn, data)
  PROVE  IsFrame(f) /\ Len(f) = HdrLen + Len(data) /\ f[SnAt] = sn /\ f[CmdAt] = cmd
<1> DEFINE len == (HdrLen + Len(data)) % 256
           head == <<64, 62>> \o <<len, 0, sn, cmd>>
           raw == head \o data
           T == {64, 62, len, 0, sn, cmd} \cup S
<1>1. Len(data) \in Nat /\ 6 + Len(data) <= 255 /\ len = 6 + Len(data)
  <2>1. PICK n \in Nat : n = Len(data)
    BY LenProperties
  <2>2. 6 + n <= 255
    <3>1. HdrLen + n \in Byte
      BY <2>1
    <3> QED
      BY <3>1 DEF HdrLen, Byte
  <2>3. \A x \in Nat : x <= 255 => x % 256 = x
    OBVIOUS
  <2>4. (6 + n) % 256 = 6 + n
    BY <2>2, <2>3
  <2> QED
    BY <2>1, <2>2, <2>4 DEF HdrLen
<1>2. /\ head \in Seq(T) /\ Len(head) = 6
      /\ head[1] = 64 /\ head[2] = 62 /\ head[3] = len /\ head[5] = sn /\ head[6] = cmd
  <2>1. {64, 62, len, 0, sn, cmd} \subseteq T
    OBVIOUS
  <2>2. head = <<64, 62>> \o <<len, 0, sn, cmd>>
    OBVIOUS
  <2> HIDE DEF len, T, head
  <2> QED
    BY <2>1, <2>2, SixBytes
<1>3. data \in Seq(T)
  OBVIOUS
<1>4. /\ raw \in Seq(T) /\ Len(raw) = 6 + Len(data)
      /\ raw[1] = 64 /\ raw[2] = 62 /\ raw[3] = len /\ raw[5] = sn /\ raw[6] = cmd
  <2> HIDE DEF len, head, T
  <2>1. raw \in Seq(T) /\ Len(raw) = 6 + Len(data) /\ \A i \in 1 .. 6 : raw[i] = head[i]
    BY <1>2, <1>3, SixAndMore
  <2> HIDE DEF raw
  <2>2. 1 \in 1 .. 6 /\ 2 \in 1 .. 6 /\ 3 \in 1 .. 6 /\ 5 \in 1 .. 6 /\ 6 \in 1 .. 6
    OBVIOUS
  <2> QED
    BY <1>2, <2>1, <2>2
<1>5. f = [raw EXCEPT ![4] = CalcChecksum(raw, len)]
  BY DEF BuildPkt, MacHead, CheckAt
<1> DEFINE v == CalcChecksum(raw, len)
<1> HIDE DEF raw, T, head, v
<1>6. /\ f \in Seq(T \cup {v}) /\ Len(f) = 6 + Len(data)
      /\ f[1] = 64 /\ f[2] = 62 /\ f[3] = len /\ f[5] = sn /\ f[6] = cmd
  <2> HIDE DEF len
  <2>1. f = [raw EXCEPT ![4] = v] /\ Len(raw) >= 6
    BY <1>1, <1>4, <1>5 DEF v
  <2> QED
    BY <1>4, <2>1, BytePatched
<1>7. f \in Seq(ToSet(f))
  BY <1>6, SeqOfItsOwn
<1>8. Len(f) = len /\ 6 <= Len(f) /\ Len(f) <= 255
  BY <1>1, <1>6
<1> QED
  BY <1>6, <1>7, <1>8 DEF IsFrame, SnAt, CmdAt, HdrLen

-----------------------------------------------------------------------------
(* The answer to the command that was sent, a frame again. *)
Answering == Reply(sent.frame, "nothing")
IsAnswering == IsFrame(Answering) /\ Answering[CmdAt] = ReplyMask /\ Answering[SnAt] = sent.frame[SnAt]

LEMMA AnswerIsFrame ==
  ASSUME IsFrame(sent.frame), ~Crashes(sent.frame)
  PROVE  IsAnswering
<1> DEFINE f == sent.frame
           k == FindHandler(f[CmdAt])
           data == Answer(k, PktData(f))
           S == ToSet(f) \cup Nat
<1>1. f \in Seq(ToSet(f)) /\ Len(f) \in Nat /\ 6 <= Len(f) /\ Len(f) <= 255
  BY LenProperties DEF IsFrame
<1>2. k \in {1, 2, 3, 4}
  <2>1. CASE \E i \in 1 .. 5 : Handlers[i] = f[CmdAt]
    <3>1. k \in 1 .. 5
      BY <2>1 DEF FindHandler
    <3>2. k # 5
      BY DEF Crashes
    <3> HIDE DEF k
    <3> QED
      BY <3>1, <3>2
  <2>2. CASE ~\E i \in 1 .. 5 : Handlers[i] = f[CmdAt]
    BY <2>2 DEF FindHandler, NotImplementedIndex
  <2> QED
    BY <2>1, <2>2
<1>3. PktData(f) \in Seq(S) /\ Len(PktData(f)) <= 249 /\ Len(PktData(f)) \in Nat
  <2>1. PktData(f) = SubSeq(f, 7, Len(f))
    BY DEF PktData, HdrLen
  <2>2. \A i \in 7 .. Len(f) : f[i] \in S
    <3>1. \A i \in 7 .. Len(f) : i \in 1 .. Len(f)
      BY <1>1
    <3> QED
      BY <1>1, <3>1, ElementOfSeq
  <2>3. 7 \in Int /\ Len(f) \in Int
    BY <1>1
  <2> HIDE DEF f, S
  <2>4. /\ PktData(f) \in Seq(S)
        /\ Len(PktData(f)) = IF 7 <= Len(f) THEN Len(f) - 7 + 1 ELSE 0
    BY <2>1, <2>2, <2>3, SubSeqProperties
  <2> QED
    BY <1>1, <2>4
<1>4. data \in Seq(S) /\ Len(data) \in Nat /\ Len(data) <= 249
  <2>1. data = <<100>> \/ data = <<5>> \/ data = PktData(f) \/ data = <<110>>
    <3> HIDE DEF k
    <3> QED
      BY <1>2 DEF Answer
  <2>2. \A x \in Nat : <<x>> \in Seq(S) /\ Len(<<x>>) = 1
    <3>1. \A x \in Nat : x \in S
      OBVIOUS
    <3> HIDE DEF S
    <3> QED
      BY <3>1
  <2> HIDE DEF data, f, S
  <2>3. 100 \in Nat /\ 5 \in Nat /\ 110 \in Nat /\ 1 \in Nat /\ 1 <= 249
    OBVIOUS
  <2> QED
    BY <1>3, <2>1, <2>2, <2>3
<1>5. HdrLen + Len(data) \in Byte
  <2>1. \A n \in Nat : n <= 249 => HdrLen + n \in Byte
    BY DEF HdrLen, Byte
  <2> QED
    BY <1>4, <2>1
<1>6. Answering = BuildPkt(ReplyMask, f[SnAt], data)
  <2>1. ErrOk + ReplyMask = ReplyMask
    BY DEF ErrOk, ReplyMask
  <2> QED
    BY <2>1 DEF Answering, Reply
<1> HIDE DEF data, S, f
<1> QED
  BY <1>4, <1>5, <1>6, BuiltFrame DEF IsAnswering, f

-----------------------------------------------------------------------------
(* On a line that is in step there is one frame at most, first the command, *)
(* then its answer, and then the answer is told to the sending thread.      *)
Told == IsAnswered /\ bufs[replied_pkt][SnAt] = sent.frame[SnAt]

InTransit ==
  /\ spc = "wait" /\ rpc = "read" /\ ~replied
  /\ IsFrame(sent.frame) /\ Travels(sent.frame, devParse, toDevice)
  /\ parse = Unsynced /\ toSender = <<>>
AnswerOnWay ==
  /\ spc = "wait" /\ rpc = "read" /\ ~replied
  /\ IsAnswering /\ Travels(Answering, parse, toSender)
  /\ devParse = Unsynced /\ toDevice = <<>>
  /\ HasBuffer(parse) => buf \in DOMAIN bufs
Still ==
  /\ toDevice = <<>> /\ toSender = <<>> /\ devParse = Unsynced /\ parse = Unsynced
  /\ rpc \in {"read", "tell"}
  /\ rpc = "tell" => spc = "wait" /\ ~replied
  /\ replied => spc \in {"wait", "clear"}
  /\ rpc = "tell" \/ replied \/ spc \in {"clear", "dump"} => Told
Sound == InTransit \/ AnswerOnWay \/ Still

SoundInv ==
  /\ faults \in Nat /\ restarts \in Nat
  /\ faults = 0 => inStep /\ restarts = 0
  /\ inStep \in BOOLEAN /\ (inStep => Sound)

LEMMA InitSound == Init => SoundInv
<1> SUFFICES ASSUME Init PROVE SoundInv
  OBVIOUS
<1>1. Still
  BY DEF Init, Still
<1> QED
  BY <1>1 DEF Init, SoundInv, Sound

(* The sending thread is in the middle of a reply only when the line is still. *)
LEMMA SenderSound ==
  ASSUME Sound, Sender
  PROVE  Sound'
<1>1. /\ UNCHANGED <<toDevice, toSender, devParse, parse, rpc, replied_pkt, sent>>
      /\ spc = "wait" => replied
  BY DEF Sender, SeeReplied, ClearReplied, DumpReply, FreeReply, KeepReply, CallerFrees, readerVars, lineVars
<1>2. Still
  BY <1>1 DEF Sound, InTransit, AnswerOnWay, Sender, SeeReplied, ClearReplied, DumpReply, FreeReply, KeepReply, CallerFrees
<1>3. UNCHANGED bufs => (Told' <=> Told)
  BY <1>1 DEF Told, IsAnswered
<1>4. Still'
  <2>1. CASE SeeReplied
    BY <1>1, <1>2, <1>3, <2>1 DEF Still, SeeReplied
  <2>2. CASE ClearReplied
    BY <1>1, <1>2, <1>3, <2>2 DEF Still, ClearReplied
  <2>3. CASE DumpReply
    BY <1>1, <1>2, <1>3, <2>3 DEF Still, DumpReply
  <2>4. CASE FreeReply
    BY <1>1, <1>2, <2>4 DEF Still, FreeReply
  <2>5. CASE KeepReply
    BY <1>1, <1>2, <1>3, <2>5 DEF Still, KeepReply
  <2>6. CASE CallerFrees
    BY <1>1, <1>2, <2>6 DEF Still, CallerFrees
  <2> QED
    BY <2>1, <2>2, <2>3, <2>4, <2>5, <2>6 DEF Sender
<1> QED
  BY <1>4 DEF Sound

LEMMA SendSound ==
  ASSUME SoundInv, NEW c \in Commands, NEW written \in 0 .. HdrLen + Len(c[2]), Send(c[1], c[2], c[3], written)
  PROVE  SoundInv' /\ (faults' = 0 => faults = 0)
<1> DEFINE f == BuildPkt(c[1], send_sn, c[2])
<1>1. /\ spc = "idle" /\ spc' = "wait" /\ sent' = [frame |-> f, keep |-> c[3]]
      /\ faults' = faults + One(written < Len(f)) /\ restarts' = restarts
      /\ inStep' = (Quiet /\ written = Len(f))
      /\ toDevice' = toDevice \o SubSeq(f, 1, written)
      /\ UNCHANGED <<toSender, devParse, parse, rpc, replied>> /\ written <= Len(f)
  BY DEF Send, readerVars
<1>2. IsFrame(f)
  <2>1. c[2] \in Seq(Byte) /\ HdrLen + Len(c[2]) \in Byte
    BY CommandsAssumption DEF CommandsAssumption
  <2> HIDE DEF f
  <2> QED
    BY <2>1, BuiltFrame DEF f
<1>3. sent'.frame = f
  BY <1>1
<1> HIDE DEF f
<1>4. inStep' => Sound'
  <2> SUFFICES ASSUME inStep' PROVE InTransit'
    BY DEF Sound
  <2>1. Quiet /\ written = Len(f)
    BY <1>1
  <2>2. toDevice' = f
    <3>1. f \in Seq(ToSet(f)) /\ SubSeq(f, 1, Len(f)) = f
      BY <1>2, SubSeqFull DEF IsFrame
    <3>2. <<>> \o f = f
      BY <3>1, ConcatEmptySeq
    <3> QED
      BY <1>1, <2>1, <3>1, <3>2 DEF Quiet
  <2>3. Travels(f, Unsynced, f)
    BY <1>2, TravelStarts
  <2> QED
    BY <1>1, <1>2, <1>3, <2>1, <2>2, <2>3 DEF InTransit, Quiet
<1>5. inStep /\ written = Len(f) => inStep'
  <2>1. inStep => Quiet
    BY <1>1 DEF SoundInv, Sound, InTransit, AnswerOnWay, Still, Quiet
  <2> QED
    BY <1>1, <2>1
<1>6. faults' \in Nat /\ (faults' = 0 => faults = 0 /\ written = Len(f))
  <2>1. Len(f) \in Nat /\ written \in Nat
    <3>1. f \in Seq(ToSet(f))
      BY <1>2 DEF IsFrame
    <3> QED
      BY <3>1, LenProperties
  <2>2. One(written < Len(f)) \in Nat /\ (One(written < Len(f)) = 0 => written = Len(f))
    BY <1>1, <2>1 DEF One
  <2> QED
    BY <1>1, <2>2 DEF SoundInv
<1> QED
  BY <1>1, <1>4, <1>5, <1>6 DEF SoundInv

-----------------------------------------------------------------------------
(* The two ends of the line. *)
LEMMA ReadsSound ==
  ASSUME Sound, NEW memory \in BOOLEAN, ReaderReads(memory), inStep'
  PROVE  Sound'
<1> DEFINE p == Feed(parse, Head(toSender), memory)
<1>1. /\ toSender # <<>> /\ ~Complete(p) /\ parse' = p /\ toSender' = Tail(toSender) /\ memory = TRUE
      /\ spc' = spc /\ sent' = sent /\ rpc' = rpc /\ replied' = replied
      /\ devParse' = devParse /\ toDevice' = toDevice
  BY DEF ReaderReads, Faults, One, senderVars
<1>2. AnswerOnWay
  BY <1>1 DEF Sound, InTransit, Still
<1>3. Travels(Answering, p, Tail(toSender))
  BY <1>1, <1>2, TravelGoesOn DEF AnswerOnWay, IsAnswering
<1>4. Answering' = Answering
  BY <1>1 DEF Answering
<1>5. HasBuffer(p) => buf' \in DOMAIN bufs'
  <2>1. CASE HasBuffer(p) /\ ~HasBuffer(parse)
    <3>1. buf' = FreshBuffer /\ bufs' = With(FreshBuffer, p.got)
      BY <2>1 DEF ReaderReads
    <3> QED
      BY <3>1 DEF With
  <2>2. CASE HasBuffer(p) /\ HasBuffer(parse)
    <3>1. buf' = buf /\ bufs' = bufs
      BY <2>2 DEF ReaderReads
    <3> QED
      BY <1>2, <2>2, <3>1 DEF AnswerOnWay
  <2> QED
    BY <2>1, <2>2
<1>6. IsAnswering'
  BY <1>1, <1>2, <1>4 DEF AnswerOnWay, IsAnswering
<1> HIDE DEF p
<1>7. AnswerOnWay'
  BY <1>1, <1>2, <1>3, <1>4, <1>5, <1>6 DEF AnswerOnWay
<1> QED
  BY <1>7 DEF Sound

(* The answer is a reply: it is told, or dropped, and the line is still. *)
LEMMA EndsSound ==
  ASSUME Sound, ReaderEnds
  PROVE  Sound' /\ UNCHANGED <<faults, restarts, inStep>>
<1> DEFINE p == Feed(parse, Head(toSender), TRUE)
<1>1. /\ toSender # <<>> /\ Complete(p) /\ parse' = Unsynced /\ toSender' = Tail(toSender)
      /\ spc' = spc /\ sent' = sent /\ replied' = replied /\ devParse' = devParse /\ restarts' = restarts
  BY DEF ReaderEnds, senderVars
<1>2. AnswerOnWay
  BY <1>1 DEF Sound, InTransit, Still
<1>3. /\ p.got = Answering /\ Tail(toSender) = <<>>
      /\ parse = [i |-> parse.i, len |-> parse.len, got |-> parse.got] /\ parse.i \in Nat
  BY <1>1, <1>2, TravelGoesOn DEF AnswerOnWay, IsAnswering
<1>4. buf \in DOMAIN bufs
  <2>1. HasBuffer(parse)
    BY <1>1, <1>3, FeedKeeps DEF ParseOK
  <2> QED
    BY <1>2, <2>1 DEF AnswerOnWay
<1>5. ~IsCommand(p)
  <2>1. p.got[CmdAt] = ReplyMask
    BY <1>2, <1>3 DEF AnswerOnWay, IsAnswering
  <2> HIDE DEF p
  <2> QED
    BY <2>1 DEF IsCommand, IsReply, ReplyMask
<1>6. UNCHANGED <<toDevice, faults, inStep>>
  BY <1>5 DEF ReaderEnds
<1>7. /\ IsAnswer(p) => bufs' = [bufs EXCEPT ![buf] = p.got] /\ replied_pkt' = buf /\ rpc' = "tell"
      /\ ~IsAnswer(p) => rpc' = rpc
  BY DEF ReaderEnds
<1> HIDE DEF p
<1>8. CASE IsAnswer(p)
  <2>1. bufs'[replied_pkt'] = Answering
    BY <1>3, <1>4, <1>7, <1>8
  <2>2. Told'
    BY <1>1, <1>2, <2>1 DEF Told, IsAnswered, Answering, AnswerOnWay, IsAnswering
  <2>3. Still'
    BY <1>1, <1>2, <1>3, <1>6, <1>7, <1>8, <2>2 DEF Still, AnswerOnWay
  <2> QED
    BY <1>1, <1>6, <2>3 DEF Sound
<1>9. CASE ~IsAnswer(p)
  <2>1. Still'
    BY <1>1, <1>2, <1>3, <1>6, <1>7, <1>9 DEF Still, AnswerOnWay
  <2> QED
    BY <1>1, <1>6, <2>1 DEF Sound
<1> QED
  BY <1>8, <1>9

LEMMA TellsSound ==
  ASSUME Sound, ReaderTells
  PROVE  Sound'
<1>1. Still
  BY DEF Sound, InTransit, AnswerOnWay, ReaderTells
<1>2. Told' <=> Told
  BY DEF Told, IsAnswered, ReaderTells, senderVars
<1>3. Still'
  BY <1>1, <1>2 DEF Still, ReaderTells, senderVars, lineVars
<1> QED
  BY <1>3 DEF Sound

LEMMA DeviceReadsSound ==
  ASSUME Sound, NEW memory \in BOOLEAN, DeviceReads(memory), inStep'
  PROVE  Sound'
<1> DEFINE p == Feed(devParse, Head(toDevice), memory)
<1>1. /\ toDevice # <<>> /\ toDevice' = Tail(toDevice) /\ memory = TRUE
      /\ devParse' = IF Complete(p) THEN Unsynced ELSE p
      /\ spc' = spc /\ sent' = sent /\ rpc' = rpc /\ replied' = replied
      /\ parse' = parse /\ toSender' = toSender
  BY DEF DeviceReads, Faults, One, senderVars, readerVars
<1>2. InTransit
  BY <1>1 DEF Sound, AnswerOnWay, Still
<1>3. /\ Complete(p) => Tail(toDevice) = <<>>
      /\ ~Complete(p) => Travels(sent.frame, p, Tail(toDevice))
  BY <1>1, <1>2, TravelGoesOn DEF InTransit
<1> HIDE DEF p
<1>4. CASE Complete(p)
  <2>1. Still'
    BY <1>1, <1>2, <1>3, <1>4 DEF Still, InTransit
  <2> QED
    BY <2>1 DEF Sound
<1>5. CASE ~Complete(p)
  <2>1. InTransit'
    BY <1>1, <1>2, <1>3, <1>5 DEF InTransit
  <2> QED
    BY <2>1 DEF Sound
<1> QED
  BY <1>4, <1>5

LEMMA DeviceAnswersSound ==
  ASSUME Sound, DeviceAnswers, inStep'
  PROVE  Sound'
<1> DEFINE p == Feed(devParse, Head(toDevice), TRUE)
<1>1. /\ toDevice # <<>> /\ IsCommand(p) /\ toDevice' = Tail(toDevice) /\ devParse' = Unsynced
      /\ spc' = spc /\ sent' = sent /\ rpc' = rpc /\ replied' = replied
      /\ parse' = parse
  BY DEF DeviceAnswers, senderVars, readerVars
<1>2. InTransit
  BY <1>1 DEF Sound, AnswerOnWay, Still
<1>3. Complete(p)
  BY <1>1 DEF IsCommand
<1>4. p.got = sent.frame /\ Tail(toDevice) = <<>>
  BY <1>1, <1>2, <1>3, TravelGoesOn DEF InTransit
<1>5. Answering' = Answering
  BY <1>1 DEF Answering
<1>6. CASE Crashes(sent.frame)
  <2>1. toSender' = toSender
    BY <1>4, <1>6 DEF DeviceAnswers
  <2>2. Still'
    BY <1>1, <1>2, <1>4, <2>1 DEF Still, InTransit
  <2> QED
    BY <2>2 DEF Sound
<1>7. CASE ~Crashes(sent.frame)
  <2>1. WriteAnswer(sent.frame, toSender)
    BY <1>4, <1>7 DEF DeviceAnswers
  <2>2. PICK refused \in Refusals : \E written \in 0 .. Len(Reply(sent.frame, refused)) :
          /\ Faults(One(refused # "nothing") + One(written < Len(Reply(sent.frame, refused))))
          /\ toSender' = toSender \o SubSeq(Reply(sent.frame, refused), 1, written)
    BY <2>1 DEF WriteAnswer
  <2>3. PICK written \in 0 .. Len(Reply(sent.frame, refused)) :
          /\ Faults(One(refused # "nothing") + One(written < Len(Reply(sent.frame, refused))))
          /\ toSender' = toSender \o SubSeq(Reply(sent.frame, refused), 1, written)
    BY <2>2
  <2>4. One(refused # "nothing") + One(written < Len(Reply(sent.frame, refused))) = 0
    BY <2>3 DEF Faults
  <2>5. refused = "nothing" /\ ~(written < Len(Reply(sent.frame, refused)))
    BY <2>4 DEF One
  <2>6. IsAnswering
    BY <1>2, <1>7, AnswerIsFrame DEF InTransit
  <2>7. Answering \in Seq(ToSet(Answering)) /\ Len(Answering) \in Nat
    BY <2>6, LenProperties DEF IsAnswering, IsFrame
  <2>8. written = Len(Answering)
    <3>1. written \in 0 .. Len(Answering) /\ ~(written < Len(Answering))
      BY <2>3, <2>5 DEF Answering
    <3> QED
      BY <2>7, <3>1
  <2>9. toSender' = Answering
    <3>1. toSender' = <<>> \o SubSeq(Answering, 1, Len(Answering))
      BY <1>2, <2>3, <2>5, <2>8 DEF Answering, InTransit
    <3>2. SubSeq(Answering, 1, Len(Answering)) = Answering /\ <<>> \o Answering = Answering
      BY <2>7, SubSeqFull, ConcatEmptySeq
    <3> QED
      BY <3>1, <3>2
  <2>10. Travels(Answering, Unsynced, Answering)
    BY <2>6, TravelStarts DEF IsAnswering
  <2>11. ~HasBuffer(Unsynced)
    BY DEF HasBuffer, Unsynced
  <2>12. IsAnswering'
    BY <1>1, <1>5, <2>6 DEF IsAnswering
  <2>13. AnswerOnWay'
    BY <1>1, <1>2, <1>4, <1>5, <2>9, <2>10, <2>11, <2>12 DEF AnswerOnWay, InTransit
  <2> QED
    BY <2>13 DEF Sound
<1> QED
  BY <1>6, <1>7

-----------------------------------------------------------------------------
(* A fault ends the step of the line, and is counted. *)
LEMMA FaultCounted ==
  ASSUME SoundInv, NEW n \in Nat, Faults(n), restarts' = restarts, inStep' => Sound'
  PROVE  SoundInv' /\ (faults' = 0 => faults = 0)
<1>1. faults' = faults + n /\ inStep' = (inStep /\ n = 0) /\ faults \in Nat
  BY DEF Faults, SoundInv
<1>2. faults' \in Nat /\ (faults' = 0 => faults = 0 /\ n = 0)
  BY <1>1
<1>3. inStep' \in BOOLEAN /\ (faults' = 0 => inStep')
  BY <1>1, <1>2 DEF SoundInv
<1> QED
  BY <1>2, <1>3 DEF SoundInv

LEMMA FaultFree ==
  ASSUME SoundInv, UNCHANGED <<faults, restarts, inStep>>, Sound => Sound'
  PROVE  SoundInv' /\ (faults' = 0 => faults = 0)
BY DEF SoundInv

LEMMA NextSound == SoundInv /\ [Next]_vars => SoundInv' /\ (faults' = 0 => faults = 0)
<1> SUFFICES ASSUME SoundInv, [Next]_vars PROVE SoundInv' /\ (faults' = 0 => faults = 0)
  OBVIOUS
<1>1. CASE UNCHANGED vars
  <2>1. Told' <=> Told
    BY <1>1 DEF Told, IsAnswered, vars, senderVars, readerVars
  <2>2. (InTransit' <=> InTransit) /\ (Still' <=> Still)
    BY <1>1, <2>1 DEF InTransit, Still, vars, senderVars, readerVars, lineVars
  <2>3. AnswerOnWay' <=> AnswerOnWay
    BY <1>1 DEF AnswerOnWay, IsAnswering, Answering, vars, senderVars, readerVars, lineVars
  <2> QED
    BY <1>1, <2>2, <2>3, FaultFree DEF Sound, vars, bounds
<1>2. CASE Sender
  <2>1. UNCHANGED <<faults, restarts, inStep>>
    BY <1>2 DEF Sender, SeeReplied, ClearReplied, DumpReply, FreeReply, KeepReply, CallerFrees, bounds
  <2> QED
    BY <1>2, <2>1, SenderSound, FaultFree
<1>3. ASSUME NEW memory \in BOOLEAN, ReaderReads(memory) PROVE SoundInv' /\ (faults' = 0 => faults = 0)
  <2>1. Faults(One(~memory)) /\ restarts' = restarts /\ One(~memory) \in Nat /\ (inStep' => inStep)
    BY <1>3 DEF ReaderReads, One, Faults
  <2>2. inStep' => Sound'
    BY <1>3, <2>1, ReadsSound DEF SoundInv
  <2> QED
    BY <2>1, <2>2, FaultCounted
<1>4. CASE ReaderEnds
  <2>1. CASE inStep
    BY <1>4, <2>1, EndsSound, FaultFree DEF SoundInv
  <2>2. CASE ~inStep
    <3>1. /\ restarts' = restarts
          /\ UNCHANGED <<faults, inStep>> \/ \E n \in Nat : Faults(n)
      <4>1. restarts' = restarts
        BY <1>4 DEF ReaderEnds
      <4>2. ASSUME NEW pkt, WriteAnswer(pkt, toDevice) PROVE \E n \in Nat : Faults(n)
        BY <4>2 DEF WriteAnswer, One
      <4>3. UNCHANGED <<faults, inStep>> \/ \E pkt : WriteAnswer(pkt, toDevice)
        BY <1>4 DEF ReaderEnds
      <4> QED
        BY <4>1, <4>2, <4>3
    <3>2. inStep' = FALSE
      BY <2>2, <3>1 DEF Faults, SoundInv
    <3> QED
      BY <2>2, <3>1, <3>2, FaultCounted DEF SoundInv
  <2> QED
    BY <2>1, <2>2
<1>5. CASE ReaderTells
  BY <1>5, TellsSound, FaultFree DEF ReaderTells, bounds
<1>6. ASSUME NEW memory \in BOOLEAN, DeviceReads(memory) PROVE SoundInv' /\ (faults' = 0 => faults = 0)
  <2>1. Faults(One(~memory)) /\ restarts' = restarts /\ One(~memory) \in Nat /\ (inStep' => inStep)
    BY <1>6 DEF DeviceReads, One, Faults
  <2>2. inStep' => Sound'
    BY <1>6, <2>1, DeviceReadsSound DEF SoundInv
  <2> QED
    BY <2>1, <2>2, FaultCounted
<1>7. CASE DeviceAnswers
  <2>1. restarts' = restarts
    BY <1>7 DEF DeviceAnswers
  <2>2. UNCHANGED <<faults, inStep>> \/ \E pkt : WriteAnswer(pkt, toSender)
    BY <1>7 DEF DeviceAnswers
  <2>3. UNCHANGED <<faults, inStep>> \/ \E n \in Nat : Faults(n)
    <3>1. ASSUME NEW pkt, WriteAnswer(pkt, toSender) PROVE \E n \in Nat : Faults(n)
      BY <3>1 DEF WriteAnswer, One
    <3> QED
      BY <2>2, <3>1
  <2>4. inStep' => inStep
    BY <2>3 DEF Faults
  <2>5. inStep' => Sound'
    BY <1>7, <2>4, DeviceAnswersSound DEF SoundInv
  <2>6. CASE UNCHANGED <<faults, inStep>>
    BY <2>1, <2>5, <2>6 DEF SoundInv
  <2> QED
    BY <2>1, <2>3, <2>5, <2>6, FaultCounted
<1>8. CASE LoseByte \/ ChangeByte \/ Restart
  <2>1. Faults(1) /\ restarts' \in Nat
    BY <1>8 DEF LoseByte, ChangeByte, Restart, SoundInv
  <2>2. faults' = faults + 1 /\ inStep' = FALSE /\ faults \in Nat
    <3>1. faults' = faults + 1 /\ faults \in Nat
      BY <2>1 DEF Faults, SoundInv
    <3>2. inStep' = (inStep /\ 1 = 0)
      BY <2>1, Zenon DEF Faults
    <3>3. ~(1 = 0)
      OBVIOUS
    <3> QED
      BY <3>1, <3>2, <3>3
  <2>3. faults' \in Nat /\ faults' # 0
    BY <2>2
  <2> QED
    BY <2>1, <2>2, <2>3 DEF SoundInv
<1> QED
  BY <1>1, <1>2, <1>3, <1>4, <1>5, <1>6, <1>7, <1>8, SendSound DEF Next, Reader, Device

-----------------------------------------------------------------------------
(* While the line is in step, the sending thread is told of one reply, and it *)
(* is the answer of the handler of its own command, though nothing compares   *)
(* their sn (ser_cmd.c:221-226, ser_hal.c:148-165).                           *)
THEOREM AnswersAreOwn == Spec => [](inStep => OneReplyAtATime /\ ReplyIsOwn /\ (spc = "dump" => IsAnswered))
<1>1. SoundInv /\ inStep => OneReplyAtATime /\ ReplyIsOwn /\ (spc = "dump" => IsAnswered)
  BY DEF SoundInv, Sound, InTransit, AnswerOnWay, Still, Told, OneReplyAtATime, ReplyIsOwn
<1> QED
  BY <1>1, InitSound, NextSound, PTL DEF Spec

(* As long as nothing is lost, changed, refused or cut short, each buffer has *)
(* one owner between the two threads and the caller, and is freed by nobody   *)
(* else, for any commands and any number of them (ser_hal.c:136-143, 148-165, *)
(* ser_cmd.c:193-279).                                                        *)
THEOREM RepliesHandedOverOnce == Spec => [](faults = 0 => RepliesHandedOver)
<1> DEFINE Inv == SoundInv /\ (faults = 0 => HandInv)
<1>1. SoundInv /\ faults = 0 => OneReplyAtATime
  BY DEF SoundInv, Sound, InTransit, AnswerOnWay, Still, OneReplyAtATime
<1>2. Init => Inv
  BY InitSound, InitHand
<1>3. Inv /\ [Next]_vars => Inv'
  <2> SUFFICES ASSUME Inv, [Next]_vars PROVE Inv'
    OBVIOUS
  <2>1. SoundInv'
    BY NextSound
  <2>2. faults' = 0 => faults = 0
    BY NextSound
  <2>3. faults' = 0 => OneReplyAtATime'
    BY <2>1 DEF SoundInv, Sound, InTransit, AnswerOnWay, Still, OneReplyAtATime
  <2> QED
    BY <1>1, <2>1, <2>2, <2>3, NextHand
<1>4. Inv => (faults = 0 => RepliesHandedOver)
  <2> SUFFICES ASSUME Inv, faults = 0 PROVE RepliesHandedOver
    OBVIOUS
  <2>1. OneReplyAtATime /\ ~freed /\ ThreadsAgree /\ OwnedApart /\ restarts = 0
    BY <1>1 DEF HandInv, SoundInv
  <2> QED
    BY <2>1, OneOwner DEF RepliesHandedOver
<1> QED
  BY <1>2, <1>3, <1>4, PTL DEF Spec
=============================================================================
