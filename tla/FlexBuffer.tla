------------------------------ MODULE FlexBuffer ------------------------------
(***************************************************************************)
(* The scanning engine that flex generated for libconfig (scanner.c): the   *)
(* match loop over the compressed tables, the input buffer with its two      *)
(* end-of-buffer characters and the character held back behind yytext, the   *)
(* refills, and the switch of buffers at an @include.  Characters are the    *)
(* equivalence classes of yy_ec; 0 is the NUL byte and the end-of-buffer     *)
(* character.  Offsets into yy_ch_buf start at 0 as in C.                    *)
(***************************************************************************)
EXTENDS Integers, Sequences, SequencesExt

CONSTANTS Texts,          \* inputs, in classes of yy_ec
          Included,       \* contents of the file that every include opens
          Written,        \* numbers as they are printed: [text, rule]
          YY_BUF_SIZE, YY_READ_BUF_SIZE

ASSUME SizeAssumption == {YY_BUF_SIZE, YY_READ_BUF_SIZE} \subseteq Nat \ {0}

-----------------------------------------------------------------------------
\* The tables

yy_accept ==
   << 0, 0, 0, 0, 0, 0, 0, 0, 0, 43, 41, 22, 21, 21, 5, 41, 37, 38, 29, 41, 24, 30, 41, 31, 31, 23,
      39, 29, 29, 35, 36, 25, 26, 22, 41, 3, 4, 3, 6, 15, 14, 17, 20, 42, 22, 0, 40, 29, 30, 31,
      30, 0, 1, 0, 30, 0, 32, 0, 29, 29, 22, 0, 0, 2, 6, 12, 0, 11, 10, 7, 8, 9, 17, 19, 18, 0, 30,
      30, 0, 0, 30, 32, 33, 29, 29, 0, 0, 0, 30, 34, 29, 27, 0, 13, 34, 28, 0, 0, 0, 0, 0, 16, 0 >>

yy_meta ==
   << 0, 1, 1, 1, 1, 1, 2, 1, 1, 1, 3, 1, 1, 3, 1, 1, 4, 4, 1, 1, 1, 1, 4, 4, 4, 4, 3, 3, 3, 3, 3,
      3, 3, 1, 2, 1, 3, 4, 4, 4, 4, 3, 3, 3, 3, 3, 3, 1, 1 >>

yy_base ==
   << 0, 0, 47, 47, 48, 46, 47, 48, 49, 203, 204, 200, 204, 204, 204, 198, 204, 204, 0, 45, 204,
      47, 50, 60, 74, 204, 204, 178, 28, 204, 204, 204, 204, 64, 158, 204, 204, 183, 0, 204, 63, 0,
      204, 83, 195, 193, 204, 0, 88, 102, 98, 62, 204, 190, 104, 119, 162, 0, 67, 65, 121, 127,
      124, 204, 0, 204, 0, 204, 204, 204, 204, 204, 0, 204, 204, 108, 117, 122, 134, 132, 136, 204,
      139, 136, 116, 126, 0, 140, 142, 135, 130, 0, 102, 204, 204, 0, 85, 72, 63, 98, 158, 204,
      204, 169, 173, 177, 181, 183, 187, 191, 89, 66, 63 >>

yy_def ==
   << 0, 102, 1, 103, 103, 104, 104, 105, 105, 102, 102, 102, 102, 102, 102, 106, 102, 102, 107,
      102, 102, 102, 102, 102, 102, 102, 102, 107, 107, 102, 102, 102, 102, 102, 102, 102, 102,
      102, 108, 102, 102, 109, 102, 102, 102, 106, 102, 107, 102, 102, 102, 102, 102, 106, 102,
      102, 102, 110, 107, 107, 102, 102, 102, 102, 108, 102, 111, 102, 102, 102, 102, 102, 109,
      102, 102, 102, 102, 102, 102, 102, 102, 102, 110, 107, 107, 102, 112, 102, 102, 102, 107,
      107, 102, 102, 102, 107, 102, 102, 102, 102, 102, 102, 0, 102, 102, 102, 102, 102, 102, 102,
      102, 102, 102 >>

yy_nxt ==
   << 0, 10, 11, 12, 13, 13, 14, 15, 16, 17, 18, 19, 20, 19, 21, 22, 23, 24, 25, 26, 25, 10, 18,
      18, 18, 27, 18, 18, 18, 18, 28, 18, 18, 29, 10, 30, 10, 18, 18, 18, 27, 18, 18, 18, 18, 28,
      18, 31, 32, 33, 36, 36, 39, 39, 42, 42, 59, 37, 37, 48, 52, 49, 49, 50, 50, 53, 60, 93, 34,
      65, 86, 51, 59, 75, 54, 75, 49, 49, 76, 76, 40, 40, 43, 43, 55, 61, 51, 56, 54, 73, 49, 49,
      57, 82, 83, 66, 84, 67, 55, 55, 100, 56, 99, 68, 50, 50, 69, 70, 71, 83, 98, 84, 51, 55, 50,
      50, 54, 74, 49, 49, 77, 77, 51, 60, 76, 76, 55, 51, 78, 56, 79, 97, 79, 76, 76, 80, 80, 51,
      77, 77, 91, 55, 61, 78, 96, 87, 78, 87, 80, 80, 88, 88, 80, 80, 95, 91, 88, 88, 88, 88, 100,
      78, 94, 92, 101, 90, 89, 85, 62, 95, 35, 35, 35, 35, 38, 38, 38, 38, 41, 41, 41, 41, 45, 45,
      45, 45, 47, 47, 64, 81, 64, 64, 72, 46, 72, 72, 46, 44, 63, 62, 58, 46, 44, 102, 9, 102, 102,
      102, 102, 102, 102, 102, 102, 102, 102, 102, 102, 102, 102, 102, 102, 102, 102, 102, 102,
      102, 102, 102, 102, 102, 102, 102, 102, 102, 102, 102, 102, 102, 102, 102, 102, 102, 102,
      102, 102, 102, 102, 102, 102, 102, 102, 102, 102 >>

yy_chk ==
   << 0, 1, 1, 1, 1, 1, 1, 1, 1, 1, 1, 1, 1, 1, 1, 1, 1, 1, 1, 1, 1, 1, 1, 1, 1, 1, 1, 1, 1, 1, 1,
      1, 1, 1, 1, 1, 1, 1, 1, 1, 1, 1, 1, 1, 1, 1, 1, 1, 1, 2, 3, 4, 5, 6, 7, 8, 28, 3, 4, 19, 22,
      19, 19, 21, 21, 22, 33, 112, 2, 40, 111, 21, 28, 51, 23, 51, 23, 23, 51, 51, 5, 6, 7, 8, 23,
      33, 21, 23, 24, 43, 24, 24, 23, 110, 58, 40, 59, 40, 24, 23, 99, 24, 98, 40, 48, 48, 40, 40,
      40, 58, 97, 59, 48, 24, 50, 50, 49, 43, 49, 49, 54, 54, 50, 60, 75, 75, 49, 48, 54, 49, 55,
      96, 55, 76, 76, 55, 55, 50, 77, 77, 84, 49, 60, 54, 92, 78, 77, 78, 79, 79, 78, 78, 80, 80,
      90, 84, 87, 87, 88, 88, 100, 77, 89, 85, 100, 83, 82, 62, 61, 90, 103, 103, 103, 103, 104,
      104, 104, 104, 105, 105, 105, 105, 106, 106, 106, 106, 107, 107, 108, 56, 108, 108, 109, 53,
      109, 109, 45, 44, 37, 34, 27, 15, 11, 9, 102, 102, 102, 102, 102, 102, 102, 102, 102, 102,
      102, 102, 102, 102, 102, 102, 102, 102, 102, 102, 102, 102, 102, 102, 102, 102, 102, 102,
      102, 102, 102, 102, 102, 102, 102, 102, 102, 102, 102, 102, 102, 102, 102, 102, 102, 102,
      102, 102, 102 >>

\* Mutant: only the rule for blank lines counts them.
MatchesEolOnly == {21}

\* yy_rule_can_match_eol
CanMatchEol == {4, 6, 17, 21}

YY_END_OF_BUFFER == 43
JAM == 102
EOB == 0
NL == 3
INITIAL == 1   \* BEGIN: yy_start = 1 + 2 * the condition
IN_COMMENT == 3
IN_STRING == 5
IN_INCLUDE == 7

Accept(q) == yy_accept[q + 1]

\* A transition of the compressed tables: the default state's entry, and the
\* meta-class in a template state, where the state has none of its own.
RECURSIVE NextState(_, _)
NextState(q, k) ==
  IF yy_chk[yy_base[q + 1] + k + 1] = q THEN yy_nxt[yy_base[q + 1] + k + 1]
  ELSE LET d == yy_def[q + 1]
       IN  NextState(d, IF d >= 103 THEN yy_meta[k + 1] ELSE k)

\* The tables uncompressed; a NUL in the text moves like class 1.
Delta == [q \in 0 .. JAM - 1, k \in 0 .. 48 |-> NextState(q, k)]
ClassOf(ch) == IF ch = EOB THEN 1 ELSE ch

-----------------------------------------------------------------------------
VARIABLES input,   \* the text of the file or string that is read
          streams, \* what fread has yet to return, of each open stream
          buf,     \* YY_CURRENT_BUFFER
          saved,   \* the buffers below it, on the include stack
          n,       \* yy_n_chars
          c,       \* yy_c_buf_p
          text,    \* yytext_ptr
          held,    \* yy_hold_char
          start,   \* yy_start
          last,    \* yy_last_accepting_state and _cpos
          out,     \* the rules matched, with the lengths of their texts
          mode     \* "token", "eob" or "done"

vars == <<input, streams, buf, saved, n, c, text, held, start, last, out, mode>>

\* yy_flush_buffer: an empty buffer of which nothing has been read.
Flushed(b) == [b EXCEPT !.n = 0, !.pos = 0, !.bol = 1, !.status = "NEW",
                        !.ch = <<EOB, EOB>> \o SubSeq(b.ch, 3, Len(b.ch))]

\* yy_create_buffer and yy_init_buffer: room for two end-of-buffer characters.
FileBuffer(stream) ==
  Flushed([ch |-> [i \in 1 .. YY_BUF_SIZE + 2 |-> EOB], n |-> 0, pos |-> 0, size |-> YY_BUF_SIZE,
           status |-> "NEW", bol |-> 1, fill |-> TRUE, stream |-> stream, line |-> 1])

\* yy_scan_bytes and yy_scan_buffer: a full buffer that is never refilled.
StringBuffer(s) == [ch |-> s \o <<EOB, EOB>>, n |-> Len(s), pos |-> 0, size |-> Len(s),
                    status |-> "NEW", bol |-> 1, fill |-> FALSE, stream |-> 0, line |-> 1]

\* yy_load_buffer_state
Load(b) == n' = b.n /\ text' = b.pos /\ c' = b.pos /\ held' = b.ch[b.pos + 1]

Init ==
  /\ input \in Texts
  /\ \E b \in {FileBuffer(1), StringBuffer(input)} :
       /\ buf = b /\ n = b.n /\ held = b.ch[1]
       /\ streams = IF b.fill THEN <<input>> ELSE <<>>
  /\ saved = <<>> /\ c = 0 /\ text = 0 /\ start = INITIAL
  /\ last = [q |-> 0, cpos |-> 0]
  /\ out = <<>> /\ mode = "token"

-----------------------------------------------------------------------------
\* The match loop

\* From state q at offset cp: on until the automaton jams, remembering the last
\* accepting state; then back to it.
Match(ch, cp, q, lst) ==
  LET step(m, k) ==
        IF m.q = JAM THEN m
        ELSE [q |-> Delta[m.q, k], cp |-> m.cp + 1,
              last |-> IF Accept(m.q) # 0 THEN [q |-> m.q, cpos |-> m.cp] ELSE m.last]
  IN  FoldLeft(step, [q |-> q, cp |-> cp, last |-> lst], SubSeq(ch, cp + 1, Len(ch))).last

\* yy_get_previous_state: the state behind the text from offset bp to cp.
Previous(ch, bp, cp, q, lst) ==
  LET step(m, k) ==
        [q |-> Delta[m.q, ClassOf(k)], cp |-> m.cp + 1,
         last |-> IF Accept(m.q) # 0 THEN [q |-> m.q, cpos |-> m.cp] ELSE m.last]
  IN  FoldLeft(step, [q |-> q, cp |-> bp, last |-> lst], SubSeq(ch, bp + 1, cp))

Newlines(ch, bp, cp) == Len(SelectSeq(SubSeq(ch, bp + 1, cp), LAMBDA k : k = NL))

\* Where BEGIN leads, and the default condition of a rule that has none.
StartAfter(act) ==
  CASE act = 1 -> IN_COMMENT [] act = 5 -> IN_STRING [] act = 16 -> IN_INCLUDE
    [] act \in {2, 15, 20} -> INITIAL [] OTHER -> start

\* yy_find_action and the rule: yytext ends where a held back NUL stands.  Rule 40
\* gives the newline back that it matched; rule 20 opens the included file and puts
\* the current buffer on the stack.
FindAction(b, chars, strs, bp, lst, found) ==
  LET m == IF Accept(found.q) = 0 THEN lst ELSE found
      act == Accept(m.q)
      cp == IF act = 40 THEN m.cpos - 1 ELSE m.cpos
      read == IF act = YY_END_OF_BUFFER THEN b
              ELSE [b EXCEPT !.line = @ + (IF act \in CanMatchEol THEN Newlines(b.ch, bp, cp) ELSE 0),
                             !.bol = IF b.ch[cp] = NL THEN 1 ELSE 0]
  IN  /\ last' = lst
      /\ start' = StartAfter(act)
      /\ mode' = IF act = YY_END_OF_BUFFER THEN "eob" ELSE "token"
      /\ out' = IF act = YY_END_OF_BUFFER THEN out ELSE Append(out, <<act, cp - bp, read.line>>)
      /\ IF act = 20
         THEN /\ streams' = Append(strs, Included)
              /\ saved' = Append(saved, [read EXCEPT !.pos = cp, !.n = chars])
              /\ buf' = FileBuffer(Len(strs) + 1) /\ Load(buf')
         ELSE /\ buf' = [read EXCEPT !.ch[cp + 1] = EOB]
              /\ held' = b.ch[cp + 1] /\ text' = bp /\ c' = cp /\ n' = chars
              /\ streams' = strs /\ UNCHANGED saved

\* A call of yylex, or the loop's next turn.
Token ==
  /\ mode = "token"
  /\ LET b == [buf EXCEPT !.ch[c + 1] = held]
         m == Match(b.ch, c, start + b.bol, last)
     IN  FindAction(b, n, streams, c, m, m)
  /\ UNCHANGED input

-----------------------------------------------------------------------------
\* The end of the buffer

\* The buffer and yy_n_chars when the action begins: what stood behind yytext is
\* back, and a new buffer's count is taken over.
AtEob == [buf EXCEPT !.ch[c + 1] = held, !.status = IF @ = "NEW" THEN "NORMAL" ELSE @]
Chars == IF buf.status = "NEW" THEN buf.n ELSE n

\* It was a NUL of the text after all (yy_try_NUL_trans).
RealNul ==
  /\ mode = "eob" /\ c <= Chars
  /\ LET prev == Previous(AtEob.ch, text, c - 1, start + buf.bol, last)
         lst == IF Accept(prev.q) # 0 THEN [q |-> prev.q, cpos |-> c - 1] ELSE prev.last
         next == Delta[prev.q, 1]
         m == IF next = JAM THEN lst ELSE Match(AtEob.ch, c, next, lst)
     IN  FindAction(AtEob, Chars, streams, text, m, m)
  /\ UNCHANGED input

\* EOB_ACT_LAST_MATCH: the text from bp to the end of the characters is all there is.
LastMatch(b, chars, strs, bp) ==
  LET prev == Previous(b.ch, bp, chars, start + b.bol, last)
  IN  FindAction(b, chars, strs, bp, prev.last, [q |-> prev.q, cpos |-> chars])

\* EOB_ACT_CONTINUE_SCAN: the text so far is at the start of the buffer.
ContinueScan(b, chars, strs, kept) ==
  LET prev == Previous(b.ch, 0, kept, start + b.bol, last)
      m == Match(b.ch, kept, prev.q, prev.last)
  IN  FindAction(b, chars, strs, 0, m, m)

\* Mutant: yywrap answers that there is more.
EndOfFileWraps(b, chars, bp) ==
  /\ buf' = b /\ n' = chars /\ c' = bp /\ text' = bp /\ mode' = "token"
  /\ UNCHANGED <<out, saved, held, start, last, streams>>

\* EOB_ACT_END_OF_FILE: the rule for <<EOF>> deletes an included file's buffer and
\* goes on with the one below it; below the last one the scan is over.
EndOfFile(b, chars, bp) ==
  /\ out' = Append(out, <<0, 0, b.line>>)
  /\ IF saved = <<>>
     THEN mode' = "done" /\ buf' = b /\ n' = chars /\ c' = bp /\ text' = bp /\ UNCHANGED <<saved, held>>
     ELSE mode' = "token" /\ buf' = Last(saved) /\ Load(buf') /\ saved' = Front(saved)
  /\ UNCHANGED <<start, last, streams>>

\* yy_get_next_buffer on a string: there is nothing more.
NoRefill ==
  /\ mode = "eob" /\ c > Chars /\ ~buf.fill
  /\ IF c - text = 1 THEN EndOfFile(AtEob, Chars, text) ELSE LastMatch(AtEob, Chars, streams, text)
  /\ UNCHANGED input

\* The buffer's size, doubled while no room is left in it, and how much to read:
\* both unsigned, so that less than no room would be plenty.
RECURSIVE Grown(_, _)
Grown(size, kept) == IF size - kept - 1 = 0 THEN Grown(2 * size, kept) ELSE size

ToRead(size, kept) ==
  IF size - kept - 1 \in 0 .. YY_READ_BUF_SIZE THEN size - kept - 1 ELSE YY_READ_BUF_SIZE

\* Characters stored from an offset on; beyond the memory they make it longer.
Put(ch, at, s) == SubSeq(ch, 1, at) \o s \o SubSeq(ch, at + Len(s) + 1, Len(ch))

\* yy_get_next_buffer on a file: the text so far moves to the start of the buffer,
\* and fread fills what there is room for, but not after it has met the end.
Refill ==
  /\ mode = "eob" /\ c > Chars /\ buf.fill
  /\ LET pending == buf.status = "EOF_PENDING"
         kept == c - text - 1
         size == IF pending THEN buf.size ELSE Grown(buf.size, kept)
         unread == streams[buf.stream]
         got == IF pending THEN <<>> ELSE SubSeq(unread, 1, Min({Len(unread), ToRead(size, kept)}))
         moved == Put(AtEob.ch \o [i \in 1 .. size - buf.size |-> EOB], 0,
                      SubSeq(AtEob.ch, text + 1, text + kept))
         b == [AtEob EXCEPT !.size = size, !.n = Len(got), !.ch = Put(moved, kept, got \o <<EOB, EOB>>)]
         strs == [streams EXCEPT ![buf.stream] = SubSeq(@, Len(got) + 1, Len(@))]
     IN  IF got # <<>> THEN ContinueScan(b, Len(got) + kept, strs, kept)
         ELSE IF kept = 0 THEN EndOfFile(Flushed(b), 0, 0)
         ELSE LastMatch([b EXCEPT !.status = "EOF_PENDING"], kept, strs, 0)
  /\ UNCHANGED input

Terminated == mode = "done" /\ UNCHANGED vars

Next == Token \/ RealNul \/ NoRefill \/ Refill \/ Terminated

\* Weak fairness of Next, with what ENABLED <<Next>>_vars amounts to spelled out.
Fairness == []<>~(mode \in {"token", "eob"}) \/ []<><<Next>>_vars

Spec == Init /\ [][Next]_vars /\ Fairness

-----------------------------------------------------------------------------
\* Properties

\* The longest text from position i on that a rule matches: <<rule, length>>.
Longest(s, i, q) ==
  LET step(m, k) ==
        IF m.q = JAM THEN m
        ELSE LET next == Delta[m.q, IF k = EOB THEN 1 ELSE k]
             IN  IF next = JAM THEN [m EXCEPT !.q = JAM]
                 ELSE [q |-> next, len |-> m.len + 1,
                       best |-> IF Accept(next) = 0 THEN m.best
                                ELSE <<Accept(next), IF Accept(next) = 40 THEN m.len ELSE m.len + 1>>]
  IN  FoldLeft(step, [q |-> q, len |-> 0, best |-> <<0, 0>>], SubSeq(s, i, Len(s))).best

\* A text without buffers: rule by rule, the included text at its place.  The answer
\* is what was matched and the start condition at the end.
RECURSIVE Scanned(_, _, _, _, _)
Scanned(s, i, cond, line, done) ==
  IF i > Len(s) THEN [out |-> Append(done, <<0, 0, line>>), cond |-> cond]
  ELSE LET m == Longest(s, i, cond + (IF i = 1 \/ s[i - 1] = NL THEN 1 ELSE 0))
           l == line + Newlines(s, i - 1, i - 1 + m[2])
           after == CASE m[1] = 1 -> IN_COMMENT [] m[1] = 5 -> IN_STRING [] m[1] = 16 -> IN_INCLUDE
                      [] m[1] \in {2, 15, 20} -> INITIAL [] OTHER -> cond
           now == Append(done, <<m[1], m[2], l>>)
           sub == Scanned(Included, 1, INITIAL, 1, now)
       IN  IF m[1] = 20 THEN Scanned(s, i + m[2], sub.cond, l, sub.out)
           ELSE Scanned(s, i + m[2], after, l, now)

\* The text stays inside its buffer with both end-of-buffer characters behind it, none of
\* which is missed, and yy_get_next_buffer never has to extend the array (scanner.c:1396-1460).
TextInBuffer ==
  /\ Len(buf.ch) = buf.size + 2
  /\ 0 <= text /\ text <= c /\ c <= Chars + 1 /\ Chars <= buf.size
  /\ mode # "done" =>
       LET ch == [buf.ch EXCEPT ![c + 1] = held] IN ch[Chars + 1] = EOB /\ ch[Chars + 2] = EOB

\* What is read and not yet matched, with what is not yet read, is the rest of the
\* input: no character is lost or read twice (scanner.c:1393-1448).
NothingLost ==
  mode = "token" /\ (\A i \in DOMAIN out : out[i][1] # 20) =>
    LET matched == FoldLeft(LAMBDA sum, o : sum + o[2], 0, out)
        ch == [buf.ch EXCEPT ![c + 1] = held]
    IN  SubSeq(ch, c + 1, Chars) \o (IF streams = <<>> THEN <<>> ELSE streams[1])
          = SubSeq(input, matched + 1, Len(input))

\* However the input is cut into buffers, and wherever NULs and the end fall, each
\* rule matches the longest text it can and the lines are counted right: the scan
\* is that of the whole text, and no character is lost, read twice or put beyond
\* the buffer's end on the way (scanner.c:895-950, 1228-1349, 1366-1558).
LongestMatchOfTheWhole ==
  /\ mode = "done" => out = Scanned(input, 1, INITIAL, 1, <<>>).out
  /\ TextInBuffer /\ NothingLost

\* Every scan ends, and a number in one of the forms that __config_write_value
\* prints is a single token, of the rule of its own type (libconfig.c:173-240,
\* scanner.c:1134-1160, 1366-1497).
WrittenScansAsItsType ==
  <>(mode = "done" /\ \A f \in Written : f.text = input => out = <<<<f.rule, Len(input), 1>>, <<0, 0, 1>>>>)
=============================================================================
