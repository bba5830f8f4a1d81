------------------------------ MODULE SerFrame ------------------------------
(***************************************************************************)
(* The frames of the serial protocol: how a packet is built, how received  *)
(* bytes are put together again, and what the command handlers answer.     *)
(* A frame is a sequence of bytes:                                         *)
(*    '@' '>' length checksum sn command data ...                          *)
(* Texts that handlers answer with are shortened to one byte.              *)
(***************************************************************************)
EXTENDS Integers, Sequences, SequencesExt

CONSTANT XorOf(_, _)      \* exclusive or of two bytes

Byte == 0 .. 255
MacHead == <<64, 62>>
HdrLen == 6
ReplyMask == 128
CheckAt == 4
SnAt == 5
CmdAt == 6

ErrOk == 0
ErrNoMem == 5

-----------------------------------------------------------------------------
(* _ser_calc_checksum over the first len bytes; what is in the checksum's  *)
(* own place goes in twice, and so not at all.                             *)
CalcChecksum(pkt, len) == XorOf(FoldLeft(XorOf, 0, SubSeq(pkt, 1, len)), pkt[CheckAt])

\* _build_pkt: the length is one byte; the checksum starts from whatever was there.
BuildPkt(cmd, sn, data) ==
    LET len == (HdrLen + Len(data)) % 256
        raw == MacHead \o <<len, 0, sn, cmd>> \o data
    IN  [raw EXCEPT ![CheckAt] = CalcChecksum(raw, len)]

\* _mac_parse, of a packet as long as its length says.
MacParse(pkt) == SubSeq(pkt, 1, 2) = MacHead /\ CalcChecksum(pkt, Len(pkt)) = pkt[CheckAt]

IsReply(pkt) == pkt[CmdAt] >= ReplyMask
PktData(pkt) == SubSeq(pkt, HdrLen + 1, Len(pkt))

-----------------------------------------------------------------------------
(* ser_cmd_rcv keeps, from byte to byte, the place i of the next byte and   *)
(* the bytes of the frame so far.                                           *)

Unsynced == [i |-> 0, len |-> 0, got |-> <<>>]

\* One byte more.  A byte that does not fit the head is dropped, whatever it
\* is; a length too short, or no memory for the frame, drops the head.
Feed(p, ch, memory) ==
    IF p.i <= 1 THEN IF ch = MacHead[p.i + 1] THEN [p EXCEPT !.i = @ + 1, !.got = Append(@, ch)] ELSE Unsynced
    ELSE IF p.i = 2 THEN IF ch < HdrLen \/ ~memory THEN Unsynced
                         ELSE [i |-> 3, len |-> ch, got |-> Append(p.got, ch)]
    ELSE [p EXCEPT !.i = @ + 1, !.got = Append(@, ch)]

\* The frame has a buffer once its length is known, and is whole in the end.
HasBuffer(p) == p.i >= 3
Complete(p) == p.i >= 3 /\ p.i = p.len

\* A whole frame that is to be answered, one that is handed over.
IsCommand(p) == Complete(p) /\ MacParse(p.got) /\ ~IsReply(p.got)
IsAnswer(p)  == Complete(p) /\ MacParse(p.got) /\ IsReply(p.got)

-----------------------------------------------------------------------------
(* The table of handlers, ended by an entry for command 0 without function. *)

Handlers == <<1, 2, 97, 127, 0>>
NotImplementedIndex == 4

\* _find_handler: the first entry of that command, the last one included.
FindHandler(cmd) ==
    IF \E i \in 1 .. 5 : Handlers[i] = cmd
    THEN CHOOSE i \in 1 .. 5 : Handlers[i] = cmd
    ELSE NotImplementedIndex

\* ser_cmd_discover, ser_cmd_send_05, ser_cmd_echo_back, ser_cmd_notimplement:
\* what they answer to data.
Answer(index, data) ==
    CASE index = 1 -> <<100>>
      [] index = 2 -> <<5>>
      [] index = 3 -> data
      [] index = 4 -> <<110>>

\* The call of the last entry's function ends the program.
Crashes(pkt) == FindHandler(pkt[CmdAt]) = 5

\* The allocations of an answer: the one that is refused, if one is.
Refusals == {"nothing", "data", "frame"}

(* Mutant: the answer is a command again. *)
ReplyUnmasked(pkt, refused) ==
    CASE refused = "nothing" -> BuildPkt(ErrOk, pkt[SnAt], Answer(FindHandler(pkt[CmdAt]), PktData(pkt)))
      [] refused = "data" -> BuildPkt(ErrNoMem, pkt[SnAt], <<>>)
      [] refused = "frame" -> <<>>

\* ser_cmd_dealcmd and ser_cmd_reply: the answer under the command's own sn;
\* a handler without memory for its data still has an error to report, and
\* without memory for the frame nothing is written.
Reply(pkt, refused) ==
    CASE refused = "nothing" ->
           BuildPkt(ErrOk + ReplyMask, pkt[SnAt], Answer(FindHandler(pkt[CmdAt]), PktData(pkt)))
      [] refused = "data" -> BuildPkt(ErrNoMem + ReplyMask, pkt[SnAt], <<>>)
      [] refused = "frame" -> <<>>

=============================================================================
