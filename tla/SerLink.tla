------------------------------- MODULE SerLink -------------------------------
(***************************************************************************)
(* Two programs on a serial line (SerFrame).  The sender runs two threads: *)
(* one sends a command and polls `replied' for its reply, the other reads  *)
(* the line and leaves replies in `replied_pkt'.  The receiver answers     *)
(* commands.  Neither variable is under a lock.  The line may lose bytes   *)
(* and change them, and the sender may be started anew.                    *)
(***************************************************************************)
EXTENDS SerFrame, FiniteSets

CONSTANTS
    Commands,       \* what the sender may send: a command, its data, and whether the
                    \* caller wants the reply
    Noise,          \* what a changed byte may become
    MaxSends,       \* how many commands are sent
    MaxFaults,      \* how many bytes are lost or changed, allocations refused, writes cut, or
    MaxRestarts     \* starts anew of the sender, and how many these are at most

\* The length of a packet is one byte, and its callers see to it that it is enough.
ASSUME CommandsAssumption ==
    /\ \A c \in Commands : c[1] \in Byte /\ c[2] \in Seq(Byte) /\ HdrLen + Len(c[2]) \in Byte
                          /\ c[3] \in BOOLEAN
    /\ MaxFaults \in Nat

VARIABLES
    spc,            \* the sending thread: "idle", "wait", "clear", "dump", "free", "keep"
    sent,           \* its command, and whether its caller wants the reply
    send_sn,        \* _send_sn, which counts the commands of this run
    got,            \* the reply its caller has
    rpc,            \* the reading thread: "read", or "tell" between its two stores
    parse,          \* where ser_cmd_rcv is in a frame
    buf,            \* the buffer of that frame
    replied, replied_pkt,
    bufs,           \* the buffers of the sender's memory, by address
    freed,          \* a freed buffer was used or freed again
    devParse,       \* ser_cmd_rcv in the receiver
    devUp,          \* the receiver runs
    toDevice, toSender,     \* the bytes on the line
    faults, restarts, sends,
    inStep          \* the line was quiet when the command was sent, and nothing has gone
                    \* wrong since

senderVars == <<spc, sent, send_sn, got>>
readerVars == <<rpc, parse, buf, replied_pkt>>
lineVars == <<toDevice, toSender>>
bounds == <<faults, restarts, sends, inStep>>
vars == <<senderVars, readerVars, replied, bufs, freed, devParse, devUp, lineVars, bounds>>

None == 0
NoCommand == [frame |-> <<>>, keep |-> FALSE]

Init ==
    /\ spc = "idle" /\ sent = NoCommand /\ send_sn = 0 /\ got = None
    /\ rpc = "read" /\ parse = Unsynced /\ buf = None
    /\ replied = FALSE /\ replied_pkt = None
    /\ bufs = <<>> /\ freed = FALSE
    /\ devParse = Unsynced /\ devUp = TRUE
    /\ toDevice = <<>> /\ toSender = <<>>
    /\ faults = 0 /\ restarts = 0 /\ sends = 0 /\ inStep = TRUE

\* Things that may go wrong, one fault each, as far as the bound lets them.
Faults(n) ==
    /\ faults + n <= MaxFaults
    /\ faults' = faults + n /\ inStep' = (inStep /\ n = 0)
One(happens) == IF happens THEN 1 ELSE 0

With(b, bytes) == [x \in DOMAIN bufs \cup {b} |-> IF x = b THEN bytes ELSE bufs[x]]
Without(b) == [x \in DOMAIN bufs \ {b} |-> bufs[x]]
FreshBuffer == CHOOSE b \in 1 .. Cardinality(DOMAIN bufs) + 1 : b \notin DOMAIN bufs

-----------------------------------------------------------------------------
(* The sending thread: ser_cmd_send, ser_hal_rcvreply. *)

\* Nothing is on the line, and nobody is in the middle of a frame or of a reply.
Quiet ==
    /\ toDevice = <<>> /\ toSender = <<>> /\ devParse = Unsynced /\ parse = Unsynced
    /\ rpc = "read" /\ ~replied

\* The frame is written at once; of a write that is cut short the rest is flushed.
Send(command, data, keep, written) ==
    LET frame == BuildPkt(command, send_sn, data)
    IN  /\ spc = "idle" /\ sends < MaxSends
        /\ written <= Len(frame)
        /\ faults + One(written < Len(frame)) <= MaxFaults
        /\ faults' = faults + One(written < Len(frame))
        /\ inStep' = (Quiet /\ written = Len(frame))
        /\ sent' = [frame |-> frame, keep |-> keep]
        /\ send_sn' = (send_sn + 1) % 256
        /\ toDevice' = toDevice \o SubSeq(frame, 1, written)
        /\ spc' = "wait"
        /\ sends' = sends + 1
        /\ UNCHANGED <<got, readerVars, replied, bufs, freed, devParse, devUp, toSender, restarts>>

\* The poll sees the flag, whatever its timeout and sn are.
SeeReplied ==
    /\ spc = "wait" /\ replied
    /\ spc' = "clear"
    /\ UNCHANGED <<sent, send_sn, got, readerVars, replied, bufs, freed, devParse, devUp, lineVars, bounds>>

(* Mutant: the flag stays up. *)
LeaveReplied ==
    /\ spc = "clear"
    /\ spc' = "dump"
    /\ UNCHANGED <<sent, send_sn, got, readerVars, replied, bufs, freed, devParse, devUp, lineVars, bounds>>

ClearReplied ==
    /\ spc = "clear"
    /\ replied' = FALSE
    /\ spc' = "dump"
    /\ UNCHANGED <<sent, send_sn, got, readerVars, bufs, freed, devParse, devUp, lineVars, bounds>>

\* replied_pkt is read here, and again for the free or the caller.
DumpReply ==
    /\ spc = "dump"
    /\ freed' = (freed \/ replied_pkt \notin DOMAIN bufs)
    /\ spc' = "free"
    /\ UNCHANGED <<sent, send_sn, got, readerVars, replied, bufs, devParse, devUp, lineVars, bounds>>

FreeReply ==
    /\ spc = "free" /\ ~sent.keep
    /\ freed' = (freed \/ replied_pkt \notin DOMAIN bufs)
    /\ bufs' = Without(replied_pkt)
    /\ spc' = "idle"
    /\ UNCHANGED <<sent, send_sn, got, readerVars, replied, devParse, devUp, lineVars, bounds>>

KeepReply ==
    /\ spc = "free" /\ sent.keep
    /\ got' = replied_pkt
    /\ spc' = "keep"
    /\ UNCHANGED <<sent, send_sn, readerVars, replied, bufs, freed, devParse, devUp, lineVars, bounds>>

\* PKT_FREE by the caller that has it.
CallerFrees ==
    /\ spc = "keep"
    /\ freed' = (freed \/ got \notin DOMAIN bufs)
    /\ bufs' = Without(got)
    /\ got' = None /\ spc' = "idle"
    /\ UNCHANGED <<sent, send_sn, readerVars, replied, devParse, devUp, lineVars, bounds>>

-----------------------------------------------------------------------------
(* Both programs run ser_cmd_rcv, and answer a command in it.              *)

\* The answer is written at once; of a write that is cut short the rest is flushed.
WriteAnswer(pkt, line) ==
    \E refused \in Refusals : \E written \in 0 .. Len(Reply(pkt, refused)) :
      /\ Faults(One(refused # "nothing") + One(written < Len(Reply(pkt, refused))))
      /\ line' = line \o SubSeq(Reply(pkt, refused), 1, written)

(* The reading thread: ser_cmd_rcv, ser_hal_tellsend. *)

\* A byte inside a frame, or one that drops it: the buffer is allocated when
\* the length comes, if there is memory.
ReaderReads(memory) ==
    LET p == Feed(parse, Head(toSender), memory)
    IN  /\ rpc = "read" /\ toSender # <<>> /\ ~Complete(p)
        /\ ~memory => parse.i = 2
        /\ Faults(One(~memory))
        /\ parse' = p
        /\ IF HasBuffer(p) /\ ~HasBuffer(parse)
           THEN buf' = FreshBuffer /\ bufs' = With(FreshBuffer, p.got)
           ELSE UNCHANGED <<buf, bufs>>
        /\ toSender' = Tail(toSender)
        /\ UNCHANGED <<senderVars, rpc, replied, replied_pkt, freed, devParse, devUp, toDevice, restarts, sends>>

\* The last byte of a frame: a bad one is freed, a reply is told to the
\* sending thread in two stores, a command is answered and freed.
ReaderEnds ==
    LET p == Feed(parse, Head(toSender), TRUE)
    IN  /\ rpc = "read" /\ toSender # <<>> /\ Complete(p)
        /\ IsCommand(p) => ~Crashes(p.got)
        /\ parse' = Unsynced /\ buf' = None
        /\ IF IsAnswer(p)
           THEN /\ bufs' = [bufs EXCEPT ![buf] = p.got]
                /\ replied_pkt' = buf /\ rpc' = "tell"
           ELSE bufs' = Without(buf) /\ UNCHANGED <<replied_pkt, rpc>>
        /\ IF IsCommand(p) THEN WriteAnswer(p.got, toDevice) ELSE UNCHANGED <<toDevice, faults, inStep>>
        /\ toSender' = Tail(toSender)
        /\ UNCHANGED <<senderVars, replied, freed, devParse, devUp, restarts, sends>>

ReaderTells ==
    /\ rpc = "tell"
    /\ replied' = TRUE
    /\ rpc' = "read"
    /\ UNCHANGED <<senderVars, parse, buf, replied_pkt, bufs, freed, devParse, devUp, lineVars, bounds>>

(* The receiver: a frame it takes for a reply goes to a sending thread it does *)
(* not have.                                                                   *)

DeviceReads(memory) ==
    LET p == Feed(devParse, Head(toDevice), memory)
    IN  /\ devUp /\ toDevice # <<>> /\ ~IsCommand(p)
        /\ ~memory => devParse.i = 2
        /\ Faults(One(~memory))
        /\ devParse' = IF Complete(p) THEN Unsynced ELSE p
        /\ toDevice' = Tail(toDevice)
        /\ UNCHANGED <<senderVars, readerVars, replied, bufs, freed, devUp, toSender, restarts, sends>>

\* The last byte of a command.
DeviceAnswers ==
    LET p == Feed(devParse, Head(toDevice), TRUE)
    IN  /\ devUp /\ toDevice # <<>> /\ IsCommand(p)
        /\ devParse' = Unsynced
        /\ devUp' = ~Crashes(p.got)
        /\ IF Crashes(p.got) THEN UNCHANGED <<toSender, faults, inStep>> ELSE WriteAnswer(p.got, toSender)
        /\ toDevice' = Tail(toDevice)
        /\ UNCHANGED <<senderVars, readerVars, replied, bufs, freed, restarts, sends>>

-----------------------------------------------------------------------------
(* The line, and the sender's end and new start. *)

LoseByte ==
    /\ Faults(1)
    /\ \/ /\ \E i \in DOMAIN toDevice : toDevice' = RemoveAt(toDevice, i)
          /\ UNCHANGED toSender
       \/ /\ \E i \in DOMAIN toSender : toSender' = RemoveAt(toSender, i)
          /\ UNCHANGED toDevice
    /\ UNCHANGED <<senderVars, readerVars, replied, bufs, freed, devParse, devUp, restarts, sends>>

ChangeByte ==
    /\ Faults(1)
    /\ \/ /\ \E i \in DOMAIN toDevice, v \in Noise : toDevice' = [toDevice EXCEPT ![i] = v]
          /\ UNCHANGED toSender
       \/ /\ \E i \in DOMAIN toSender, v \in Noise : toSender' = [toSender EXCEPT ![i] = v]
          /\ UNCHANGED toDevice
    /\ UNCHANGED <<senderVars, readerVars, replied, bufs, freed, devParse, devUp, restarts, sends>>

\* All memory is new; init_serial flushes what has come and was not read.
Restart ==
    /\ restarts < MaxRestarts
    /\ Faults(1)
    /\ spc' = "idle" /\ sent' = NoCommand /\ send_sn' = 0 /\ got' = None
    /\ rpc' = "read" /\ parse' = Unsynced /\ buf' = None
    /\ replied' = FALSE /\ replied_pkt' = None /\ bufs' = <<>>
    /\ toSender' = <<>>
    /\ restarts' = restarts + 1
    /\ UNCHANGED <<freed, devParse, devUp, toDevice, sends>>

-----------------------------------------------------------------------------
Sender == SeeReplied \/ ClearReplied \/ DumpReply \/ FreeReply \/ KeepReply \/ CallerFrees
Reader == (\E memory \in BOOLEAN : ReaderReads(memory)) \/ ReaderEnds \/ ReaderTells
Device == (\E memory \in BOOLEAN : DeviceReads(memory)) \/ DeviceAnswers

Next ==
    \/ \E c \in Commands : \E written \in 0 .. HdrLen + Len(c[2]) : Send(c[1], c[2], c[3], written)
    \/ Sender \/ Reader \/ Device
    \/ LoseByte \/ ChangeByte \/ Restart

Spec == Init /\ [][Next]_vars

\* The threads and the receiver go on when they can; select and the poll wake up.
FairSpec == Spec /\ WF_vars(Sender) /\ WF_vars(Reader) /\ WF_vars(Device)

-----------------------------------------------------------------------------
(* Correctness. *)

\* Who is to free buffer b: the reading thread, the reply in the mailbox, the caller.
Owners(b) ==
    {o \in {"reader", "mailbox", "caller"} :
        CASE o = "reader" -> buf = b
          [] o = "mailbox" -> replied_pkt = b /\ (rpc = "tell" \/ replied \/ spc \in {"clear", "dump", "free"})
          [] o = "caller" -> got = b}

\* The reading thread tells a reply only to a sending thread that waits for one
\* and has not been told yet.
OneReplyAtATime == restarts = 0 /\ rpc = "tell" => spc = "wait" /\ ~replied

(***************************************************************************)
(* The hand-over of replies without a lock: every buffer has one owner at  *)
(* every time, none is lost, used after it was freed or freed twice, until *)
(* the sender is started anew: then a late reply may come on top of        *)
(* another.  The hand-over needs OneReplyAtATime, and leaves it to the     *)
(* line: one lost byte breaks it for an echo of two whole commands, which  *)
(* the receiver then answers one by one.                                   *)
(* (ser_hal.c:136-143, 148-165.)                                           *)
(***************************************************************************)
RepliesHandedOver ==
    /\ OneReplyAtATime
    /\ restarts = 0 => /\ ~freed
                       /\ \A b \in DOMAIN bufs : Cardinality(Owners(b)) = 1

\* The reply that the sending thread has is the answer of the command's handler.
IsAnswered == bufs[replied_pkt] = Reply(sent.frame, "nothing")

\* What comes of the other commands: that of the table's last entry ends the receiver,
\* and one that the receiver takes for a reply is never answered.
Unanswered ==
    /\ spc = "wait" /\ Quiet
    /\ (FindHandler(sent.frame[CmdAt]) = 5 /\ ~devUp) \/ IsReply(sent.frame)

(***************************************************************************)
(* Every command that is written whole while the line is in step comes     *)
(* back answered by its handler to its own sender, whatever went wrong     *)
(* before, unless something goes wrong before the answer is there: then    *)
(* the sender may wait for ever, as the timeout of ser_hal_rcvreply        *)
(* (ser_hal.c:148) is not used.  Command 0, the discover of README:15,     *)
(* ends the receiver instead, and a command of 128 and more is never       *)
(* answered (ser_cmd.c:69-82, 221, 262, 276).                              *)
(***************************************************************************)
CommandsAreAnswered ==
    /\ [](inStep /\ spc = "dump" => IsAnswered)
    /\ (inStep /\ devUp /\ spc = "wait") ~> (~inStep \/ spc = "dump" \/ Unanswered)

(***************************************************************************)
(* "check sn, and tell send" (ser_cmd.c:223): the sending thread is told   *)
(* of the reply with the sn of its command.                                *)
(***************************************************************************)
ReplyIsOwn ==
    spc = "dump" => bufs[replied_pkt][SnAt] = sent.frame[SnAt]

=============================================================================
