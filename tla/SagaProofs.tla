----------------------------- MODULE SagaProofs -----------------------------
(***************************************************************************)
(* Proofs about Saga, for any number of purchases and items and any size   *)
(* of the queue.                                                           *)
(*                                                                         *)
(* A purchase goes on as long as something has it: placeOrder, an event in *)
(* the queue, or a loop with an event in hand.  The inductive invariant    *)
(* says how far the databases are for each of these places, and that no    *)
(* two of them have the same purchase; but for deductStock, which puts its *)
(* event before it commits, so that another loop finishes the purchase     *)
(* while the commit, or what follows from its failure, is under way.       *)
(***************************************************************************)
EXTENDS Saga, FiniteSetTheorems, SequenceTheorems, TLAPS

InQueue(e) == \E i \in 1 .. Len(queue) : queue[i] = e

(* What the place of an event says of its purchase. *)
EventKind(e) ==
  IF ~e.succeed THEN "failing" ELSE IF e.name = "DEDUCT_STOCK" THEN "late" ELSE "early"

LoopKind(c) ==
  IF loc[c] = "commitDeduct" THEN "committing"
  ELSE IF loc[c] = "putDeducted" THEN "early" ELSE EventKind(hand[c])

Starting(s) == pc[s] \in {"insertSaga", "startLoop", "putInit"}

(* Two places may have s only if one is about to finish what the other has *)
(* not committed yet, or failed to commit.                                 *)
LateAnd(l, s) == l = "committing" \/ (l = "failing" /\ <<"commit", s>> \in fault)
Together(k, l, s) == (k = "late" /\ LateAnd(l, s)) \/ (l = "late" /\ LateAnd(k, s))

QueueApart ==
  \A i, j \in 1 .. Len(queue) : i # j /\ queue[i].saga = queue[j].saga =>
    Together(EventKind(queue[i]), EventKind(queue[j]), queue[i].saga)

QueueAndLoopsApart ==
  \A i \in 1 .. Len(queue), c \in Sagas : Held(c, queue[i].saga) =>
    Together(EventKind(queue[i]), LoopKind(c), queue[i].saga)

LoopsApart ==
  \A c, d \in Sagas : c # d /\ hand[c] # NoEvent /\ Held(d, hand[c].saga) =>
    Together(LoopKind(c), LoopKind(d), hand[c].saga)

StartApart ==
  \A s \in Sagas : Starting(s) =>
    /\ \A e \in Events : InQueue(e) => e.saga # s
    /\ \A c \in Sagas : ~Held(c, s)

Apart == QueueApart /\ QueueAndLoopsApart /\ LoopsApart /\ StartApart

-----------------------------------------------------------------------------
(* Control: which events there are, and where a loop can be with one. *)
EventShape(e) == e.name = "INIT" => e.succeed

LoopShape(c) ==
  /\ loc[c] \in {"off", "take"} <=> hand[c] = NoEvent
  /\ hand[c] # NoEvent => EventShape(hand[c])
  /\ loc[c] = "updateLog" => hand[c].succeed /\ hand[c].name # "INIT"
  /\ loc[c] = "insertLog" => EventKind(hand[c]) = "early"
  /\ loc[c] = "createOrder" => hand[c].name = "INIT"
  /\ loc[c] = "deductStock" => hand[c].succeed /\ hand[c].name = "CREATE_ORDER"
  /\ loc[c] \in {"putDeducted", "commitDeduct"} => EventKind(hand[c]) = "late"
  /\ loc[c] = "putEvent" => EventKind(hand[c]) # "late" /\ hand[c].name # "INIT"
  /\ loc[c] \in {"selectLog", "compensate", "logCanceled"} => ~hand[c].succeed
  /\ loc[c] \in {"compensate", "logCanceled"} =>
       todo[c] \in {<<"DEDUCT_STOCK", "CREATE_ORDER">>, <<"CREATE_ORDER">>, <<"DEDUCT_STOCK">>}
  /\ loc[c] = "updateSaga" => EventKind(hand[c]) # "early"

(* A loop of its own for every purchase that is in the queue or in a hand. *)
OwnLoop ==
  /\ \A s \in Sagas : /\ pc[s] \in {"insertSaga", "startLoop", "abandoned"} => loc[s] = "off"
                      /\ pc[s] = "putInit" => loc[s] # "off"
  /\ \A c \in Sagas : hand[c] # NoEvent => loc[hand[c].saga] # "off"

Control ==
  /\ \A e \in Events : InQueue(e) => EventShape(e) /\ loc[e.saga] # "off"
  /\ \A c \in Sagas : LoopShape(c)
  /\ OwnLoop

-----------------------------------------------------------------------------
(* How far the databases are. *)

(* Nothing is reserved, nothing canceled; the order is there after INIT. *)
UnderWay(s, name) ==
  /\ reserve[s] = NoRow /\ sagaStatus[s] \in {"NONE", "INIT"}
  /\ log[s]["CREATE_ORDER"] # "CANCELED" /\ log[s]["DEDUCT_STOCK"] # "CANCELED"
  /\ order[s] = IF name = "INIT" THEN "NONE" ELSE "NORMAL"

(* A step failed, and nothing is undone yet. *)
ToUndo(s) ==
  /\ reserve[s] = NoRow /\ sagaStatus[s] # "CANCELED"
  /\ log[s]["CREATE_ORDER"] # "CANCELED" /\ log[s]["DEDUCT_STOCK"] # "CANCELED"

Bought(s) ==
  \/ <<"commit", s>> \in fault
  \/ /\ order[s] = "NORMAL"
     /\ \/ reserve[s] = Row(Count[s], "NORMAL")
        \/ \E c \in Sagas : loc[c] = "commitDeduct" /\ hand[c].saga = s

(* No order is left, or none that the log knows of. *)
OrderGone(s) == order[s] # "NORMAL" \/ log[s]["CREATE_ORDER"] = "NONE"

StockGone(s) ==
  reserve[s].status = "CANCELED" \/ (reserve[s] = NoRow /\ log[s]["DEDUCT_STOCK"] = "NONE")

EventOK(e) ==
  /\ EventKind(e) = "early" => UnderWay(e.saga, e.name)
  /\ EventKind(e) = "failing" => ToUndo(e.saga)
  /\ EventKind(e) = "late" => Bought(e.saga)

(* In the middle of the compensations: the first of todo is the next one, *)
(* or the one whose log is to be written.                                 *)
UndoOK(c) == LET s == hand[c].saga IN
  /\ sagaStatus[s] # "CANCELED" /\ reserve[s].status # "NORMAL"
  /\ IF todo[c] = <<"DEDUCT_STOCK">> THEN log[s]["CREATE_ORDER"] = "NONE"
     ELSE log[s]["CREATE_ORDER"] # "NONE"
  /\ IF todo[c] = <<"CREATE_ORDER">>
     THEN StockGone(s) /\ (loc[c] = "logCanceled" => order[s] # "NORMAL")
     ELSE /\ log[s]["DEDUCT_STOCK"] # "NONE"
          /\ IF loc[c] = "compensate" THEN reserve[s] = NoRow ELSE reserve[s].status = "CANCELED"

LoopOK(c) == LET s == hand[c].saga IN
  /\ loc[c] \in {"updateLog", "insertLog", "createOrder", "deductStock", "putEvent", "selectLog"}
       => EventOK(hand[c])
  /\ loc[c] = "createOrder" /\ <<"call", s>> \notin fault => log[s]["CREATE_ORDER"] # "NONE"
  /\ loc[c] = "putDeducted" => UnderWay(s, hand[c].name)
  /\ loc[c] = "commitDeduct" =>
       /\ reserve[s] = NoRow /\ order[s] = "NORMAL" /\ sagaStatus[s] # "CANCELED"
       /\ log[s]["CREATE_ORDER"] # "CANCELED" /\ log[s]["DEDUCT_STOCK"] # "CANCELED"
  /\ loc[c] \in {"compensate", "logCanceled"} => UndoOK(c)
  /\ loc[c] = "updateSaga" /\ ~hand[c].succeed =>
       sagaStatus[s] # "CANCELED" /\ reserve[s].status # "NORMAL" /\ OrderGone(s)
  /\ loc[c] = "updateSaga" /\ hand[c].succeed => Bought(s)

SagaOK(s) ==
  /\ Starting(s) => UnderWay(s, "INIT")
  /\ order[s] = "NONE" => log[s]["DEDUCT_STOCK"] = "NONE"
  /\ sagaStatus[s] = "FINISHED" => Bought(s)
  /\ sagaStatus[s] = "CANCELED" => reserve[s].status # "NORMAL" /\ OrderGone(s)
  /\ <<"call", s>> \notin fault =>
       /\ order[s] # "NONE" => log[s]["CREATE_ORDER"] # "NONE"
       /\ pc[s] # "abandoned"
       /\ pc[s] # "insertSaga" => sagaStatus[s] # "NONE"

Databases ==
  /\ \A e \in Events : InQueue(e) => EventOK(e)
  /\ \A c \in Sagas : LoopOK(c)
  /\ \A s \in Sagas : SagaOK(s)

(* A purchase without failures gets on, or is over. *)
GoesOn == \A s \in Sagas :
  /\ pc[s] = "returned" /\ ItemOf[s] \in Items
  /\ <<"call", s>> \notin fault /\ <<"commit", s>> \notin fault
  => \/ sagaStatus[s] \in {"FINISHED", "CANCELED"}
     \/ \E e \in Events : InQueue(e) /\ e.saga = s
     \/ \E c \in Sagas : Held(c, s) /\ loc[c] # "commitDeduct"

(* The row of an item belongs to one deductStock, which has found enough. *)
Locking(c) == loc[c] \in {"putDeducted", "commitDeduct"}
Locks ==
  /\ \A c \in Sagas : Locking(c) => LET s == hand[c].saga IN
       Count[s] >= 0 /\ ItemOf[s] \in Items /\ stock[ItemOf[s]] >= Count[s]
  /\ \A c, d \in Sagas :
       c # d /\ Locking(c) /\ Locking(d) => ItemOf[hand[c].saga] # ItemOf[hand[d].saga]

IInv == TypeOK /\ Control /\ Apart /\ Databases /\ GoesOn /\ Locks

-----------------------------------------------------------------------------
(* The initial state. *)

LEMMA InitIInv == Init => IInv
<1> SUFFICES ASSUME Init PROVE IInv
  OBVIOUS
<1> USE DEF Init, StoreInit, NoRow, Row
<1>1. TypeOK
  <2>1. StoreTypeOK
    BY SagaStoreAssumption DEF StoreTypeOK, Steps
  <2> QED
    BY <2>1, QueueAssumption DEF TypeOK, Location
<1>2. \A e \in Events : ~InQueue(e)
  BY DEF InQueue
<1>3. Control
  BY <1>2, NoEventAssumption DEF Control, LoopShape, OwnLoop
<1>4. Apart
  BY <1>2 DEF Apart, QueueApart, QueueAndLoopsApart, LoopsApart, StartApart, Held
<1>5. Databases
  BY <1>2 DEF Databases, LoopOK, SagaOK, UnderWay, Steps
<1>6. GoesOn /\ Locks
  BY DEF GoesOn, Locks, Locking
<1> QED
  BY <1>1, <1>3, <1>4, <1>5, <1>6 DEF IInv

-----------------------------------------------------------------------------
(* Types *)

LEMMA EventsType ==
  \A e \in Events : /\ e.saga \in Sagas /\ e.succeed \in BOOLEAN /\ e # NoEvent
                    /\ e.name \in {"INIT", "CREATE_ORDER", "DEDUCT_STOCK"}
BY NoEventAssumption DEF Events, Steps

LEMMA EventMade ==
  ASSUME NEW s \in Sagas, NEW n \in {"INIT", "CREATE_ORDER", "DEDUCT_STOCK"}, NEW b \in BOOLEAN
  PROVE  /\ Event(s, n, b) \in Events /\ Event(s, n, b) # NoEvent
         /\ Event(s, n, b).saga = s /\ Event(s, n, b).name = n /\ Event(s, n, b).succeed = b
BY NoEventAssumption DEF Event, Events, Steps

(* A loop that is anywhere but at take has an event. *)
LEMMA HandType ==
  ASSUME TypeOK, Control, NEW c \in Sagas, loc[c] \notin {"off", "take"}
  PROVE  hand[c] \in Events /\ hand[c] # NoEvent /\ hand[c].saga \in Sagas /\ Held(c, hand[c].saga)
BY EventsType DEF TypeOK, Control, LoopShape, Held

-----------------------------------------------------------------------------
(***************************************************************************)
(* Most steps of a loop move only its own event, or drop it, and change    *)
(* the rows of that purchase only.                                         *)
(***************************************************************************)
SameRows(u) ==
  /\ order'[u] = order[u] /\ reserve'[u] = reserve[u]
  /\ sagaStatus'[u] = sagaStatus[u] /\ log'[u] = log[u]
  /\ \A kind \in {"call", "commit"} : <<kind, u>> \in fault' <=> <<kind, u>> \in fault

LocalStep(c) == LET s == hand[c].saga IN
  /\ loc[c] \notin {"off", "take"} /\ loc'[c] \notin {"off", "commitDeduct"}
  /\ queue' = queue /\ pc' = pc
  /\ hand'[c] = NoEvent \/ (hand'[c] \in Events /\ hand'[c].saga = s)
  /\ \A d \in Sagas : d # c => loc'[d] = loc[d] /\ hand'[d] = hand[d] /\ todo'[d] = todo[d]
  /\ \A u \in Sagas : u # s => SameRows(u)
  /\ fault \subseteq fault'

(* What another place that has the purchase leaves of the event's kinds. *)
KindStep(c) == LET s == hand[c].saga IN
  hand'[c] # NoEvent =>
    \/ LoopKind(c) = "early" \/ LoopKind(c)' = LoopKind(c)
    \/ LoopKind(c) = "committing" /\ LoopKind(c)' = "failing" /\ <<"commit", s>> \in fault'

LEMMA LocalControl ==
  ASSUME IInv, NEW c \in Sagas, LocalStep(c), LoopShape(c)'
  PROVE  Control'
<1>1. \A d \in Sagas : LoopShape(d)'
  <2>1. ASSUME NEW d \in Sagas, d # c PROVE LoopShape(d)'
    BY <2>1 DEF IInv, Control, LoopShape, LocalStep, EventShape, EventKind
  <2> QED
    BY <2>1
<1>2. \A d \in Sagas : loc'[d] = "off" <=> loc[d] = "off"
  BY DEF LocalStep
<1>3. hand[c] \in Events /\ hand[c] # NoEvent /\ hand[c].saga \in Sagas
  BY HandType DEF IInv, LocalStep
<1>4. \A d \in Sagas : hand'[d] # NoEvent => hand[d] # NoEvent /\ hand'[d].saga = hand[d].saga
  BY <1>3 DEF LocalStep
<1>5. \A d \in Sagas : hand[d] # NoEvent => hand[d].saga \in Sagas
  BY EventsType DEF IInv, TypeOK
<1>6. OwnLoop'
  BY <1>2, <1>4, <1>5 DEF IInv, Control, OwnLoop, LocalStep
<1>7. \A e \in Events : InQueue(e)' => EventShape(e) /\ loc'[e.saga] # "off"
  <2>1. \A e \in Events : InQueue(e)' => InQueue(e)
    BY DEF InQueue, LocalStep
  <2> QED
    BY <1>2, <2>1, EventsType DEF IInv, Control
<1> QED
  BY <1>1, <1>6, <1>7 DEF Control, EventShape

(* Where a purchase is early, nothing else has it; where a step of it failed *)
(* or is about to be committed, nothing but a late event has it.             *)
LEMMA OthersAreLate ==
  ASSUME IInv, NEW c \in Sagas, hand[c] # NoEvent
  PROVE  LET s == hand[c].saga IN
         /\ \A e \in Events : InQueue(e) /\ e.saga = s =>
              Together(EventKind(e), LoopKind(c), s)
         /\ \A d \in Sagas : d # c /\ Held(d, s) => Together(LoopKind(d), LoopKind(c), s)
         /\ ~Starting(s)
<1> DEFINE s == hand[c].saga
<1>1. hand[c] \in Events /\ s \in Sagas /\ Held(c, s)
  BY EventsType DEF IInv, TypeOK, Held
<1>2. ASSUME NEW e \in Events, InQueue(e), e.saga = s
      PROVE  Together(EventKind(e), LoopKind(c), s)
  BY <1>1, <1>2 DEF InQueue, IInv, Apart, QueueAndLoopsApart
<1>3. ASSUME NEW d \in Sagas, d # c, Held(d, s)
      PROVE  Together(LoopKind(d), LoopKind(c), s)
  BY <1>1, <1>3 DEF IInv, Apart, LoopsApart, Held
<1>4. ~Starting(s)
  BY <1>1 DEF IInv, Apart, StartApart
<1> QED
  BY <1>2, <1>3, <1>4

LEMMA LocalApart ==
  ASSUME IInv, NEW c \in Sagas, LocalStep(c), KindStep(c)
  PROVE  Apart'
<1>0. hand[c] \in Events /\ hand[c] # NoEvent /\ hand[c].saga \in Sagas
  BY HandType DEF IInv, LocalStep
<1>1. PICK s \in Sagas : s = hand[c].saga /\ hand[c] # NoEvent /\ Held(c, s)
  BY <1>0 DEF Held
<1>2. \A k, l, u : Together(k, l, u) => Together(k, l, u)'
  BY DEF Together, LateAnd, LocalStep
<1>3. \A d \in Sagas : d # c => (LoopKind(d)' = LoopKind(d))
  BY DEF LocalStep, LoopKind, EventKind
<1>4. \A d, u \in Sagas : Held(d, u)' => Held(d, u)
  BY <1>1 DEF Held, LocalStep
<1>5. \A k : Held(c, s)' /\ Together(k, LoopKind(c), s) => Together(k, LoopKind(c), s)'
  <2>1. fault \subseteq fault'
    BY DEF LocalStep
  <2>2. Held(c, s)' => \/ LoopKind(c) = "early" \/ LoopKind(c)' = LoopKind(c)
                       \/ /\ LoopKind(c) = "committing" /\ LoopKind(c)' = "failing"
                          /\ <<"commit", s>> \in fault'
    BY <1>1 DEF KindStep, Held
  <2> QED
    BY <2>1, <2>2 DEF Together, LateAnd
<1>6. \A k, l, u : Together(k, l, u) <=> Together(l, k, u)
  BY DEF Together
<1>7. QueueApart'
  BY <1>2 DEF QueueApart, IInv, Apart, LocalStep, EventKind
<1>8. QueueAndLoopsApart'
  <2> SUFFICES ASSUME NEW i \in 1 .. Len(queue'), NEW d \in Sagas, Held(d, queue[i].saga)'
               PROVE  Together(EventKind(queue[i]), LoopKind(d), queue[i].saga)'
    BY DEF QueueAndLoopsApart
  <2>1. queue' = queue /\ i \in 1 .. Len(queue)
    BY DEF LocalStep
  <2>2. queue[i] \in Events /\ queue[i].saga \in Sagas
    BY <2>1, EventsType DEF IInv, TypeOK
  <2>3. Held(d, queue[i].saga)
    BY <1>4, <2>1, <2>2 DEF Held
  <2>4. Together(EventKind(queue[i]), LoopKind(d), queue[i].saga)
    BY <2>1, <2>3 DEF IInv, Apart, QueueAndLoopsApart
  <2> QED
    BY <1>1, <1>2, <1>3, <1>5, <2>1, <2>3, <2>4 DEF Held, EventKind
<1>9. LoopsApart'
  <2> SUFFICES ASSUME NEW x \in Sagas, NEW d \in Sagas, x # d, NEW u \in Sagas,
                      Held(x, u)', Held(d, u)'
               PROVE  Together(LoopKind(x), LoopKind(d), u)'
    BY EventsType DEF LoopsApart, Held, LocalStep, IInv, TypeOK
  <2>1. Held(x, u) /\ Held(d, u)
    BY <1>4
  <2>2. Together(LoopKind(x), LoopKind(d), u)
    BY <2>1 DEF IInv, Apart, LoopsApart, Held
  <2>3. CASE x # c /\ d # c
    BY <1>2, <1>3, <2>2, <2>3
  <2>4. CASE x = c \/ d = c
    <3>1. u = s
      BY <1>1, <2>1, <2>4 DEF Held
    <3>2. Together(LoopKind(d), LoopKind(x), u)
      BY <1>6, <2>2
    <3>3. CASE d = c
      BY <1>3, <1>5, <2>2, <3>1, <3>3
    <3>4. CASE x = c
      <4>1. Together(LoopKind(d), LoopKind(x), u)'
        BY <1>3, <1>5, <2>4, <3>1, <3>2, <3>4
      <4> QED
        BY <4>1 DEF Together
    <3> QED
      BY <2>4, <3>3, <3>4
  <2> QED
    BY <2>3, <2>4
<1>10. StartApart'
  BY <1>4 DEF StartApart, IInv, Apart, Starting, InQueue, LocalStep
<1> QED
  BY <1>7, <1>8, <1>9, <1>10 DEF Apart

(* The rows, and whether a commit is under way, are all that matters ... *)
LEMMA LocalElsewhere ==
  ASSUME IInv, NEW c \in Sagas, LocalStep(c), NEW u \in Sagas, u # hand[c].saga
  PROVE  /\ \A e \in Events : InQueue(e)' /\ e.saga = u => EventOK(e)'
         /\ \A d \in Sagas : Held(d, u)' => LoopOK(d)'
         /\ SagaOK(u)'
<1>0. hand[c] # NoEvent
  BY HandType DEF IInv, LocalStep
<1> DEFINE Same == /\ order'[u] = order[u] /\ reserve'[u] = reserve[u] /\ sagaStatus'[u] = sagaStatus[u]
                   /\ log'[u] = log[u] /\ pc'[u] = pc[u]
                   /\ <<"call", u>> \in fault' <=> <<"call", u>> \in fault
                   /\ <<"commit", u>> \in fault' <=> <<"commit", u>> \in fault
<1>9. Same
  BY DEF LocalStep, SameRows
<1>1. \A x \in Sagas : (loc'[x] = "commitDeduct" /\ hand'[x].saga = u)
                         <=> (loc[x] = "commitDeduct" /\ hand[x].saga = u)
  BY <1>0 DEF LocalStep, Held
<1>2. Bought(u)' <=> Bought(u)
  BY <1>1, <1>9 DEF Bought
<1>3. \A n : UnderWay(u, n)' <=> UnderWay(u, n)
  BY <1>9 DEF UnderWay
<1>4. ToUndo(u)' <=> ToUndo(u)
  BY <1>9 DEF ToUndo
<1>5. \A e \in Events : e.saga = u /\ EventOK(e) => EventOK(e)'
  BY <1>2, <1>3, <1>4 DEF EventOK
<1>6. \A e \in Events : InQueue(e)' /\ e.saga = u => EventOK(e)'
  BY <1>5 DEF InQueue, IInv, Databases, LocalStep
<1>7. ASSUME NEW d \in Sagas, Held(d, u)' PROVE LoopOK(d)'
  <2>1. d # c /\ hand'[d] = hand[d] /\ loc'[d] = loc[d] /\ todo'[d] = todo[d] /\ hand[d].saga = u
    BY <1>0, <1>7 DEF Held, LocalStep
  <2>2. LoopOK(d) /\ hand[d] \in Events
    BY <1>7, <2>1, EventsType DEF IInv, Databases, TypeOK, Held
  <2>3. EventOK(hand[d]) => EventOK(hand[d])'
    BY <1>2, <1>3, <1>4, <2>1, <2>2 DEF EventOK, EventKind
  <2>4. UndoOK(d) => UndoOK(d)'
    BY <1>9, <2>1 DEF UndoOK, StockGone
  <2> QED
    <3>1. \A n : UnderWay(hand[d].saga, n) => UnderWay(hand[d].saga, n)'
      BY <1>3, <2>1 DEF UnderWay
    <3>2. Bought(hand[d].saga) => Bought(hand[d].saga)'
      BY <1>2, <2>1 DEF Bought
    <3> QED
      BY <1>9, <2>1, <2>2, <2>3, <2>4, <3>1, <3>2 DEF LoopOK, OrderGone
<1>8. SagaOK(u)'
  BY <1>2, <1>3, <1>9 DEF IInv, Databases, SagaOK, Starting, OrderGone
<1> QED
  BY <1>6, <1>7, <1>8

(* ... and of the purchase itself only what the other place relies on. *)
LateEffect(s) ==
  /\ order'[s] = order[s] /\ reserve'[s] = reserve[s]
  /\ log'[s]["CREATE_ORDER"] = log[s]["CREATE_ORDER"]
  /\ \/ log'[s]["DEDUCT_STOCK"] = log[s]["DEDUCT_STOCK"]
     \/ log[s]["DEDUCT_STOCK"] # "NONE" /\ log'[s]["DEDUCT_STOCK"] = "SUCCEED"
  /\ sagaStatus'[s] = sagaStatus[s] \/ sagaStatus'[s] = "FINISHED"

LEMMA LocalOthers ==
  ASSUME IInv, NEW c \in Sagas, LocalStep(c), NEW s \in Sagas, s = hand[c].saga,
         LoopKind(c) \in {"committing", "failing"} => (Bought(s) => Bought(s)'),
         LoopKind(c) = "late" => LateEffect(s)
  PROVE  /\ \A e \in Events : InQueue(e)' /\ e.saga = s => EventOK(e)'
         /\ \A d \in Sagas : d # c /\ Held(d, s)' => LoopOK(d)'
<1>0. hand[c] # NoEvent
  BY HandType DEF IInv, LocalStep
<1>1. ASSUME NEW e \in Events, InQueue(e)', e.saga = s PROVE EventOK(e)'
  <2>1. EventOK(e) /\ Together(EventKind(e), LoopKind(c), s)
    BY <1>0, <1>1, OthersAreLate DEF InQueue, LocalStep, IInv, Databases
  <2>2. CASE LoopKind(c) = "late"
    BY <1>1, <2>1, <2>2 DEF Together, LateAnd, EventOK, LateEffect, ToUndo
  <2>3. CASE LoopKind(c) # "late"
    BY <1>1, <2>1, <2>3 DEF Together, LateAnd, EventOK
  <2> QED
    BY <2>2, <2>3
<1>2. ASSUME NEW d \in Sagas, d # c, Held(d, s)' PROVE LoopOK(d)'
  <2>1. hand'[d] = hand[d] /\ loc'[d] = loc[d] /\ todo'[d] = todo[d] /\ hand[d].saga = s
    BY <1>2 DEF Held, LocalStep
  <2>2. Held(d, s) /\ LoopOK(d) /\ LoopShape(d) /\ hand[d] \in Events
    BY <1>2, <2>1, EventsType DEF IInv, Databases, Control, TypeOK, Held
  <2>3. Together(LoopKind(d), LoopKind(c), s)
    BY <1>0, <1>2, <2>2, OthersAreLate
  <2>4. CASE LoopKind(c) = "late"
    <3>1. LateEffect(s) /\ LoopKind(d) \in {"committing", "failing"}
      BY <2>3, <2>4 DEF Together, LateAnd
    <3>2. ToUndo(s) => ToUndo(s)'
      BY <3>1 DEF LateEffect, ToUndo
    <3>3. EventKind(hand[d]) = "failing" /\ EventOK(hand[d]) => EventOK(hand[d])'
      BY <2>1, <3>2 DEF EventOK, EventKind, ToUndo
    <3>4. UndoOK(d) => UndoOK(d)'
      BY <2>1, <3>1 DEF UndoOK, StockGone, LateEffect
    <3>5. CASE LoopKind(d) = "committing"
      <4>1. loc[d] = "commitDeduct"
        BY <3>5 DEF LoopKind, EventKind
      <4> QED
        BY <2>1, <2>2, <3>1, <4>1 DEF LoopOK, LateEffect
    <3>6. CASE LoopKind(d) = "failing"
      <4>1. ~hand[d].succeed /\ EventKind(hand[d]) = "failing"
        BY <3>6 DEF LoopKind, EventKind
      <4>2. loc[d] \in {"putEvent", "selectLog", "compensate", "logCanceled", "updateSaga"}
        BY <2>2, <4>1, EventsType DEF LoopShape, EventShape, EventKind, IInv, TypeOK, Location
      <4>3. CASE loc[d] \in {"putEvent", "selectLog"}
        BY <2>1, <2>2, <3>3, <4>1, <4>3 DEF LoopOK
      <4>4. CASE loc[d] \in {"compensate", "logCanceled"}
        BY <2>1, <2>2, <3>4, <4>4 DEF LoopOK
      <4>5. CASE loc[d] = "updateSaga"
        BY <2>1, <2>2, <3>1, <4>1, <4>5 DEF LoopOK, LateEffect, OrderGone
      <4> QED
        BY <4>2, <4>3, <4>4, <4>5
    <3> QED
      BY <3>1, <3>5, <3>6
  <2>5. CASE LoopKind(c) # "late"
    <3>1. LoopKind(d) = "late" /\ LoopKind(c) \in {"committing", "failing"}
      BY <2>3, <2>5 DEF Together, LateAnd
    <3>2. EventKind(hand[d]) = "late" /\ loc[d] \in {"updateLog", "updateSaga"}
      BY <2>2, <3>1, EventsType DEF LoopShape, LoopKind, EventKind, IInv, TypeOK, Location
    <3>3. Bought(s)
      BY <2>1, <2>2, <3>2 DEF LoopOK, EventOK, EventKind
    <3>4. Bought(s)'
      BY <3>1, <3>3
    <3>5. Bought(hand[d].saga)'
      BY <2>1, <3>4 DEF Bought
    <3> QED
      BY <2>1, <3>2, <3>5 DEF LoopOK, EventOK, EventKind
  <2> QED
    BY <2>4, <2>5
<1> QED
  BY <1>1, <1>2

LEMMA LocalDatabases ==
  ASSUME IInv, NEW c \in Sagas, LocalStep(c), NEW s \in Sagas, s = hand[c].saga,
         LoopKind(c) \in {"committing", "failing"} => (Bought(s) => Bought(s)'),
         LoopKind(c) = "late" => LateEffect(s),
         LoopOK(c)', SagaOK(s)', TypeOK', Control'
  PROVE  Databases'
<1>1. \A e \in Events : InQueue(e)' => EventOK(e)'
  BY LocalOthers, LocalElsewhere, EventsType
<1>2. ASSUME NEW d \in Sagas PROVE LoopOK(d)'
  <2>1. CASE hand'[d] = NoEvent
    <3>1. loc'[d] \in {"off", "take"}
      BY <1>2, <2>1 DEF Control, LoopShape
    <3> QED
      BY <3>1 DEF LoopOK
  <2>2. CASE hand'[d] # NoEvent
    <3>1. PICK u \in Sagas : Held(d, u)'
      BY <2>2, EventsType DEF TypeOK, Held
    <3> QED
      BY <3>1, LocalOthers, LocalElsewhere
  <2> QED
    BY <2>1, <2>2
<1>3. \A u \in Sagas : SagaOK(u)'
  BY LocalElsewhere
<1> QED
  BY <1>1, <1>2, <1>3 DEF Databases

LEMMA LocalGoesOn ==
  ASSUME IInv, NEW c \in Sagas, LocalStep(c), NEW s \in Sagas, s = hand[c].saga,
         \/ hand'[c] # NoEvent \/ <<"call", s>> \in fault'
         \/ sagaStatus'[s] \in {"FINISHED", "CANCELED"} \/ ItemOf[s] \notin Items
         \/ loc[c] = "commitDeduct",
         sagaStatus[s] \in {"FINISHED", "CANCELED"} => sagaStatus'[s] = sagaStatus[s]
  PROVE  GoesOn'
<1> SUFFICES ASSUME NEW u \in Sagas, pc'[u] = "returned", ItemOf[u] \in Items,
                    <<"call", u>> \notin fault', <<"commit", u>> \notin fault',
                    sagaStatus'[u] \notin {"FINISHED", "CANCELED"}
             PROVE  \/ \E e \in Events : InQueue(e)' /\ e.saga = u
                    \/ \E d \in Sagas : Held(d, u)' /\ loc'[d] # "commitDeduct"
  BY DEF GoesOn
<1>0. hand[c] # NoEvent
  BY HandType DEF IInv, LocalStep
<1>1. sagaStatus[u] \notin {"FINISHED", "CANCELED"}
  BY DEF LocalStep, SameRows
<1>2. pc[u] = "returned" /\ <<"call", u>> \notin fault /\ <<"commit", u>> \notin fault
  BY DEF LocalStep
<1>3. \/ \E e \in Events : InQueue(e) /\ e.saga = u
      \/ \E d \in Sagas : Held(d, u) /\ loc[d] # "commitDeduct"
  BY <1>1, <1>2 DEF IInv, GoesOn
<1>4. CASE \E e \in Events : InQueue(e) /\ e.saga = u
  BY <1>4 DEF InQueue, LocalStep
<1>5. CASE \E d \in Sagas : Held(d, u) /\ loc[d] # "commitDeduct"
  <2>1. PICK d \in Sagas : Held(d, u) /\ loc[d] # "commitDeduct"
    BY <1>5
  <2>2. CASE d # c
    BY <2>1, <2>2 DEF LocalStep, Held
  <2>3. CASE d = c
    BY <1>0, <2>1, <2>3 DEF LocalStep, Held
  <2> QED
    BY <2>2, <2>3
<1> QED
  BY <1>3, <1>4, <1>5

LEMMA LocalLocks ==
  ASSUME IInv, NEW c \in Sagas, LocalStep(c), loc'[c] # "putDeducted", TypeOK',
         \A i \in Items : stock'[i] >= stock[i]
  PROVE  Locks'
<1>1. \A d \in Sagas : Locking(d)' => Locking(d) /\ hand'[d] = hand[d]
  BY DEF Locking, LocalStep
<1>2. \A d \in Sagas : Locking(d) => hand[d].saga \in Sagas
  BY HandType DEF IInv, Locking
<1>3. \A i \in Items : stock[i] \in Int /\ stock'[i] \in Int
  BY DEF IInv, TypeOK, StoreTypeOK
<1>4. \A d \in Sagas : Count[d] \in Int
  BY SagaStoreAssumption
<1> QED
  BY <1>1, <1>2, <1>3, <1>4 DEF Locks, IInv

LEMMA LocalIInv ==
  ASSUME IInv, NEW c \in Sagas, LocalStep(c), NEW s \in Sagas, s = hand[c].saga, KindStep(c),
         TypeOK', LoopShape(c)', LoopOK(c)', SagaOK(s)', Locks',
         LoopKind(c) \in {"committing", "failing"} => (Bought(s) => Bought(s)'),
         LoopKind(c) = "late" => LateEffect(s),
         \/ hand'[c] # NoEvent \/ <<"call", s>> \in fault'
         \/ sagaStatus'[s] \in {"FINISHED", "CANCELED"} \/ ItemOf[s] \notin Items
         \/ loc[c] = "commitDeduct",
         sagaStatus[s] \in {"FINISHED", "CANCELED"} => sagaStatus'[s] = sagaStatus[s]
  PROVE  IInv'
<1>1. Control'
  BY LocalControl
<1>2. Apart'
  BY LocalApart
<1>3. Databases'
  BY <1>1, LocalDatabases
<1>4. GoesOn'
  BY LocalGoesOn
<1> QED
  BY <1>1, <1>2, <1>3, <1>4 DEF IInv

-----------------------------------------------------------------------------
(* What the parts of a loop's step do. *)

LEMMA BlameEffect ==
  ASSUME TypeOK, NEW s \in Sagas, NEW reply \in Reply, NEW refusable \in BOOLEAN,
         Blame(s, reply, refusable)
  PROVE  /\ fault \subseteq fault' /\ fault' \subseteq {"call", "commit"} \X Sagas
         /\ \A u \in Sagas : <<"commit", u>> \in fault' <=> <<"commit", u>> \in fault
         /\ \A u \in Sagas : u # s => (<<"call", u>> \in fault' <=> <<"call", u>> \in fault)
         /\ reply = "exn" \/ (reply = "false" /\ ~refusable) => <<"call", s>> \in fault'
BY DEF Blame, TypeOK

(* The event is dropped, or the loop goes on with it, or with a new one. *)
LoopMoves(c, at, event) ==
  /\ loc' \in [Sagas -> Location] /\ hand' \in [Sagas -> Events \cup {NoEvent}]
  /\ todo' \in [Sagas -> Seq(Steps)]
  /\ \A d \in Sagas : d # c => loc'[d] = loc[d] /\ hand'[d] = hand[d] /\ todo'[d] = todo[d]
  /\ loc'[c] = at /\ hand'[c] = event

LEMMA DoneEffect ==
  ASSUME TypeOK, NEW c \in Sagas, Done(c)
  PROVE  LoopMoves(c, "take", NoEvent)
<1>1. "take" \in Location /\ <<>> \in Seq(Steps)
  BY DEF Location
<1> QED
  BY <1>1 DEF TypeOK, Done, LoopMoves

LEMMA GotoEffect ==
  ASSUME TypeOK, NEW c \in Sagas, NEW next \in Location, Goto(c, next)
  PROVE  LoopMoves(c, next, hand[c]) /\ todo' = todo
BY DEF TypeOK, Goto, LoopMoves

LEMMA RaiseEffect ==
  ASSUME TypeOK, NEW c \in Sagas, NEW next \in Location, NEW name \in Steps, NEW succeed \in BOOLEAN,
         NEW s \in Sagas, s = hand[c].saga, Raise(c, name, succeed, next)
  PROVE  LoopMoves(c, next, Event(s, name, succeed)) /\ todo' = todo
<1>1. Event(s, name, succeed) \in Events
  BY EventMade DEF Steps
<1> QED
  BY <1>1 DEF TypeOK, Raise, LoopMoves

LogType == [Sagas -> [Steps -> {"NONE", "INIT", "SUCCEED", "CANCELED"}]]

LEMMA LogUpdated ==
  ASSUME TypeOK, NEW s \in Sagas, NEW event \in Steps,
         NEW status \in {"NONE", "INIT", "SUCCEED", "CANCELED"},
         log' = [log EXCEPT ![s][event] = status]
  PROVE  /\ log' \in LogType
         /\ \A u \in Sagas : u # s => log'[u] = log[u]
         /\ \A e \in Steps : log'[s][e] = IF e = event THEN status ELSE log[s][e]
<1>1. log[s] \in [Steps -> {"NONE", "INIT", "SUCCEED", "CANCELED"}] /\ log \in LogType
  BY DEF TypeOK, StoreTypeOK, LogType
<1>2. log' = [log EXCEPT ![s] = [log[s] EXCEPT ![event] = status]]
  OBVIOUS
<1>3. [log[s] EXCEPT ![event] = status] \in [Steps -> {"NONE", "INIT", "SUCCEED", "CANCELED"}]
  BY <1>1
<1> QED
  BY <1>1, <1>2, <1>3 DEF LogType

LEMMA UpdateLogEffect ==
  ASSUME TypeOK, NEW s \in Sagas, NEW event \in Steps, NEW reply \in Reply,
         NEW status \in {"NONE", "INIT", "SUCCEED", "CANCELED"},
         UpdateSagaLogEventStatus(s, event, status, reply)
  PROVE  /\ log' \in LogType
         /\ \A u \in Sagas : u # s => log'[u] = log[u]
         /\ \A e \in Steps : log'[s][e] = log[s][e]
              \/ (e = event /\ log[s][e] # "NONE" /\ log'[s][e] = status)
         /\ reply = "true" => log'[s][event] = status
<1>1. CASE log[s][event] # "NONE" /\ log' = [log EXCEPT ![s][event] = status]
  <2>1. /\ log' \in LogType
        /\ \A u \in Sagas : u # s => log'[u] = log[u]
        /\ \A e \in Steps : log'[s][e] = IF e = event THEN status ELSE log[s][e]
    BY <1>1, LogUpdated
  <2> QED
    BY <1>1, <2>1
<1>2. CASE reply # "true" /\ log' = log
  BY <1>2 DEF TypeOK, StoreTypeOK, LogType
<1> QED
  BY <1>1, <1>2 DEF UpdateSagaLogEventStatus

LEMMA InsertLogEffect ==
  ASSUME TypeOK, NEW s \in Sagas, NEW event \in Steps, NEW reply \in Reply,
         InsertSagaLog(s, event, reply)
  PROVE  /\ log' \in LogType
         /\ \A u \in Sagas : u # s => log'[u] = log[u]
         /\ \A e \in Steps : log'[s][e] = log[s][e]
              \/ (e = event /\ log[s][e] = "NONE" /\ log'[s][e] = "INIT")
         /\ reply = "true" => log'[s][event] = "INIT"
<1>1. CASE log[s][event] = "NONE" /\ log' = [log EXCEPT ![s][event] = "INIT"]
  <2>1. /\ log' \in LogType
        /\ \A u \in Sagas : u # s => log'[u] = log[u]
        /\ \A e \in Steps : log'[s][e] = IF e = event THEN "INIT" ELSE log[s][e]
    BY <1>1, LogUpdated
  <2> QED
    BY <1>1, <2>1
<1>2. CASE reply # "true" /\ log' = log
  BY <1>2 DEF TypeOK, StoreTypeOK, LogType
<1> QED
  BY <1>1, <1>2 DEF InsertSagaLog

(* What is known where a loop has an event. *)
Knows(c, s) ==
  /\ s = hand[c].saga /\ hand[c] \in Events /\ hand[c] # NoEvent
  /\ hand[c].succeed \in BOOLEAN /\ hand[c].name \in {"INIT", "CREATE_ORDER", "DEDUCT_STOCK"}
  /\ TypeOK /\ LoopShape(c) /\ LoopOK(c) /\ SagaOK(s) /\ ~Starting(s)

LEMMA LoopKnows ==
  ASSUME IInv, NEW c \in Sagas, loc[c] \notin {"off", "take"}
  PROVE  \E s \in Sagas : Knows(c, s)
<1>1. hand[c] \in Events /\ hand[c] # NoEvent /\ hand[c].saga \in Sagas
  BY HandType DEF IInv
<1>2. ~Starting(hand[c].saga)
  BY <1>1, OthersAreLate
<1> QED
  BY <1>1, <1>2, EventsType DEF Knows, IInv, Control, Databases

LEMMA QuietLocks ==
  ASSUME IInv, NEW c \in Sagas, LocalStep(c), loc'[c] # "putDeducted", TypeOK', stock' = stock
  PROVE  Locks'
<1>1. \A i \in Items : stock'[i] >= stock[i]
  BY DEF IInv, TypeOK, StoreTypeOK
<1> QED
  BY <1>1, LocalLocks

-----------------------------------------------------------------------------
(* The steps of a loop. *)

LEMMA UpdateLogIInv ==
  ASSUME IInv, NEW c \in Sagas, NEW reply \in Reply, UpdateLog(c, reply)
  PROVE  IInv'
<1>1. loc[c] = "updateLog"
  BY DEF UpdateLog
<1>2. PICK s \in Sagas : Knows(c, s)
  BY <1>1, LoopKnows
<1>3. /\ s = hand[c].saga /\ hand[c] \in Events /\ hand[c] # NoEvent /\ TypeOK /\ SagaOK(s)
      /\ hand[c].name \in Steps /\ EventOK(hand[c]) /\ hand[c].succeed
  BY <1>1, <1>2 DEF Knows, LoopShape, LoopOK, Steps
<1> DEFINE next == IF hand[c].name = "CREATE_ORDER" THEN "insertLog" ELSE "updateSaga"
<1>4. /\ UpdateSagaLogEventStatus(s, hand[c].name, "SUCCEED", reply)
      /\ IF reply = "exn" THEN Done(c) ELSE Goto(c, next)
      /\ Blame(s, reply, FALSE)
      /\ UNCHANGED <<itemVars, order, sagaStatus, queue, pc>>
  BY <1>3 DEF UpdateLog, After
<1>5. next \in Location
  BY DEF Location
<1> HIDE DEF next
<1>6. /\ fault \subseteq fault' /\ fault' \subseteq {"call", "commit"} \X Sagas
      /\ \A u \in Sagas : <<"commit", u>> \in fault' <=> <<"commit", u>> \in fault
      /\ \A u \in Sagas : u # s => (<<"call", u>> \in fault' <=> <<"call", u>> \in fault)
      /\ reply = "exn" => <<"call", s>> \in fault'
  BY <1>3, <1>4, BlameEffect
<1>7. /\ reply = "exn" => LoopMoves(c, "take", NoEvent)
      /\ reply # "exn" => LoopMoves(c, next, hand[c])
  BY <1>3, <1>4, <1>5, DoneEffect, GotoEffect
<1>8. /\ log' \in LogType
      /\ \A u \in Sagas : u # s => log'[u] = log[u]
      /\ \A e \in Steps : log'[s][e] = log[s][e]
           \/ (e = hand[c].name /\ log[s][e] # "NONE" /\ log'[s][e] = "SUCCEED")
  <2>1. PICK e \in Steps : e = hand[c].name
    BY <1>3
  <2> QED
    BY <1>3, <1>4, <2>1, UpdateLogEffect
<1>9. TypeOK'
  BY <1>4, <1>6, <1>7, <1>8 DEF IInv, TypeOK, StoreTypeOK, itemVars, LoopMoves, LogType
<1>10. LocalStep(c)
  BY <1>1, <1>3, <1>4, <1>6, <1>7, <1>8 DEF LocalStep, SameRows, itemVars, next, LoopMoves
<1>11. LoopShape(c)'
  BY <1>3, <1>7 DEF LoopShape, IInv, Control, EventKind, EventShape, next, Steps, LoopMoves
<1>12. KindStep(c)
  BY <1>1, <1>7 DEF KindStep, LoopKind, EventKind, next, LoopMoves
<1>13. Bought(s) => Bought(s)'
  BY <1>1, <1>4, <1>6, <1>7 DEF Bought, itemVars, next, LoopMoves
<1>14. LoopOK(c)'
  <2>1. CASE reply = "exn"
    BY <1>7, <2>1 DEF LoopMoves, LoopOK
  <2>2. CASE reply # "exn" /\ hand[c].name = "CREATE_ORDER"
    <3>1. loc'[c] = "insertLog" /\ hand'[c] = hand[c] /\ EventKind(hand[c]) = "early"
      BY <1>3, <1>7, <2>2 DEF LoopMoves, next, EventKind
    <3>2. UnderWay(s, "CREATE_ORDER")
      BY <1>3, <2>2, <3>1 DEF EventOK
    <3>3. UnderWay(s, "CREATE_ORDER")'
      BY <1>4, <1>8, <3>2 DEF UnderWay, itemVars, Steps
    <3> QED
      BY <1>3, <2>2, <3>1, <3>3 DEF LoopOK, EventOK, EventKind, UnderWay
  <2>3. CASE reply # "exn" /\ hand[c].name # "CREATE_ORDER"
    <3>1. loc'[c] = "updateSaga" /\ hand'[c] = hand[c] /\ EventKind(hand[c]) = "late"
      BY <1>3, <1>7, <2>3 DEF LoopMoves, next, EventKind, Steps
    <3>2. Bought(s)'
      BY <1>3, <1>13, <3>1 DEF EventOK
    <3> QED
      BY <1>3, <3>1, <3>2 DEF LoopOK, Bought
  <2> QED
    BY <2>1, <2>2, <2>3
<1>15. SagaOK(s)'
  BY <1>3, <1>4, <1>6, <1>7, <1>8, <1>13 DEF SagaOK, Starting, UnderWay, OrderGone, itemVars, Steps
<1>16. Locks'
  BY <1>4, <1>7, <1>9, <1>10, QuietLocks DEF LoopMoves, next, itemVars
<1>17. LoopKind(c) = "late" => LateEffect(s)
  BY <1>1, <1>3, <1>4, <1>8 DEF LateEffect, LoopKind, EventKind, itemVars, Steps
<1>18. hand'[c] # NoEvent \/ <<"call", s>> \in fault'
  BY <1>3, <1>6, <1>7 DEF LoopMoves
<1>19. sagaStatus' = sagaStatus
  BY <1>4
<1> QED
  BY <1>3, <1>9, <1>10, <1>11, <1>12, <1>13, <1>14, <1>15, <1>16, <1>17, <1>18, <1>19, LocalIInv

LEMMA InsertLogIInv ==
  ASSUME IInv, NEW c \in Sagas, NEW reply \in Reply, InsertLog(c, reply)
  PROVE  IInv'
<1>1. loc[c] = "insertLog"
  BY DEF InsertLog
<1>2. PICK s \in Sagas : Knows(c, s)
  BY <1>1, LoopKnows
<1>3. /\ s = hand[c].saga /\ hand[c] \in Events /\ hand[c] # NoEvent /\ TypeOK /\ SagaOK(s)
      /\ hand[c].name \in {"INIT", "CREATE_ORDER"} /\ hand[c].succeed /\ ~Starting(s)
      /\ UnderWay(s, hand[c].name)
  BY <1>1, <1>2 DEF Knows, LoopShape, LoopOK, EventOK, EventKind
<1> DEFINE next == IF hand[c].name = "INIT" THEN "createOrder" ELSE "deductStock"
<1>4. /\ InsertSagaLog(s, NextStep(hand[c].name), reply)
      /\ IF reply = "exn" THEN Done(c) ELSE Goto(c, next)
      /\ Blame(s, reply, FALSE)
      /\ UNCHANGED <<itemVars, order, sagaStatus, queue, pc>>
  BY <1>3 DEF InsertLog, After
<1>5. next \in Location
  BY DEF Location
<1> HIDE DEF next
<1>6. /\ fault \subseteq fault' /\ fault' \subseteq {"call", "commit"} \X Sagas
      /\ \A u \in Sagas : <<"commit", u>> \in fault' <=> <<"commit", u>> \in fault
      /\ \A u \in Sagas : u # s => (<<"call", u>> \in fault' <=> <<"call", u>> \in fault)
      /\ reply \in {"exn", "false"} => <<"call", s>> \in fault'
  BY <1>3, <1>4, BlameEffect
<1>7. /\ reply = "exn" => LoopMoves(c, "take", NoEvent)
      /\ reply # "exn" => LoopMoves(c, next, hand[c])
  BY <1>3, <1>4, <1>5, DoneEffect, GotoEffect
<1>8. PICK step \in Steps :
      /\ step = NextStep(hand[c].name)
      /\ log' \in LogType
      /\ \A u \in Sagas : u # s => log'[u] = log[u]
      /\ \A e \in Steps : log'[s][e] = log[s][e]
           \/ (e = step /\ log[s][e] = "NONE" /\ log'[s][e] = "INIT")
      /\ reply = "true" => log'[s][step] = "INIT"
  <2>1. PICK step \in Steps : step = NextStep(hand[c].name)
    BY DEF NextStep, Steps
  <2> QED
    BY <1>3, <1>4, <2>1, InsertLogEffect
<1>9. TypeOK'
  BY <1>4, <1>6, <1>7, <1>8 DEF IInv, TypeOK, StoreTypeOK, itemVars, LoopMoves, LogType
<1>10. LocalStep(c)
  BY <1>1, <1>3, <1>4, <1>6, <1>7, <1>8 DEF LocalStep, SameRows, itemVars, next, LoopMoves
<1>11. LoopShape(c)'
  BY <1>3, <1>7 DEF LoopShape, IInv, Control, EventKind, EventShape, next, Steps, LoopMoves
<1>12. KindStep(c)
  BY <1>1, <1>3 DEF KindStep, LoopKind, EventKind
<1>13. \A n : UnderWay(s, n) => UnderWay(s, n)'
  BY <1>4, <1>8 DEF UnderWay, itemVars, Steps
<1>14. LoopOK(c)'
  <2>1. CASE reply = "exn"
    BY <1>7, <2>1 DEF LoopMoves, LoopOK
  <2>2. CASE reply # "exn"
    <3>1. /\ loc'[c] = next /\ hand'[c] = hand[c] /\ EventKind(hand[c]) = "early"
          /\ UnderWay(s, hand[c].name)'
      BY <1>3, <1>7, <1>13, <2>2 DEF LoopMoves, EventKind
    <3>2. EventOK(hand[c])'
      BY <1>3, <3>1 DEF EventOK, EventKind, UnderWay
    <3>3. hand[c].name = "INIT" /\ <<"call", s>> \notin fault' => log'[s]["CREATE_ORDER"] # "NONE"
      BY <1>6, <1>8, <2>2 DEF NextStep, Reply
    <3> QED
      BY <1>3, <3>1, <3>2, <3>3 DEF LoopOK, next, EventOK, EventKind
  <2> QED
    BY <2>1, <2>2
<1>15. SagaOK(s)'
  <2>1. Bought(s)' <=> Bought(s)
    BY <1>1, <1>4, <1>6, <1>7 DEF Bought, itemVars, next, LoopMoves
  <2>2. order[s] = "NONE" => log'[s]["DEDUCT_STOCK"] = log[s]["DEDUCT_STOCK"]
    BY <1>3, <1>8 DEF NextStep, UnderWay, Steps
  <2>3. order' = order /\ reserve' = reserve /\ sagaStatus' = sagaStatus /\ pc' = pc
    BY <1>4 DEF itemVars
  <2>4. log[s]["CREATE_ORDER"] # "NONE" => log'[s]["CREATE_ORDER"] # "NONE"
    BY <1>8 DEF Steps
  <2>5. sagaStatus[s] # "CANCELED"
    BY <1>3 DEF UnderWay
  <2>6. <<"call", s>> \in fault => <<"call", s>> \in fault'
    BY <1>6
  <2> QED
    BY <1>3, <2>1, <2>2, <2>3, <2>4, <2>5, <2>6 DEF SagaOK, Starting
<1>16. Locks'
  BY <1>4, <1>7, <1>9, <1>10, QuietLocks DEF LoopMoves, next, itemVars
<1>17. LoopKind(c) = "early"
  BY <1>1, <1>3 DEF LoopKind, EventKind
<1>18. hand'[c] # NoEvent \/ <<"call", s>> \in fault'
  BY <1>3, <1>6, <1>7 DEF LoopMoves
<1>19. sagaStatus' = sagaStatus
  BY <1>4
<1> QED
  BY <1>3, <1>9, <1>10, <1>11, <1>12, <1>14, <1>15, <1>16, <1>17, <1>18, <1>19, LocalIInv

LEMMA CreateOrderIInv ==
  ASSUME IInv, NEW c \in Sagas, NEW reply \in Reply, CreateOrder(c, reply)
  PROVE  IInv'
<1>1. loc[c] = "createOrder"
  BY DEF CreateOrder
<1>2. PICK s \in Sagas : Knows(c, s)
  BY <1>1, LoopKnows
<1>3. /\ s = hand[c].saga /\ hand[c] \in Events /\ hand[c] # NoEvent /\ TypeOK /\ SagaOK(s)
      /\ hand[c].name = "INIT" /\ hand[c].succeed /\ ~Starting(s)
      /\ UnderWay(s, "INIT")
      /\ <<"call", s>> \notin fault => log[s]["CREATE_ORDER"] # "NONE"
  BY <1>1, <1>2 DEF Knows, LoopShape, LoopOK, EventOK, EventKind, EventShape
<1> DEFINE event == Event(s, "CREATE_ORDER", reply = "true")
<1>4. /\ \/ reply = "true" /\ InsertOrder(s) /\ Raise(c, "CREATE_ORDER", TRUE, "putEvent")
         \/ reply = "false" /\ UNCHANGED order /\ Raise(c, "CREATE_ORDER", FALSE, "putEvent")
         \/ reply = "exn" /\ (InsertOrder(s) \/ UNCHANGED order) /\ Done(c)
      /\ Blame(s, reply, TRUE)
      /\ UNCHANGED <<itemVars, sagaStatus, log, queue, pc>>
  BY <1>1, <1>3 DEF CreateOrder, UnderWay
<1>5. /\ event \in Events /\ event # NoEvent /\ event.saga = s /\ event.name = "CREATE_ORDER"
      /\ event.succeed = (reply = "true")
  BY EventMade
<1>6. /\ fault \subseteq fault' /\ fault' \subseteq {"call", "commit"} \X Sagas
      /\ \A u \in Sagas : <<"commit", u>> \in fault' <=> <<"commit", u>> \in fault
      /\ \A u \in Sagas : u # s => (<<"call", u>> \in fault' <=> <<"call", u>> \in fault)
      /\ reply = "exn" => <<"call", s>> \in fault'
  BY <1>3, <1>4, BlameEffect
<1>7. /\ reply = "exn" => LoopMoves(c, "take", NoEvent)
      /\ reply # "exn" => LoopMoves(c, "putEvent", event)
  <2>1. "putEvent" \in Location /\ "CREATE_ORDER" \in Steps
    BY DEF Location, Steps
  <2>2. reply = "exn" => Done(c)
    BY <1>4
  <2>3. reply = "true" => Raise(c, "CREATE_ORDER", TRUE, "putEvent")
    BY <1>4
  <2>4. reply = "false" => Raise(c, "CREATE_ORDER", FALSE, "putEvent")
    BY <1>4
  <2>5. reply = "true" => LoopMoves(c, "putEvent", Event(s, "CREATE_ORDER", TRUE))
    BY <1>3, <2>1, <2>3, RaiseEffect
  <2>6. reply = "false" => LoopMoves(c, "putEvent", Event(s, "CREATE_ORDER", FALSE))
    BY <1>3, <2>1, <2>4, RaiseEffect
  <2>7. reply = "exn" => LoopMoves(c, "take", NoEvent)
    BY <1>3, <2>2, DoneEffect
  <2>8. /\ reply = "true" => event = Event(s, "CREATE_ORDER", TRUE)
        /\ reply = "false" => event = Event(s, "CREATE_ORDER", FALSE)
    BY DEF Event
  <2> QED
    BY <2>5, <2>6, <2>7, <2>8 DEF Reply
<1> HIDE DEF event
<1>8. /\ order' \in [Sagas -> {"NONE", "NORMAL", "CANCELED"}]
      /\ \A u \in Sagas : u # s => order'[u] = order[u]
      /\ order'[s] \in {"NONE", "NORMAL"}
      /\ reply = "true" => order'[s] = "NORMAL"
  <2>1. CASE order' = order /\ reply # "true"
    BY <1>3, <2>1 DEF TypeOK, StoreTypeOK, UnderWay
  <2>2. CASE InsertOrder(s)
    BY <1>3, <2>2 DEF TypeOK, StoreTypeOK, InsertOrder
  <2> QED
    BY <1>4, <2>1, <2>2
<1>9. TypeOK'
  BY <1>3, <1>4, <1>6, <1>7, <1>8 DEF TypeOK, StoreTypeOK, itemVars, LoopMoves
<1>10. LocalStep(c)
  BY <1>1, <1>3, <1>4, <1>5, <1>6, <1>7, <1>8 DEF LocalStep, SameRows, itemVars, LoopMoves, Reply
<1>11. LoopShape(c)'
  BY <1>5, <1>7 DEF LoopShape, EventKind, EventShape, LoopMoves, Reply
<1>12. LoopKind(c) = "early"
  BY <1>1, <1>3 DEF LoopKind, EventKind
<1>13. ToUndo(s)' /\ (order'[s] = "NORMAL" => UnderWay(s, "CREATE_ORDER")')
  BY <1>3, <1>4 DEF UnderWay, ToUndo, itemVars
<1>14. LoopOK(c)'
  <2>1. CASE reply = "exn"
    BY <1>7, <2>1 DEF LoopMoves, LoopOK
  <2>2. CASE reply # "exn"
    <3>1. loc'[c] = "putEvent" /\ hand'[c] = event
      BY <1>7, <2>2 DEF LoopMoves
    <3>2. EventOK(hand[c])'
      BY <1>5, <1>8, <1>13, <3>1 DEF EventOK, EventKind, UnderWay, ToUndo
    <3> QED
      BY <3>1, <3>2 DEF LoopOK
  <2> QED
    BY <2>1, <2>2
<1>15. SagaOK(s)'
  <2>1. /\ log' = log /\ reserve' = reserve /\ sagaStatus' = sagaStatus /\ pc' = pc
        /\ sagaStatus[s] \in {"NONE", "INIT"}
    BY <1>3, <1>4 DEF itemVars, UnderWay
  <2>2. log[s]["DEDUCT_STOCK"] = "NONE"
    BY <1>3 DEF SagaOK, UnderWay
  <2> QED
    BY <1>3, <1>6, <2>1, <2>2 DEF SagaOK, Starting
<1>16. Locks'
  <2>1. loc'[c] # "putDeducted" /\ stock' = stock
    BY <1>4, <1>7 DEF LoopMoves, itemVars, Reply
  <2> QED
    BY <1>9, <1>10, <2>1, QuietLocks
<1>17. KindStep(c)
  BY <1>12 DEF KindStep
<1>18. hand'[c] # NoEvent \/ <<"call", s>> \in fault'
  BY <1>5, <1>6, <1>7 DEF LoopMoves
<1>19. sagaStatus' = sagaStatus
  BY <1>4
<1> QED
  BY <1>3, <1>9, <1>10, <1>11, <1>12, <1>14, <1>15, <1>16, <1>17, <1>18, <1>19, LocalIInv

LEMMA DeductStockIInv ==
  ASSUME IInv, NEW c \in Sagas, NEW reply \in Reply, DeductStock(c, reply)
  PROVE  IInv'
<1>1. loc[c] = "deductStock"
  BY DEF DeductStock
<1>2. PICK s \in Sagas : Knows(c, s)
  BY <1>1, LoopKnows
<1>3. /\ s = hand[c].saga /\ hand[c] \in Events /\ hand[c] # NoEvent /\ TypeOK /\ SagaOK(s)
      /\ hand[c].name = "CREATE_ORDER" /\ hand[c].succeed /\ ~Starting(s)
      /\ UnderWay(s, "CREATE_ORDER")
  BY <1>1, <1>2 DEF Knows, LoopShape, LoopOK, EventOK, EventKind
<1> DEFINE event == Event(s, "DEDUCT_STOCK", reply = "true")
<1>4. /\ \/ /\ reply = "true" /\ ItemFree(s) /\ Deductible(s)
            /\ Raise(c, "DEDUCT_STOCK", TRUE, "putDeducted")
         \/ reply = "false" /\ Raise(c, "DEDUCT_STOCK", FALSE, "putEvent")
         \/ reply = "exn" /\ Done(c)
      /\ Blame(s, reply, TRUE)
      /\ UNCHANGED <<dbVars, queue, pc>>
  BY <1>1, <1>3 DEF DeductStock, UnderWay
<1>5. /\ event \in Events /\ event # NoEvent /\ event.saga = s /\ event.name = "DEDUCT_STOCK"
      /\ event.succeed = (reply = "true")
  BY EventMade
<1>6. /\ fault \subseteq fault' /\ fault' \subseteq {"call", "commit"} \X Sagas
      /\ \A u \in Sagas : <<"commit", u>> \in fault' <=> <<"commit", u>> \in fault
      /\ \A u \in Sagas : u # s => (<<"call", u>> \in fault' <=> <<"call", u>> \in fault)
      /\ reply = "exn" => <<"call", s>> \in fault'
  BY <1>3, <1>4, BlameEffect
<1>7. /\ reply = "exn" => LoopMoves(c, "take", NoEvent)
      /\ reply = "false" => LoopMoves(c, "putEvent", event)
      /\ reply = "true" => LoopMoves(c, "putDeducted", event)
  <2>1. {"putEvent", "putDeducted"} \subseteq Location /\ "DEDUCT_STOCK" \in Steps
    BY DEF Location, Steps
  <2>2. reply = "exn" => Done(c)
    BY <1>4
  <2>3. reply = "true" => Raise(c, "DEDUCT_STOCK", TRUE, "putDeducted")
    BY <1>4
  <2>4. reply = "false" => Raise(c, "DEDUCT_STOCK", FALSE, "putEvent")
    BY <1>4
  <2>5. reply = "true" => LoopMoves(c, "putDeducted", Event(s, "DEDUCT_STOCK", TRUE))
    BY <1>3, <2>1, <2>3, RaiseEffect
  <2>6. reply = "false" => LoopMoves(c, "putEvent", Event(s, "DEDUCT_STOCK", FALSE))
    BY <1>3, <2>1, <2>4, RaiseEffect
  <2>7. reply = "exn" => LoopMoves(c, "take", NoEvent)
    BY <1>3, <2>2, DoneEffect
  <2>8. /\ reply = "true" => event = Event(s, "DEDUCT_STOCK", TRUE)
        /\ reply = "false" => event = Event(s, "DEDUCT_STOCK", FALSE)
    BY DEF Event
  <2> QED
    BY <2>5, <2>6, <2>7, <2>8
<1> HIDE DEF event
<1>8. /\ stock' = stock /\ order' = order /\ reserve' = reserve /\ sagaStatus' = sagaStatus
      /\ log' = log /\ queue' = queue /\ pc' = pc
  BY <1>4 DEF dbVars
<1>9. TypeOK'
  <2>1. LoopMoves(c, "take", NoEvent) \/ LoopMoves(c, "putEvent", event)
          \/ LoopMoves(c, "putDeducted", event)
    BY <1>7 DEF Reply
  <2> QED
    BY <1>3, <1>6, <1>8, <2>1 DEF TypeOK, StoreTypeOK, LoopMoves
<1>10. LocalStep(c)
  BY <1>1, <1>3, <1>5, <1>6, <1>7, <1>8 DEF LocalStep, SameRows, LoopMoves, Reply
<1>11. LoopShape(c)'
  BY <1>5, <1>7 DEF LoopShape, EventKind, EventShape, LoopMoves, Reply
<1>12. LoopKind(c) = "early"
  BY <1>1, <1>3 DEF LoopKind, EventKind
<1>13. ToUndo(s)' /\ UnderWay(s, "CREATE_ORDER")'
  BY <1>3, <1>8 DEF UnderWay, ToUndo
<1>14. LoopOK(c)'
  <2>1. CASE reply = "exn"
    BY <1>7, <2>1 DEF LoopMoves, LoopOK
  <2>2. CASE reply = "false"
    <3>1. loc'[c] = "putEvent" /\ hand'[c] = event
      BY <1>7, <2>2 DEF LoopMoves
    <3>2. EventOK(hand[c])'
      BY <1>5, <1>13, <2>2, <3>1 DEF EventOK, EventKind, ToUndo
    <3> QED
      BY <3>1, <3>2 DEF LoopOK
  <2>3. CASE reply = "true"
    <3>1. loc'[c] = "putDeducted" /\ hand'[c] = event
      BY <1>7, <2>3 DEF LoopMoves
    <3> QED
      BY <1>5, <1>13, <3>1 DEF LoopOK, UnderWay
  <2> QED
    BY <2>1, <2>2, <2>3 DEF Reply
<1>15. SagaOK(s)'
  <2>1. sagaStatus[s] \in {"NONE", "INIT"}
    BY <1>3 DEF UnderWay
  <2> QED
    BY <1>3, <1>6, <1>8, <2>1 DEF SagaOK, Starting
<1>16. Locks'
  <2>1. CASE reply = "true"
    <3>1. loc'[c] = "putDeducted" /\ hand'[c].saga = s /\ ItemFree(s) /\ Deductible(s)
      BY <1>4, <1>5, <1>7, <2>1 DEF LoopMoves
    <3>2. Count[s] >= 0 /\ ItemOf[s] \in Items /\ stock[ItemOf[s]] >= Count[s]
      BY <3>1 DEF Deductible
    <3>3. \A d \in Sagas : d # c => (Locking(d)' <=> Locking(d)) /\ hand'[d] = hand[d]
      BY <1>10 DEF Locking, LocalStep
    <3>4. \A d \in Sagas : Locking(d) => ItemOf[hand[d].saga] # ItemOf[s]
      BY <3>1 DEF ItemFree, Locking
    <3> QED
      BY <1>8, <3>1, <3>2, <3>3, <3>4 DEF Locks, IInv
  <2>2. CASE reply # "true"
    <3>1. loc'[c] # "putDeducted"
      BY <1>7, <2>2 DEF LoopMoves, Reply
    <3> QED
      BY <1>8, <1>9, <1>10, <3>1, QuietLocks
  <2> QED
    BY <2>1, <2>2
<1>17. KindStep(c)
  BY <1>12 DEF KindStep
<1>18. hand'[c] # NoEvent \/ <<"call", s>> \in fault'
  BY <1>5, <1>6, <1>7 DEF LoopMoves, Reply
<1> QED
  BY <1>3, <1>8, <1>9, <1>10, <1>11, <1>12, <1>14, <1>15, <1>16, <1>17, <1>18, LocalIInv

LEMMA CommitDeductIInv ==
  ASSUME IInv, NEW c \in Sagas, NEW reply \in Reply, CommitDeduct(c, reply)
  PROVE  IInv'
<1>1. loc[c] = "commitDeduct" /\ LoopKind(c) = "committing"
  BY DEF CommitDeduct, LoopKind
<1>2. PICK s \in Sagas : Knows(c, s)
  BY <1>1, LoopKnows
<1>3. /\ s = hand[c].saga /\ hand[c] \in Events /\ hand[c] # NoEvent /\ TypeOK /\ SagaOK(s)
      /\ ~Starting(s) /\ reserve[s] = NoRow /\ order[s] = "NORMAL" /\ sagaStatus[s] # "CANCELED"
      /\ log[s]["CREATE_ORDER"] # "CANCELED" /\ log[s]["DEDUCT_STOCK"] # "CANCELED"
  BY <1>1, <1>2 DEF Knows, LoopOK
<1>4. PICK i \in Items : i = ItemOf[s] /\ Count[s] \in Nat /\ stock[i] >= Count[s] /\ stock[i] \in Nat
  BY <1>1, <1>3, SagaStoreAssumption DEF IInv, Locks, Locking, TypeOK, StoreTypeOK
<1> DEFINE event == Event(s, "DEDUCT_STOCK", FALSE)
<1>5. /\ event \in Events /\ event # NoEvent /\ event.saga = s /\ event.name = "DEDUCT_STOCK"
      /\ event.succeed = FALSE
  BY EventMade
<1>6. /\ \/ reply = "true" /\ DeductCommitted(s) /\ Done(c)
         \/ reply = "false" /\ UNCHANGED itemVars /\ Raise(c, "DEDUCT_STOCK", FALSE, "putEvent")
         \/ reply = "exn" /\ (DeductCommitted(s) \/ UNCHANGED itemVars) /\ Done(c)
      /\ fault' = IF reply = "true" THEN fault
                  ELSE fault \cup {<<"call", s>>, <<"commit", s>>}
      /\ UNCHANGED <<order, sagaStatus, log, queue, pc>>
  BY <1>3 DEF CommitDeduct
<1>7. /\ fault \subseteq fault' /\ fault' \subseteq {"call", "commit"} \X Sagas
      /\ \A u \in Sagas : u # s => \A kind \in {"call", "commit"} :
           <<kind, u>> \in fault' <=> <<kind, u>> \in fault
      /\ reply = "true" => fault' = fault
      /\ reply # "true" => <<"call", s>> \in fault' /\ <<"commit", s>> \in fault'
  BY <1>3, <1>6 DEF TypeOK
<1>8. /\ reply # "false" => LoopMoves(c, "take", NoEvent)
      /\ reply = "false" => LoopMoves(c, "putEvent", event)
  <2>1. "putEvent" \in Location /\ "DEDUCT_STOCK" \in Steps
    BY DEF Location, Steps
  <2>2. reply # "false" => Done(c)
    BY <1>6
  <2>3. reply = "false" => Raise(c, "DEDUCT_STOCK", FALSE, "putEvent")
    BY <1>6
  <2> QED
    BY <1>3, <2>1, <2>2, <2>3, DoneEffect, RaiseEffect
<1> HIDE DEF event
<1>9. /\ stock' \in [Items -> Nat]
      /\ reserve' \in [Sagas -> [amount : Nat, status : {"NONE", "NORMAL", "CANCELED"}]]
      /\ \A u \in Sagas : u # s => reserve'[u] = reserve[u]
      /\ \A j \in Items : j # i => stock'[j] = stock[j]
      /\ reserve'[s] \in {NoRow, Row(Count[s], "NORMAL")}
      /\ reply = "true" => reserve'[s] = Row(Count[s], "NORMAL")
  <2>1. CASE DeductCommitted(s)
    <3>1. Row(Count[s], "NORMAL") \in [amount : Nat, status : {"NONE", "NORMAL", "CANCELED"}]
      BY <1>4 DEF Row
    <3> QED
      BY <1>3, <1>4, <2>1, <3>1 DEF TypeOK, StoreTypeOK, DeductCommitted
  <2>2. CASE UNCHANGED itemVars /\ reply # "true"
    BY <1>3, <2>2 DEF TypeOK, StoreTypeOK, itemVars
  <2> QED
    BY <1>6, <2>1, <2>2
<1>10. order' = order /\ sagaStatus' = sagaStatus /\ log' = log /\ queue' = queue /\ pc' = pc
  BY <1>6
<1>11. TypeOK'
  <2>1. LoopMoves(c, "take", NoEvent) \/ LoopMoves(c, "putEvent", event)
    BY <1>8
  <2> QED
    BY <1>3, <1>7, <1>9, <1>10, <2>1 DEF TypeOK, StoreTypeOK, LoopMoves
<1>12. LocalStep(c)
  BY <1>1, <1>3, <1>5, <1>7, <1>8, <1>9, <1>10 DEF LocalStep, SameRows, LoopMoves
<1>13. LoopShape(c)'
  BY <1>5, <1>8 DEF LoopShape, EventKind, EventShape, LoopMoves
<1>14. Bought(s)'
  BY <1>3, <1>7, <1>9, <1>10 DEF Bought
<1>15. LoopOK(c)'
  <2>1. CASE reply # "false"
    BY <1>8, <2>1 DEF LoopMoves, LoopOK
  <2>2. CASE reply = "false"
    <3>1. loc'[c] = "putEvent" /\ hand'[c] = event /\ reserve'[s] = NoRow
      BY <1>3, <1>6, <1>8, <2>2 DEF LoopMoves, itemVars
    <3>2. EventOK(hand[c])'
      BY <1>3, <1>5, <1>10, <3>1 DEF EventOK, EventKind, ToUndo
    <3> QED
      BY <3>1, <3>2 DEF LoopOK
  <2> QED
    BY <2>1, <2>2
<1>16. SagaOK(s)'
  BY <1>3, <1>7, <1>10, <1>14 DEF SagaOK, Starting
<1>17. Locks'
  <2>1. \A d \in Sagas : Locking(d)' => d # c /\ Locking(d) /\ hand'[d] = hand[d]
    BY <1>8, <1>12 DEF Locking, LocalStep, LoopMoves
  <2>2. \A d \in Sagas : d # c /\ Locking(d) => ItemOf[hand[d].saga] # i
    BY <1>1, <1>3, <1>4 DEF Locking, Locks, IInv
  <2> QED
    BY <1>9, <2>1, <2>2 DEF Locks, IInv
<1>18. KindStep(c)
  <2>1. CASE reply # "false"
    BY <1>8, <2>1 DEF KindStep, LoopMoves
  <2>2. CASE reply = "false"
    <3>1. LoopKind(c)' = "failing"
      BY <1>5, <1>8, <2>2 DEF LoopKind, EventKind, LoopMoves
    <3> QED
      BY <1>1, <1>3, <1>7, <2>2, <3>1 DEF KindStep
  <2> QED
    BY <2>1, <2>2
<1> QED
  BY <1>1, <1>3, <1>10, <1>11, <1>12, <1>13, <1>14, <1>15, <1>16, <1>17, <1>18, LocalIInv

(* While a failing event is dealt with, no commit of the purchase is open: *)
(* it counts as bought only by its row, or for a commit that failed.       *)
LEMMA FailedIsNotBought ==
  ASSUME IInv, NEW c \in Sagas, NEW s \in Sagas, Held(c, s), LoopKind(c) = "failing",
         reserve[s].status # "NORMAL", Bought(s)
  PROVE  <<"commit", s>> \in fault
<1> SUFFICES ASSUME <<"commit", s>> \notin fault PROVE FALSE
  OBVIOUS
<1>1. reserve[s] # Row(Count[s], "NORMAL")
  BY DEF Row
<1>2. PICK d \in Sagas : loc[d] = "commitDeduct" /\ hand[d].saga = s
  BY <1>1 DEF Bought
<1>3. LoopKind(d) = "committing" /\ hand[d] # NoEvent
  BY <1>2, HandType DEF LoopKind, IInv
<1>4. d # c /\ Held(d, hand[c].saga) /\ hand[c] # NoEvent /\ hand[c].saga = s
  BY <1>2, <1>3 DEF Held
<1>5. Together(LoopKind(d), LoopKind(c), s)
  BY <1>4, OthersAreLate
<1> QED
  BY <1>3, <1>5 DEF Together

LEMMA PairOfSteps ==
  ASSUME NEW a \in Steps, NEW b \in Steps
  PROVE  <<a>> \o <<b>> = <<a, b>>
<1> DEFINE x == <<a>> \o <<b>>
           z == <<a, b>>
<1>1. <<a>> \in Seq(Steps) /\ <<b>> \in Seq(Steps) /\ z \in Seq(Steps)
  OBVIOUS
<1>2. Len(x) = 2 /\ Len(z) = 2 /\ x \in Seq(Steps)
  BY <1>1
<1>3. x[1] = a /\ x[2] = b /\ z[1] = a /\ z[2] = b
  BY <1>1
<1> HIDE DEF x, z
<1>4. \A i \in 1 .. Len(z) : x[i] = z[i]
  BY <1>2, <1>3
<1>5. x = z
  BY <1>1, <1>2, <1>4, SeqEqual
<1> QED
  BY <1>5 DEF x, z

LEMMA CompensationList ==
  ASSUME NEW s \in Sagas, ToUndo(s)
  PROVE  ToCompensate(s) =
           IF log[s]["DEDUCT_STOCK"] # "NONE"
             THEN IF log[s]["CREATE_ORDER"] # "NONE"
                    THEN <<"DEDUCT_STOCK", "CREATE_ORDER">> ELSE <<"DEDUCT_STOCK">>
             ELSE IF log[s]["CREATE_ORDER"] # "NONE" THEN <<"CREATE_ORDER">> ELSE <<>>
<1>1. \A e \in Steps : Logged(s, e) <=> log[s][e] # "NONE"
  BY DEF Logged, ToUndo, Steps
<1>2. /\ Logged(s, "CREATE_ORDER") <=> log[s]["CREATE_ORDER"] # "NONE"
      /\ Logged(s, "DEDUCT_STOCK") <=> log[s]["DEDUCT_STOCK"] # "NONE"
  BY <1>1 DEF Steps
<1>3. /\ <<"DEDUCT_STOCK">> \o <<"CREATE_ORDER">> = <<"DEDUCT_STOCK", "CREATE_ORDER">>
      /\ <<"DEDUCT_STOCK">> \o <<>> = <<"DEDUCT_STOCK">>
      /\ <<>> \o <<"CREATE_ORDER">> = <<"CREATE_ORDER">>
      /\ <<>> \o <<>> = <<>>
  <2>1. <<"DEDUCT_STOCK">> \o <<"CREATE_ORDER">> = <<"DEDUCT_STOCK", "CREATE_ORDER">>
    BY PairOfSteps DEF Steps
  <2> QED
    BY <2>1
<1>4. CASE Logged(s, "DEDUCT_STOCK") /\ Logged(s, "CREATE_ORDER")
  BY <1>2, <1>3, <1>4 DEF ToCompensate
<1>5. CASE Logged(s, "DEDUCT_STOCK") /\ ~Logged(s, "CREATE_ORDER")
  BY <1>2, <1>3, <1>5 DEF ToCompensate
<1>6. CASE ~Logged(s, "DEDUCT_STOCK") /\ Logged(s, "CREATE_ORDER")
  BY <1>2, <1>3, <1>6 DEF ToCompensate
<1>7. CASE ~Logged(s, "DEDUCT_STOCK") /\ ~Logged(s, "CREATE_ORDER")
  BY <1>2, <1>3, <1>7 DEF ToCompensate
<1> QED
  BY <1>4, <1>5, <1>6, <1>7

LEMMA SelectLogIInv ==
  ASSUME IInv, NEW c \in Sagas, NEW reply \in Reply, SelectLog(c, reply)
  PROVE  IInv'
<1>1. loc[c] = "selectLog"
  BY DEF SelectLog
<1>2. PICK s \in Sagas : Knows(c, s)
  BY <1>1, LoopKnows
<1>3. /\ s = hand[c].saga /\ hand[c] \in Events /\ hand[c] # NoEvent /\ TypeOK /\ SagaOK(s)
      /\ ~hand[c].succeed /\ ~Starting(s) /\ ToUndo(s) /\ EventShape(hand[c])
  BY <1>1, <1>2 DEF Knows, LoopShape, LoopOK, EventOK, EventKind
<1> DEFINE steps == ToCompensate(s)
           next == IF steps = <<>> THEN "updateSaga" ELSE "compensate"
<1>4. /\ reply # "exn" => /\ loc' = [loc EXCEPT ![c] = next]
                          /\ todo' = [todo EXCEPT ![c] = steps]
                          /\ hand' = hand
      /\ reply = "exn" => Done(c)
      /\ Blame(s, reply, FALSE)
      /\ UNCHANGED <<dbVars, queue, pc>>
  BY <1>3 DEF SelectLog
<1>5. /\ steps \in {<<"DEDUCT_STOCK", "CREATE_ORDER">>, <<"CREATE_ORDER">>, <<"DEDUCT_STOCK">>, <<>>}
      /\ next \in Location /\ steps \in Seq(Steps)
  <2>1. steps \in {<<"DEDUCT_STOCK", "CREATE_ORDER">>, <<"CREATE_ORDER">>, <<"DEDUCT_STOCK">>, <<>>}
    BY <1>3, CompensationList
  <2>2. next \in Location
    BY DEF Location
  <2>3. /\ <<"DEDUCT_STOCK", "CREATE_ORDER">> \in Seq(Steps) /\ <<"CREATE_ORDER">> \in Seq(Steps)
        /\ <<"DEDUCT_STOCK">> \in Seq(Steps) /\ <<>> \in Seq(Steps)
    BY DEF Steps
  <2> QED
    BY <2>1, <2>2, <2>3
<1>20. /\ steps = <<>> => log[s]["DEDUCT_STOCK"] = "NONE" /\ log[s]["CREATE_ORDER"] = "NONE"
       /\ steps = <<"CREATE_ORDER">> =>
            log[s]["DEDUCT_STOCK"] = "NONE" /\ log[s]["CREATE_ORDER"] # "NONE"
       /\ steps = <<"DEDUCT_STOCK">> =>
            log[s]["DEDUCT_STOCK"] # "NONE" /\ log[s]["CREATE_ORDER"] = "NONE"
       /\ steps = <<"DEDUCT_STOCK", "CREATE_ORDER">> =>
            log[s]["DEDUCT_STOCK"] # "NONE" /\ log[s]["CREATE_ORDER"] # "NONE"
  BY <1>3, CompensationList
<1> HIDE DEF steps
<1>6. /\ fault \subseteq fault' /\ fault' \subseteq {"call", "commit"} \X Sagas
      /\ \A u \in Sagas : <<"commit", u>> \in fault' <=> <<"commit", u>> \in fault
      /\ \A u \in Sagas : u # s => (<<"call", u>> \in fault' <=> <<"call", u>> \in fault)
      /\ reply = "exn" => <<"call", s>> \in fault'
  BY <1>3, <1>4, BlameEffect
<1>7. /\ reply = "exn" => LoopMoves(c, "take", NoEvent)
      /\ reply # "exn" => LoopMoves(c, next, hand[c]) /\ todo'[c] = steps
  <2>1. reply = "exn" => LoopMoves(c, "take", NoEvent)
    BY <1>3, <1>4, DoneEffect
  <2> HIDE DEF next
  <2>2. reply # "exn" => LoopMoves(c, next, hand[c]) /\ todo'[c] = steps
    BY <1>3, <1>4, <1>5 DEF TypeOK, LoopMoves
  <2> QED
    BY <2>1, <2>2
<1>8. /\ stock' = stock /\ order' = order /\ reserve' = reserve /\ sagaStatus' = sagaStatus
      /\ log' = log /\ queue' = queue /\ pc' = pc
  BY <1>4 DEF dbVars
<1>9. TypeOK'
  <2>1. LoopMoves(c, "take", NoEvent) \/ LoopMoves(c, next, hand[c])
    BY <1>7
  <2> QED
    BY <1>3, <1>6, <1>8, <2>1 DEF TypeOK, StoreTypeOK, LoopMoves
<1>10. LocalStep(c)
  BY <1>1, <1>3, <1>6, <1>7, <1>8 DEF LocalStep, SameRows, LoopMoves
<1>11. LoopShape(c)'
  BY <1>3, <1>5, <1>7 DEF LoopShape, EventKind, EventShape, LoopMoves
<1>12. LoopKind(c) = "failing"
  BY <1>1, <1>3 DEF LoopKind, EventKind
<1>13. Bought(s) => Bought(s)'
  <2>1. Held(c, s) /\ reserve[s].status # "NORMAL"
    BY <1>3 DEF Held, ToUndo, NoRow, Row
  <2>2. Bought(s) => <<"commit", s>> \in fault'
    BY <1>6, <1>12, <2>1, FailedIsNotBought
  <2> QED
    BY <2>2 DEF Bought
<1>14. LoopOK(c)'
  <2>1. CASE reply = "exn"
    BY <1>7, <2>1 DEF LoopMoves, LoopOK
  <2>2. CASE reply # "exn" /\ steps = <<>>
    <3>1. loc'[c] = "updateSaga" /\ hand'[c] = hand[c]
      BY <1>7, <2>2 DEF LoopMoves
    <3> QED
      BY <1>3, <1>8, <1>20, <2>2, <3>1 DEF LoopOK, ToUndo, OrderGone, NoRow, Row
  <2>3. CASE reply # "exn" /\ steps # <<>>
    <3>1. loc'[c] = "compensate" /\ hand'[c] = hand[c] /\ todo'[c] = steps
      BY <1>7, <2>3 DEF LoopMoves
    <3>2. UndoOK(c)'
      <4>1. sagaStatus'[s] # "CANCELED" /\ reserve'[s].status # "NORMAL" /\ reserve'[s] = NoRow
        BY <1>3, <1>8 DEF ToUndo, NoRow, Row
      <4>2. steps \in {<<"DEDUCT_STOCK", "CREATE_ORDER">>, <<"CREATE_ORDER">>, <<"DEDUCT_STOCK">>}
        BY <1>5, <2>3
      <4> QED
        BY <1>3, <1>8, <1>20, <3>1, <4>1, <4>2 DEF UndoOK, StockGone
    <3> QED
      BY <3>1, <3>2 DEF LoopOK
  <2> QED
    BY <2>1, <2>2, <2>3
<1>15. SagaOK(s)'
  BY <1>3, <1>6, <1>8, <1>13 DEF SagaOK, Starting, OrderGone
<1>16. Locks'
  <2>1. loc'[c] # "putDeducted"
    BY <1>7 DEF LoopMoves
  <2> QED
    BY <1>8, <1>9, <1>10, <2>1, QuietLocks
<1>17. KindStep(c)
  <2>1. CASE reply = "exn"
    BY <1>7, <2>1 DEF KindStep, LoopMoves
  <2>2. CASE reply # "exn"
    BY <1>1, <1>3, <1>7, <2>2 DEF KindStep, LoopKind, EventKind, LoopMoves
  <2> QED
    BY <2>1, <2>2
<1>18. hand'[c] # NoEvent \/ <<"call", s>> \in fault'
  BY <1>3, <1>6, <1>7 DEF LoopMoves
<1> QED
  BY <1>3, <1>8, <1>9, <1>10, <1>11, <1>12, <1>13, <1>14, <1>15, <1>16, <1>17, <1>18, LocalIInv

LEMMA CompensateIInv ==
  ASSUME IInv, NEW c \in Sagas, NEW reply \in Reply, Compensate(c, reply)
  PROVE  IInv'
<1>1. loc[c] = "compensate"
  BY DEF Compensate
<1>2. PICK s \in Sagas : Knows(c, s)
  BY <1>1, LoopKnows
<1>3. /\ s = hand[c].saga /\ hand[c] \in Events /\ hand[c] # NoEvent /\ TypeOK /\ SagaOK(s)
      /\ ~hand[c].succeed /\ ~Starting(s) /\ UndoOK(c) /\ EventShape(hand[c])
      /\ todo[c] \in {<<"DEDUCT_STOCK", "CREATE_ORDER">>, <<"CREATE_ORDER">>, <<"DEDUCT_STOCK">>}
  BY <1>1, <1>2 DEF Knows, LoopShape, LoopOK
<1> DEFINE StockStep == /\ todo[c] # <<"CREATE_ORDER">>
                        /\ CancelDeductStock(s, reply) /\ order' = order
                        /\ Blame(s, reply, ItemOf[s] \notin Items)
           OrderStep == /\ todo[c] = <<"CREATE_ORDER">>
                        /\ CancelOrder(s, reply) /\ stock' = stock /\ reserve' = reserve
                        /\ Blame(s, reply, FALSE)
<1>4. /\ StockStep \/ OrderStep
      /\ IF reply = "true" THEN Goto(c, "logCanceled") ELSE Done(c)
      /\ sagaStatus' = sagaStatus /\ log' = log /\ queue' = queue /\ pc' = pc
  <2>1. todo[c] = <<"CREATE_ORDER">> <=> Head(todo[c]) # "DEDUCT_STOCK"
    BY <1>3
  <2> QED
    BY <1>3, <2>1 DEF Compensate, itemVars
<1>5. /\ sagaStatus[s] # "CANCELED" /\ reserve[s].status # "NORMAL"
      /\ todo[c] # <<"CREATE_ORDER">> => reserve[s] = NoRow
  BY <1>1, <1>3 DEF UndoOK
<1>6. /\ fault \subseteq fault' /\ fault' \subseteq {"call", "commit"} \X Sagas
      /\ \A u \in Sagas : <<"commit", u>> \in fault' <=> <<"commit", u>> \in fault
      /\ \A u \in Sagas : u # s => (<<"call", u>> \in fault' <=> <<"call", u>> \in fault)
      /\ reply # "true" => <<"call", s>> \in fault' \/ ItemOf[s] \notin Items
  <2>1. PICK refusable \in BOOLEAN : Blame(s, reply, refusable) /\ (refusable => ItemOf[s] \notin Items)
    BY <1>4
  <2> QED
    BY <1>3, <2>1, BlameEffect DEF Reply
<1>7. /\ reply # "true" => LoopMoves(c, "take", NoEvent)
      /\ reply = "true" => LoopMoves(c, "logCanceled", hand[c]) /\ todo'[c] = todo[c]
  <2>1. "logCanceled" \in Location
    BY DEF Location
  <2> QED
    BY <1>3, <1>4, <2>1, DoneEffect, GotoEffect
<1>8. /\ order' \in [Sagas -> {"NONE", "NORMAL", "CANCELED"}]
      /\ \A u \in Sagas : u # s => order'[u] = order[u]
      /\ order'[s] = order[s] \/ (order[s] = "NORMAL" /\ order'[s] = "CANCELED")
      /\ reply = "true" /\ todo[c] = <<"CREATE_ORDER">> => order'[s] # "NORMAL"
  <2>1. CASE OrderStep
    <3>1. order \in [Sagas -> {"NONE", "NORMAL", "CANCELED"}]
      BY <1>3 DEF TypeOK, StoreTypeOK
    <3>2. CASE OrderToCanceled(s)
      BY <2>1, <3>1, <3>2 DEF OrderToCanceled
    <3>3. CASE order' = order /\ (reply = "true" => order[s] = "NONE")
      BY <2>1, <3>1, <3>3
    <3> QED
      BY <2>1, <3>2, <3>3 DEF CancelOrder
  <2>2. CASE StockStep
    BY <1>3, <2>2 DEF TypeOK, StoreTypeOK
  <2> QED
    BY <1>4, <2>1, <2>2
<1>9. /\ stock' \in [Items -> Nat]
      /\ \A i \in Items : stock'[i] >= stock[i]
      /\ reserve' \in [Sagas -> [amount : Nat, status : {"NONE", "NORMAL", "CANCELED"}]]
      /\ \A u \in Sagas : u # s => reserve'[u] = reserve[u]
      /\ reserve'[s] = reserve[s] \/ reserve'[s].status = "CANCELED"
      /\ todo[c] = <<"CREATE_ORDER">> => reserve' = reserve
      /\ reply = "true" /\ todo[c] # <<"CREATE_ORDER">> => reserve'[s].status = "CANCELED"
  <2>1. stock \in [Items -> Nat] /\ (\A i \in Items : stock[i] >= stock[i])
    BY <1>3 DEF TypeOK, StoreTypeOK
  <2>2. CASE UNCHANGED itemVars
    <3>1. todo[c] # <<"CREATE_ORDER">> => reserve[s].status # "CANCELED"
      BY <1>5 DEF NoRow, Row
    <3>2. CASE StockStep /\ reply # "true"
      BY <1>3, <2>1, <2>2, <3>2 DEF TypeOK, StoreTypeOK, itemVars
    <3>3. CASE StockStep /\ reply = "true"
      <4>1. GiveBack(s)
        BY <3>1, <3>3 DEF CancelDeductStock
      <4>2. reserve' = [reserve EXCEPT ![s] = Row(reserve[s].amount, "CANCELED")]
        BY <4>1 DEF GiveBack
      <4>3. reserve'[s].status = "CANCELED"
        BY <1>3, <4>2 DEF TypeOK, StoreTypeOK, Row
      <4> QED
        BY <2>2, <3>1, <3>3, <4>3 DEF itemVars
    <3>4. CASE OrderStep
      BY <1>3, <2>1, <2>2, <3>4 DEF TypeOK, StoreTypeOK, itemVars
    <3> QED
      BY <1>4, <3>2, <3>3, <3>4 DEF Reply
  <2>3. CASE StockStep /\ GiveBack(s)
    <3>1. PICK i \in Items : i = ItemOf[s]
      BY <2>3 DEF GiveBack
    <3>2. PICK a \in Nat : a = reserve[s].amount
      BY <1>3 DEF TypeOK, StoreTypeOK
    <3>3. Row(a, "CANCELED") \in [amount : Nat, status : {"NONE", "NORMAL", "CANCELED"}]
            /\ Row(a, "CANCELED").status = "CANCELED"
      BY DEF Row
    <3>4. /\ stock' = [stock EXCEPT ![i] = stock[i] + a]
          /\ reserve' = [reserve EXCEPT ![s] = Row(a, "CANCELED")]
      BY <2>3, <3>1, <3>2 DEF GiveBack
    <3>5. stock' \in [Items -> Nat] /\ \A j \in Items : stock'[j] >= stock[j]
      <4>1. \A j \in Items : stock[j] \in Nat /\ stock[j] + a \in Nat /\ stock[j] + a >= stock[j]
        BY <2>1
      <4>2. \A j \in Items : stock'[j] = IF j = i THEN stock[i] + a ELSE stock[j]
        BY <2>1, <3>4
      <4>3. stock' \in [Items -> Nat]
        BY <2>1, <3>4, <4>1
      <4> QED
        BY <2>1, <4>1, <4>2, <4>3
    <3>6. /\ reserve' \in [Sagas -> [amount : Nat, status : {"NONE", "NORMAL", "CANCELED"}]]
          /\ \A u \in Sagas : u # s => reserve'[u] = reserve[u]
          /\ reserve'[s].status = "CANCELED"
      BY <1>3, <3>3, <3>4 DEF TypeOK, StoreTypeOK
    <3> QED
      BY <2>3, <3>5, <3>6
  <2> QED
    BY <1>4, <2>2, <2>3 DEF CancelDeductStock, itemVars
<1>10. TypeOK'
  <2>1. LoopMoves(c, "take", NoEvent) \/ LoopMoves(c, "logCanceled", hand[c])
    BY <1>7
  <2> QED
    BY <1>3, <1>4, <1>6, <1>8, <1>9, <2>1 DEF TypeOK, StoreTypeOK, LoopMoves
<1>11. LocalStep(c)
  BY <1>1, <1>3, <1>4, <1>6, <1>7, <1>8, <1>9 DEF LocalStep, SameRows, LoopMoves
<1>12. LoopShape(c)'
  BY <1>3, <1>7 DEF LoopShape, EventKind, EventShape, LoopMoves
<1>13. LoopKind(c) = "failing"
  BY <1>1, <1>3 DEF LoopKind, EventKind
<1>14. Bought(s) => Bought(s)'
  <2>1. Held(c, s)
    BY <1>3 DEF Held
  <2>2. Bought(s) => <<"commit", s>> \in fault'
    BY <1>5, <1>6, <1>13, <2>1, FailedIsNotBought
  <2> QED
    BY <2>2 DEF Bought
<1>15. LoopOK(c)'
  <2>1. CASE reply # "true"
    BY <1>7, <2>1 DEF LoopMoves, LoopOK
  <2>2. CASE reply = "true"
    <3>1. loc'[c] = "logCanceled" /\ hand'[c] = hand[c] /\ todo'[c] = todo[c]
      BY <1>7, <2>2 DEF LoopMoves
    <3>2. sagaStatus'[s] # "CANCELED" /\ reserve'[s].status # "NORMAL"
      BY <1>4, <1>5, <1>9
    <3>3. CASE todo[c] = <<"CREATE_ORDER">>
      <4>1. reserve' = reserve /\ order'[s] # "NORMAL" /\ log' = log
        BY <1>4, <1>8, <1>9, <2>2, <3>3
      <4>2. UndoOK(c)'
        BY <1>1, <1>3, <3>1, <3>2, <3>3, <4>1 DEF UndoOK, StockGone
      <4> QED
        BY <3>1, <4>2 DEF LoopOK
    <3>4. CASE todo[c] # <<"CREATE_ORDER">>
      <4>1. reserve'[s].status = "CANCELED" /\ log' = log
        BY <1>4, <1>9, <2>2, <3>4
      <4>2. UndoOK(c)'
        BY <1>1, <1>3, <3>1, <3>2, <3>4, <4>1 DEF UndoOK
      <4> QED
        BY <3>1, <4>2 DEF LoopOK
    <3> QED
      BY <3>3, <3>4
  <2> QED
    BY <2>1, <2>2
<1>16. SagaOK(s)'
  BY <1>3, <1>4, <1>5, <1>6, <1>8, <1>14 DEF SagaOK, Starting
<1>17. Locks'
  <2>1. loc'[c] # "putDeducted"
    BY <1>7 DEF LoopMoves
  <2> QED
    BY <1>9, <1>10, <1>11, <2>1, LocalLocks
<1>18. KindStep(c)
  <2>1. CASE reply # "true"
    BY <1>7, <2>1 DEF KindStep, LoopMoves
  <2>2. CASE reply = "true"
    BY <1>1, <1>3, <1>7, <2>2 DEF KindStep, LoopKind, EventKind, LoopMoves
  <2> QED
    BY <2>1, <2>2
<1>19. hand'[c] # NoEvent \/ <<"call", s>> \in fault' \/ ItemOf[s] \notin Items
  BY <1>3, <1>6, <1>7 DEF LoopMoves
<1> QED
  BY <1>3, <1>4, <1>10, <1>11, <1>12, <1>13, <1>14, <1>15, <1>16, <1>17, <1>18, <1>19, LocalIInv

LEMMA LogCanceledIInv ==
  ASSUME IInv, NEW c \in Sagas, NEW reply \in Reply, LogCanceled(c, reply)
  PROVE  IInv'
<1>1. loc[c] = "logCanceled"
  BY DEF LogCanceled
<1>2. PICK s \in Sagas : Knows(c, s)
  BY <1>1, LoopKnows
<1>3. /\ s = hand[c].saga /\ hand[c] \in Events /\ hand[c] # NoEvent /\ TypeOK /\ SagaOK(s)
      /\ ~hand[c].succeed /\ ~Starting(s) /\ UndoOK(c) /\ EventShape(hand[c])
      /\ todo[c] \in {<<"DEDUCT_STOCK", "CREATE_ORDER">>, <<"CREATE_ORDER">>, <<"DEDUCT_STOCK">>}
  BY <1>1, <1>2 DEF Knows, LoopShape, LoopOK
<1>4. PICK step \in Steps :
      /\ step = Head(todo[c])
      /\ step = "CREATE_ORDER" <=> todo[c] = <<"CREATE_ORDER">>
      /\ Len(todo[c]) # 1 <=> todo[c] = <<"DEDUCT_STOCK", "CREATE_ORDER">>
      /\ Tail(todo[c]) = IF todo[c] = <<"DEDUCT_STOCK", "CREATE_ORDER">> THEN <<"CREATE_ORDER">> ELSE <<>>
  <2>1. CASE todo[c] = <<"DEDUCT_STOCK", "CREATE_ORDER">>
    BY <2>1 DEF Steps
  <2>2. CASE todo[c] = <<"CREATE_ORDER">>
    BY <2>2 DEF Steps
  <2>3. CASE todo[c] = <<"DEDUCT_STOCK">>
    BY <2>3 DEF Steps
  <2> QED
    BY <1>3, <2>1, <2>2, <2>3
<1> DEFINE next == IF todo[c] = <<"DEDUCT_STOCK", "CREATE_ORDER">> THEN "compensate" ELSE "updateSaga"
           rest == IF todo[c] = <<"DEDUCT_STOCK", "CREATE_ORDER">> THEN <<"CREATE_ORDER">> ELSE <<>>
<1>5. /\ UpdateSagaLogEventStatus(s, step, "CANCELED", reply)
      /\ reply # "exn" => /\ loc' = [loc EXCEPT ![c] = next]
                          /\ todo' = [todo EXCEPT ![c] = Tail(todo[c])]
                          /\ hand' = hand
      /\ reply = "exn" => Done(c)
      /\ Blame(s, reply, FALSE)
      /\ UNCHANGED <<itemVars, order, sagaStatus, queue, pc>>
  BY <1>3, <1>4 DEF LogCanceled
<1>6. /\ fault \subseteq fault' /\ fault' \subseteq {"call", "commit"} \X Sagas
      /\ \A u \in Sagas : <<"commit", u>> \in fault' <=> <<"commit", u>> \in fault
      /\ \A u \in Sagas : u # s => (<<"call", u>> \in fault' <=> <<"call", u>> \in fault)
      /\ reply = "exn" => <<"call", s>> \in fault'
  BY <1>3, <1>5, BlameEffect
<1>7. /\ reply = "exn" => LoopMoves(c, "take", NoEvent)
      /\ reply # "exn" => LoopMoves(c, next, hand[c]) /\ todo'[c] = rest
  <2>1. reply = "exn" => LoopMoves(c, "take", NoEvent)
    BY <1>3, <1>5, DoneEffect
  <2>2. next \in Location /\ rest \in Seq(Steps) /\ rest = Tail(todo[c])
    BY <1>4 DEF Location, Steps
  <2> HIDE DEF next, rest
  <2>3. reply # "exn" => LoopMoves(c, next, hand[c]) /\ todo'[c] = rest
    BY <1>3, <1>5, <2>2 DEF TypeOK, LoopMoves
  <2> QED
    BY <2>1, <2>3
<1>8. /\ log' \in LogType
      /\ \A u \in Sagas : u # s => log'[u] = log[u]
      /\ \A e \in Steps : log'[s][e] = log[s][e]
           \/ (e = step /\ log[s][e] # "NONE" /\ log'[s][e] = "CANCELED")
  BY <1>3, <1>5, UpdateLogEffect
<1>20. /\ log'[s]["CREATE_ORDER"] = "NONE" <=> log[s]["CREATE_ORDER"] = "NONE"
       /\ log'[s]["DEDUCT_STOCK"] = "NONE" <=> log[s]["DEDUCT_STOCK"] = "NONE"
  BY <1>8 DEF Steps
<1>9. /\ stock' = stock /\ order' = order /\ reserve' = reserve /\ sagaStatus' = sagaStatus
      /\ queue' = queue /\ pc' = pc
  BY <1>5 DEF itemVars
<1>10. TypeOK'
  <2>1. LoopMoves(c, "take", NoEvent) \/ LoopMoves(c, next, hand[c])
    BY <1>7
  <2> QED
    BY <1>3, <1>6, <1>8, <1>9, <2>1 DEF TypeOK, StoreTypeOK, LoopMoves, LogType
<1>11. LocalStep(c)
  BY <1>1, <1>3, <1>6, <1>7, <1>8, <1>9 DEF LocalStep, SameRows, LoopMoves
<1>12. LoopShape(c)'
  BY <1>3, <1>7 DEF LoopShape, EventKind, EventShape, LoopMoves
<1>13. LoopKind(c) = "failing"
  BY <1>1, <1>3 DEF LoopKind, EventKind
<1>14. sagaStatus[s] # "CANCELED" /\ reserve[s].status # "NORMAL"
  BY <1>3 DEF UndoOK
<1>15. Bought(s) => Bought(s)'
  <2>1. Held(c, s)
    BY <1>3 DEF Held
  <2>2. Bought(s) => <<"commit", s>> \in fault'
    BY <1>6, <1>13, <1>14, <2>1, FailedIsNotBought
  <2> QED
    BY <2>2 DEF Bought
<1>16. LoopOK(c)'
  <2>1. CASE reply = "exn"
    BY <1>7, <2>1 DEF LoopMoves, LoopOK
  <2>2. CASE reply # "exn" /\ todo[c] = <<"DEDUCT_STOCK", "CREATE_ORDER">>
    <3>1. loc'[c] = "compensate" /\ hand'[c] = hand[c] /\ todo'[c] = <<"CREATE_ORDER">>
      BY <1>7, <2>2 DEF LoopMoves
    <3>2. log[s]["CREATE_ORDER"] # "NONE" /\ reserve[s].status = "CANCELED"
      BY <1>1, <1>3, <2>2 DEF UndoOK
    <3>3. UndoOK(c)'
      BY <1>3, <1>9, <1>14, <1>20, <3>1, <3>2 DEF UndoOK, StockGone
    <3> QED
      BY <3>1, <3>3 DEF LoopOK
  <2>3. CASE reply # "exn" /\ todo[c] # <<"DEDUCT_STOCK", "CREATE_ORDER">>
    <3>1. loc'[c] = "updateSaga" /\ hand'[c] = hand[c]
      BY <1>7, <2>3 DEF LoopMoves
    <3>2. order[s] # "NORMAL" \/ log[s]["CREATE_ORDER"] = "NONE"
      BY <1>1, <1>3, <2>3 DEF UndoOK
    <3> QED
      BY <1>3, <1>9, <1>14, <1>20, <3>1, <3>2 DEF LoopOK, OrderGone
  <2> QED
    BY <2>1, <2>2, <2>3
<1>17. SagaOK(s)'
  BY <1>3, <1>6, <1>9, <1>14, <1>15, <1>20 DEF SagaOK, Starting
<1>18. Locks'
  <2>1. loc'[c] # "putDeducted"
    BY <1>7 DEF LoopMoves
  <2> QED
    BY <1>9, <1>10, <1>11, <2>1, QuietLocks
<1>19. KindStep(c)
  <2>1. CASE reply = "exn"
    BY <1>7, <2>1 DEF KindStep, LoopMoves
  <2>2. CASE reply # "exn"
    BY <1>1, <1>3, <1>7, <2>2 DEF KindStep, LoopKind, EventKind, LoopMoves
  <2> QED
    BY <2>1, <2>2
<1>21. hand'[c] # NoEvent \/ <<"call", s>> \in fault'
  BY <1>3, <1>6, <1>7 DEF LoopMoves
<1> QED
  BY <1>3, <1>9, <1>10, <1>11, <1>12, <1>13, <1>15, <1>16, <1>17, <1>18, <1>19, <1>21, LocalIInv

LEMMA UpdateSagaIInv ==
  ASSUME IInv, NEW c \in Sagas, NEW reply \in Reply, UpdateSaga(c, reply)
  PROVE  IInv'
<1>1. loc[c] = "updateSaga"
  BY DEF UpdateSaga
<1>2. PICK s \in Sagas : Knows(c, s)
  BY <1>1, LoopKnows
<1>3. /\ s = hand[c].saga /\ hand[c] \in Events /\ hand[c] # NoEvent /\ TypeOK /\ SagaOK(s)
      /\ ~Starting(s)
      /\ hand[c].succeed => Bought(s) /\ LoopKind(c) = "late"
      /\ ~hand[c].succeed => /\ sagaStatus[s] # "CANCELED" /\ reserve[s].status # "NORMAL"
                             /\ OrderGone(s) /\ LoopKind(c) = "failing"
  BY <1>1, <1>2 DEF Knows, LoopShape, LoopOK, LoopKind, EventKind
<1>4. PICK end \in {"FINISHED", "CANCELED"} : end = IF hand[c].succeed THEN "FINISHED" ELSE "CANCELED"
  OBVIOUS
<1>5. /\ UpdateSagaStatus(s, end, reply) /\ Done(c)
      /\ Blame(s, reply, sagaStatus[s] # "INIT")
      /\ UNCHANGED <<itemVars, order, log, queue, pc>>
  BY <1>3, <1>4 DEF UpdateSaga
<1>6. /\ fault \subseteq fault' /\ fault' \subseteq {"call", "commit"} \X Sagas
      /\ \A u \in Sagas : <<"commit", u>> \in fault' <=> <<"commit", u>> \in fault
      /\ \A u \in Sagas : u # s => (<<"call", u>> \in fault' <=> <<"call", u>> \in fault)
      /\ reply # "true" => <<"call", s>> \in fault' \/ sagaStatus[s] # "INIT"
  <2>1. PICK refusable \in BOOLEAN : Blame(s, reply, refusable) /\ refusable = (sagaStatus[s] # "INIT")
    BY <1>5
  <2> QED
    BY <1>3, <2>1, BlameEffect DEF Reply
<1>7. LoopMoves(c, "take", NoEvent)
  BY <1>3, <1>5, DoneEffect
<1>8. /\ sagaStatus' \in [Sagas -> {"NONE", "INIT", "FINISHED", "CANCELED"}]
      /\ \A u \in Sagas : u # s => sagaStatus'[u] = sagaStatus[u]
      /\ sagaStatus'[s] = sagaStatus[s] \/ (sagaStatus[s] = "INIT" /\ sagaStatus'[s] = end)
      /\ reply = "true" => sagaStatus'[s] = end
      /\ sagaStatus[s] \in {"NONE", "INIT", "FINISHED", "CANCELED"}
  <2>1. sagaStatus \in [Sagas -> {"NONE", "INIT", "FINISHED", "CANCELED"}]
    BY <1>3 DEF TypeOK, StoreTypeOK
  <2>2. CASE sagaStatus[s] = "INIT" /\ sagaStatus' = [sagaStatus EXCEPT ![s] = end]
    BY <1>4, <2>1, <2>2
  <2>3. CASE sagaStatus' = sagaStatus /\ reply # "true"
    BY <2>1, <2>3
  <2> QED
    BY <1>5, <2>2, <2>3 DEF UpdateSagaStatus
<1>9. /\ stock' = stock /\ order' = order /\ reserve' = reserve /\ log' = log
      /\ queue' = queue /\ pc' = pc
  BY <1>5 DEF itemVars
<1>10. TypeOK'
  BY <1>3, <1>6, <1>7, <1>8, <1>9 DEF TypeOK, StoreTypeOK, LoopMoves
<1>11. LocalStep(c)
  BY <1>1, <1>3, <1>6, <1>7, <1>8, <1>9 DEF LocalStep, SameRows, LoopMoves
<1>12. LoopShape(c)' /\ LoopOK(c)'
  BY <1>7 DEF LoopShape, LoopOK, LoopMoves
<1>13. Bought(s) => Bought(s)'
  BY <1>1, <1>6, <1>7, <1>9 DEF Bought, LoopMoves
<1>14. SagaOK(s)'
  <2>1. sagaStatus'[s] = "FINISHED" => Bought(s)'
    <3>1. sagaStatus'[s] = "FINISHED" => sagaStatus[s] = "FINISHED" \/ hand[c].succeed
      BY <1>4, <1>8
    <3>2. sagaStatus[s] = "FINISHED" => Bought(s)
      BY <1>3 DEF SagaOK
    <3> QED
      BY <1>3, <1>13, <3>1, <3>2
  <2>2. sagaStatus'[s] = "CANCELED" => reserve'[s].status # "NORMAL" /\ OrderGone(s)'
    <3>1. sagaStatus'[s] = "CANCELED" => sagaStatus[s] = "CANCELED" \/ ~hand[c].succeed
      BY <1>4, <1>8
    <3>2. sagaStatus[s] = "CANCELED" => reserve[s].status # "NORMAL" /\ OrderGone(s)
      BY <1>3 DEF SagaOK
    <3> QED
      BY <1>3, <1>9, <3>1, <3>2 DEF OrderGone
  <2>3. sagaStatus[s] # "NONE" => sagaStatus'[s] # "NONE"
    BY <1>4, <1>8
  <2> QED
    BY <1>3, <1>6, <1>9, <2>1, <2>2, <2>3 DEF SagaOK, Starting
<1>15. Locks'
  <2>1. loc'[c] # "putDeducted"
    BY <1>7 DEF LoopMoves
  <2> QED
    BY <1>9, <1>10, <1>11, <2>1, QuietLocks
<1>16. KindStep(c)
  BY <1>7 DEF KindStep, LoopMoves
<1>17. LoopKind(c) = "late" => LateEffect(s)
  <2>1. LoopKind(c) = "late" => end = "FINISHED"
    BY <1>3, <1>4
  <2> QED
    BY <1>8, <1>9, <2>1 DEF LateEffect
<1>18. <<"call", s>> \in fault' \/ sagaStatus'[s] \in {"FINISHED", "CANCELED"}
  <2>1. CASE reply = "true"
    BY <1>8, <2>1
  <2>2. CASE sagaStatus[s] # "INIT"
    <3>1. sagaStatus[s] = "NONE" => <<"call", s>> \in fault
      BY <1>3 DEF SagaOK, Starting
    <3> QED
      BY <1>6, <1>8, <2>2, <3>1
  <2> QED
    BY <1>6, <2>1, <2>2
<1>19. sagaStatus[s] \in {"FINISHED", "CANCELED"} => sagaStatus'[s] = sagaStatus[s]
  BY <1>8
<1> QED
  BY <1>3, <1>10, <1>11, <1>12, <1>13, <1>14, <1>15, <1>16, <1>17, <1>18, <1>19, LocalIInv

-----------------------------------------------------------------------------
(***************************************************************************)
(* The steps that put and take events, and those of placeOrder, leave the  *)
(* rows of the other purchases alone and do not end a commit.              *)
(***************************************************************************)
KeepsCommits(u) == \A x \in Sagas :
  loc[x] = "commitDeduct" /\ hand[x].saga = u => loc'[x] = "commitDeduct" /\ hand'[x].saga = u

LEMMA RowsKept ==
  ASSUME IInv, NEW u \in Sagas, SameRows(u), KeepsCommits(u)
  PROVE  /\ Bought(u) => Bought(u)'
         /\ \A e \in Events : e.saga = u /\ EventOK(e) => EventOK(e)'
         /\ \A d \in Sagas : /\ Held(d, u)
                             /\ loc'[d] = loc[d] /\ hand'[d] = hand[d] /\ todo'[d] = todo[d]
                             => LoopOK(d)'
         /\ pc'[u] = pc[u] => SagaOK(u)'
<1> DEFINE Same == /\ order'[u] = order[u] /\ reserve'[u] = reserve[u] /\ sagaStatus'[u] = sagaStatus[u]
                   /\ log'[u] = log[u]
                   /\ <<"call", u>> \in fault' <=> <<"call", u>> \in fault
                   /\ <<"commit", u>> \in fault' <=> <<"commit", u>> \in fault
<1>1. Same
  BY DEF SameRows
<1>2. Bought(u) => Bought(u)'
  BY <1>1 DEF Bought, KeepsCommits
<1>3. \A n : UnderWay(u, n) <=> UnderWay(u, n)'
  BY <1>1 DEF UnderWay
<1>4. ToUndo(u) => ToUndo(u)'
  BY <1>1 DEF ToUndo
<1>5. \A e \in Events : e.saga = u /\ EventOK(e) => EventOK(e)'
  BY <1>2, <1>3, <1>4 DEF EventOK
<1>6. ASSUME NEW d \in Sagas, Held(d, u), loc'[d] = loc[d], hand'[d] = hand[d], todo'[d] = todo[d]
      PROVE  LoopOK(d)'
  <2>1. LoopOK(d) /\ hand[d] \in Events /\ hand[d].saga = u
    BY <1>6, EventsType DEF IInv, Databases, TypeOK, Held
  <2>2. EventOK(hand[d]) => EventOK(hand[d])'
    BY <1>2, <1>3, <1>4, <1>6, <2>1 DEF EventOK, EventKind
  <2>3. UndoOK(d) => UndoOK(d)'
    BY <1>1, <1>6, <2>1 DEF UndoOK, StockGone
  <2>4. \A n : UnderWay(hand[d].saga, n) => UnderWay(hand[d].saga, n)'
    BY <1>3, <1>6, <2>1 DEF UnderWay
  <2>5. Bought(hand[d].saga) => Bought(hand[d].saga)'
    BY <1>2, <1>6, <2>1 DEF Bought
  <2> QED
    BY <1>1, <1>6, <2>1, <2>2, <2>3, <2>4, <2>5 DEF LoopOK, OrderGone
<1>7. ASSUME pc'[u] = pc[u] PROVE SagaOK(u)'
  <2>1. SagaOK(u)
    BY DEF IInv, Databases
  <2> QED
    BY <1>1, <1>2, <1>3, <1>7, <2>1 DEF SagaOK, Starting, OrderGone
<1> QED
  BY <1>2, <1>5, <1>6, <1>7

(* The queue. *)
LEMMA TailEffect ==
  ASSUME TypeOK, queue # <<>>
  PROVE  /\ Len(queue) \in Nat \ {0} /\ Head(queue) = queue[1] /\ queue[1] \in Events
         /\ Tail(queue) \in Seq(Events) /\ Len(Tail(queue)) = Len(queue) - 1
         /\ \A i \in 1 .. Len(Tail(queue)) : Tail(queue)[i] = queue[i + 1]
BY DEF TypeOK

LEMMA AppendEffect ==
  ASSUME TypeOK, NEW e \in Events, HasRoom
  PROVE  /\ Append(queue, e) \in Seq(Events) /\ Len(Append(queue, e)) <= QueueSize
         /\ Len(queue) \in Nat /\ Len(Append(queue, e)) = Len(queue) + 1
         /\ \A i \in 1 .. Len(queue) : Append(queue, e)[i] = queue[i]
         /\ Append(queue, e)[Len(queue) + 1] = e
BY QueueAssumption DEF TypeOK, HasRoom

LEMMA TakeIInv ==
  ASSUME IInv, NEW c \in Sagas, Take(c)
  PROVE  IInv'
<1>1. PICK e \in Events : e = Head(queue) /\ InQueue(e) /\ e.saga \in Sagas /\ e # NoEvent
  BY TailEffect, EventsType DEF Take, InQueue, IInv
<1>2. PICK next \in {"selectLog", "insertLog", "updateLog"} :
      /\ loc' = [loc EXCEPT ![c] = next] /\ hand' = [hand EXCEPT ![c] = e]
      /\ next = IF ~e.succeed THEN "selectLog" ELSE IF e.name = "INIT" THEN "insertLog" ELSE "updateLog"
  BY <1>1 DEF Take
<1>3. /\ loc[c] = "take" /\ queue' = Tail(queue) /\ todo' = todo /\ pc' = pc /\ fault' = fault
      /\ stock' = stock /\ reserve' = reserve /\ order' = order /\ sagaStatus' = sagaStatus /\ log' = log
  BY DEF Take, dbVars
<1>4. /\ loc' \in [Sagas -> Location] /\ hand' \in [Sagas -> Events \cup {NoEvent}]
      /\ loc'[c] = next /\ hand'[c] = e
      /\ \A d \in Sagas : d # c => loc'[d] = loc[d] /\ hand'[d] = hand[d]
  BY <1>2 DEF IInv, TypeOK, Location
<1>5. hand[c] = NoEvent
  BY <1>3 DEF IInv, Control, LoopShape
<1>6. /\ Len(queue) \in Nat \ {0} /\ queue[1] = e
      /\ queue' \in Seq(Events) /\ Len(queue') = Len(queue) - 1
      /\ \A i \in 1 .. Len(queue') : queue'[i] = queue[i + 1]
  BY <1>1, <1>3, TailEffect DEF IInv, Take
<1>7. \A i \in 1 .. Len(queue') : i + 1 \in 1 .. Len(queue) /\ i + 1 # 1 /\ queue'[i] = queue[i + 1]
  BY <1>6
<1>8. \A f \in Events : /\ InQueue(f)' => InQueue(f)
                        /\ InQueue(f) => f = e \/ InQueue(f)'
  <2>1. ASSUME NEW f \in Events, InQueue(f), f # e PROVE InQueue(f)'
    <3>1. PICK i \in 1 .. Len(queue) : queue[i] = f
      BY <2>1 DEF InQueue
    <3>2. i - 1 \in 1 .. Len(queue') /\ queue'[i - 1] = f
      BY <1>6, <2>1, <3>1
    <3> QED
      BY <3>2 DEF InQueue
  <2> QED
    BY <1>7, <2>1 DEF InQueue
<1>9. TypeOK'
  <2>1. Len(queue') <= QueueSize
    BY <1>6, QueueAssumption DEF IInv, TypeOK
  <2> QED
    BY <1>3, <1>4, <1>6, <2>1 DEF IInv, TypeOK, StoreTypeOK
<1>10. EventShape(e) /\ EventOK(e) /\ loc[e.saga] # "off"
  BY <1>1 DEF IInv, Control, Databases
<1>11. Control'
  <2>1. LoopShape(c)'
    BY <1>1, <1>2, <1>4, <1>10, EventsType DEF LoopShape, EventKind, EventShape
  <2>2. ASSUME NEW d \in Sagas, d # c PROVE LoopShape(d)'
    BY <1>3, <1>4, <2>2 DEF IInv, Control, LoopShape, EventKind, EventShape
  <2>3. \A d \in Sagas : loc'[d] = "off" <=> loc[d] = "off"
    BY <1>3, <1>4
  <2>4. OwnLoop'
    <3>1. \A d \in Sagas : hand[d] # NoEvent => hand[d].saga \in Sagas /\ loc[hand[d].saga] # "off"
      BY EventsType DEF IInv, Control, OwnLoop, TypeOK
    <3>2. \A d \in Sagas : hand'[d] # NoEvent => loc'[hand'[d].saga] # "off"
      BY <1>1, <1>4, <1>10, <2>3, <3>1
    <3> QED
      BY <1>3, <2>3, <3>2 DEF IInv, Control, OwnLoop
  <2> QED
    BY <1>8, <2>1, <2>2, <2>3, <2>4, EventsType DEF IInv, Control, EventShape
<1>12. Apart'
  <2>1. LoopKind(c)' = EventKind(e) /\ \A d \in Sagas : d # c => LoopKind(d)' = LoopKind(d)
    BY <1>2, <1>4 DEF LoopKind, EventKind
  <2>2. QueueApart'
    <3> SUFFICES ASSUME NEW i \in 1 .. Len(queue'), NEW j \in 1 .. Len(queue'), i # j,
                        queue'[i].saga = queue'[j].saga
                 PROVE  Together(EventKind(queue[i]), EventKind(queue[j]), queue[i].saga)'
      BY DEF QueueApart, Together, LateAnd, EventKind
    <3>1. PICK f \in Events, g \in Events :
          /\ f = queue[i + 1] /\ f = queue'[i] /\ i + 1 \in 1 .. Len(queue)
          /\ g = queue[j + 1] /\ g = queue'[j] /\ j + 1 \in 1 .. Len(queue) /\ i + 1 # j + 1
      BY <1>7 DEF IInv, TypeOK
    <3>2. Together(EventKind(f), EventKind(g), f.saga)
      BY <3>1 DEF IInv, Apart, QueueApart
    <3> QED
      BY <1>3, <3>1, <3>2 DEF Together, LateAnd, EventKind
  <2>3. QueueAndLoopsApart'
    <3> SUFFICES ASSUME NEW i \in 1 .. Len(queue'), NEW d \in Sagas, NEW u,
                        u = queue'[i].saga, hand'[d] # NoEvent, hand'[d].saga = u
                 PROVE  Together(EventKind(queue[i]), LoopKind(d), u)'
      BY DEF QueueAndLoopsApart, Held, Together, LateAnd
    <3>1. PICK f \in Events : f = queue[i + 1] /\ f = queue'[i] /\ i + 1 \in 1 .. Len(queue) /\ i + 1 # 1
      BY <1>7 DEF IInv, TypeOK
    <3>2. CASE d = c
      <4>1. f.saga = queue[1].saga /\ 1 \in 1 .. Len(queue)
        BY <1>4, <1>6, <3>1, <3>2
      <4>2. Together(EventKind(f), EventKind(e), u)
        BY <1>6, <3>1, <4>1 DEF IInv, Apart, QueueApart
      <4> QED
        BY <1>3, <2>1, <3>1, <3>2, <4>2 DEF Together, LateAnd, EventKind
    <3>3. CASE d # c
      <4>1. Together(EventKind(f), LoopKind(d), u)
        BY <1>4, <3>1, <3>3 DEF IInv, Apart, QueueAndLoopsApart, Held
      <4> QED
        BY <1>3, <2>1, <3>1, <3>3, <4>1 DEF Together, LateAnd, EventKind
    <3> QED
      BY <3>2, <3>3
  <2>4. ASSUME NEW d \in Sagas, d # c, hand[d] # NoEvent, hand[d].saga = e.saga
        PROVE  Together(EventKind(e), LoopKind(d), e.saga)
    BY <1>6, <2>4 DEF IInv, Apart, QueueAndLoopsApart, Held
  <2>5. LoopsApart'
    <3> SUFFICES ASSUME NEW x \in Sagas, NEW d \in Sagas, x # d, NEW u,
                        hand'[x] # NoEvent, hand'[d] # NoEvent, u = hand'[x].saga, hand'[d].saga = u
                 PROVE  Together(LoopKind(x), LoopKind(d), u)'
      BY DEF LoopsApart, Held, Together, LateAnd
    <3>1. CASE x = c
      BY <1>3, <1>4, <2>1, <2>4, <3>1 DEF Together, LateAnd
    <3>2. CASE d = c
      BY <1>3, <1>4, <2>1, <2>4, <3>2 DEF Together, LateAnd
    <3>3. CASE x # c /\ d # c
      <4>1. Together(LoopKind(x), LoopKind(d), u)
        BY <1>4, <3>3 DEF IInv, Apart, LoopsApart, Held
      <4> QED
        BY <1>3, <2>1, <3>3, <4>1 DEF Together, LateAnd
    <3> QED
      BY <3>1, <3>2, <3>3
  <2>6. StartApart'
    BY <1>1, <1>3, <1>4, <1>8 DEF IInv, Apart, StartApart, Starting, Held
  <2> QED
    BY <2>2, <2>3, <2>5, <2>6 DEF Apart
<1>13. \A u \in Sagas : SameRows(u) /\ KeepsCommits(u)
  BY <1>3, <1>4 DEF SameRows, KeepsCommits
<1>14. Databases'
  <2>1. \A f \in Events : InQueue(f)' => EventOK(f)'
    BY <1>8, <1>13, RowsKept, EventsType DEF IInv, Databases
  <2>2. LoopOK(c)'
    <3>1. EventOK(hand[c])'
      BY <1>1, <1>4, <1>10, <1>13, RowsKept DEF EventOK, EventKind
    <3> QED
      BY <1>4, <3>1 DEF LoopOK
  <2>3. ASSUME NEW d \in Sagas, d # c PROVE LoopOK(d)'
    <3>1. CASE hand[d] = NoEvent
      <4>1. loc'[d] \in {"off", "take"}
        BY <1>4, <2>3, <3>1 DEF IInv, Control, LoopShape
      <4> QED
        BY <4>1 DEF LoopOK
    <3>2. CASE hand[d] # NoEvent
      <4>1. PICK u \in Sagas : Held(d, u)
        BY <3>2, EventsType DEF IInv, TypeOK, Held
      <4> QED
        BY <1>3, <1>4, <1>13, <2>3, <4>1, RowsKept
    <3> QED
      BY <3>1, <3>2
  <2>4. \A u \in Sagas : SagaOK(u)'
    BY <1>3, <1>13, RowsKept
  <2> QED
    BY <2>1, <2>2, <2>3, <2>4 DEF Databases
<1>15. GoesOn'
  <2> SUFFICES ASSUME NEW u \in Sagas, pc'[u] = "returned", ItemOf[u] \in Items,
                      <<"call", u>> \notin fault', <<"commit", u>> \notin fault',
                      sagaStatus'[u] \notin {"FINISHED", "CANCELED"}
               PROVE  \/ \E f \in Events : InQueue(f)' /\ f.saga = u
                      \/ \E d \in Sagas : Held(d, u)' /\ loc'[d] # "commitDeduct"
    BY DEF GoesOn
  <2>1. \/ \E f \in Events : InQueue(f) /\ f.saga = u
        \/ \E d \in Sagas : Held(d, u) /\ loc[d] # "commitDeduct"
    BY <1>3 DEF IInv, GoesOn
  <2>2. CASE \E f \in Events : InQueue(f) /\ f.saga = u
    BY <1>1, <1>4, <1>8, <2>2 DEF Held
  <2>3. CASE \E d \in Sagas : Held(d, u) /\ loc[d] # "commitDeduct"
    BY <1>4, <1>5, <2>3 DEF Held
  <2> QED
    BY <2>1, <2>2, <2>3
<1>16. Locks'
  <2>1. \A d \in Sagas : Locking(d)' => Locking(d) /\ hand'[d] = hand[d]
    BY <1>2, <1>4 DEF Locking
  <2> QED
    BY <1>3, <2>1 DEF IInv, Locks
<1> QED
  BY <1>9, <1>11, <1>12, <1>14, <1>15, <1>16 DEF IInv

LEMMA PutInQueue ==
  ASSUME TypeOK, NEW e \in Events, HasRoom, queue' = Append(queue, e)
  PROVE  /\ queue' \in Seq(Events) /\ Len(queue') <= QueueSize
         /\ \A i \in 1 .. Len(queue') : \/ i \in 1 .. Len(queue) /\ queue'[i] = queue[i]
                                        \/ i = Len(queue) + 1 /\ queue'[i] = e
         /\ \A f \in Events : InQueue(f)' <=> InQueue(f) \/ f = e
<1>1. /\ queue' \in Seq(Events) /\ Len(queue') <= QueueSize
      /\ Len(queue) \in Nat /\ Len(queue') = Len(queue) + 1
      /\ \A i \in 1 .. Len(queue) : queue'[i] = queue[i]
      /\ queue'[Len(queue) + 1] = e
  BY AppendEffect
<1>2. /\ \A i \in 1 .. Len(queue') : i \in 1 .. Len(queue) \/ i = Len(queue) + 1
      /\ \A i \in 1 .. Len(queue) : i \in 1 .. Len(queue')
      /\ Len(queue) + 1 \in 1 .. Len(queue')
  BY <1>1
<1>3. \A f \in Events : InQueue(f)' <=> InQueue(f) \/ f = e
  BY <1>1, <1>2 DEF InQueue
<1> QED
  BY <1>1, <1>2, <1>3

(* A new event is apart if it is from the old ones, and the loops do not   *)
(* take part in anything but what they held before.                        *)
LEMMA PutApart ==
  ASSUME IInv, NEW e \in Events, HasRoom, queue' = Append(queue, e), fault' = fault,
         \A f \in Events : InQueue(f) /\ f.saga = e.saga =>
           Together(EventKind(e), EventKind(f), e.saga),
         \A d \in Sagas : hand'[d] # NoEvent /\ hand'[d].saga = e.saga =>
           Together(EventKind(e), LoopKind(d), e.saga)',
         \A d \in Sagas : hand'[d] # NoEvent =>
           hand'[d] = hand[d] /\ ((LoopKind(d)' = LoopKind(d)) \/ LoopKind(d) = "early"),
         ~Starting(e.saga)', \A u \in Sagas : Starting(u)' => Starting(u)
  PROVE  Apart'
<1>1. /\ \A i \in 1 .. Len(queue') : \/ i \in 1 .. Len(queue) /\ queue'[i] = queue[i]
                                     \/ i = Len(queue) + 1 /\ queue'[i] = e
      /\ \A f \in Events : InQueue(f)' <=> InQueue(f) \/ f = e
  BY PutInQueue DEF IInv
<1>2. queue \in Seq(Events)
  BY DEF IInv, TypeOK
<1>3. \A i \in 1 .. Len(queue) : queue[i] \in Events /\ InQueue(queue[i])
  BY <1>2 DEF InQueue
<1>4. \A k, l, u : Together(k, l, u) <=> Together(l, k, u)
  BY DEF Together
<1>5. QueueApart'
  <2> SUFFICES ASSUME NEW i \in 1 .. Len(queue'), NEW j \in 1 .. Len(queue'), i # j,
                      queue'[i].saga = queue'[j].saga
               PROVE  Together(EventKind(queue[i]), EventKind(queue[j]), queue[i].saga)'
    BY DEF QueueApart, Together, LateAnd, EventKind
  <2>1. PICK f \in Events, g \in Events : f = queue'[i] /\ g = queue'[j]
    BY <1>1, <1>3
  <2>2. Together(EventKind(f), EventKind(g), f.saga)
    <3>1. CASE i \in 1 .. Len(queue) /\ j \in 1 .. Len(queue)
      BY <1>1, <1>2, <2>1, <3>1 DEF IInv, Apart, QueueApart
    <3>2. CASE i \notin 1 .. Len(queue)
      <4>1. f = e /\ j \in 1 .. Len(queue) /\ g = queue[j] /\ InQueue(g)
        BY <1>1, <1>3, <2>1, <3>2
      <4> QED
        BY <2>1, <4>1
    <3>3. CASE j \notin 1 .. Len(queue)
      <4>1. g = e /\ i \in 1 .. Len(queue) /\ f = queue[i] /\ InQueue(f)
        BY <1>1, <1>3, <2>1, <3>3
      <4> QED
        BY <1>4, <2>1, <4>1
    <3> QED
      BY <3>1, <3>2, <3>3
  <2> QED
    BY <2>1, <2>2 DEF Together, LateAnd, EventKind
<1>6. QueueAndLoopsApart'
  <2> SUFFICES ASSUME NEW i \in 1 .. Len(queue'), NEW d \in Sagas, NEW u,
                      u = queue'[i].saga, hand'[d] # NoEvent, hand'[d].saga = u
               PROVE  Together(EventKind(queue[i]), LoopKind(d), u)'
    BY DEF QueueAndLoopsApart, Held, Together, LateAnd
  <2>1. PICK f \in Events : f = queue'[i]
    BY <1>1, <1>3
  <2>2. CASE i \in 1 .. Len(queue)
    <3>1. f = queue[i] /\ hand'[d] = hand[d] /\ hand[d] # NoEvent /\ hand[d].saga = f.saga
      BY <1>1, <1>2, <2>1, <2>2
    <3>2. Together(EventKind(f), LoopKind(d), u)
      BY <2>1, <2>2, <3>1 DEF IInv, Apart, QueueAndLoopsApart, Held
    <3>3. LoopKind(d)' = LoopKind(d)
      BY <3>2 DEF Together, LateAnd
    <3> QED
      BY <2>1, <3>2, <3>3 DEF Together, LateAnd, EventKind
  <2>3. CASE i \notin 1 .. Len(queue)
    <3>1. f = e
      BY <1>1, <2>1, <2>3
    <3> QED
      BY <2>1, <3>1 DEF Together, LateAnd, EventKind
  <2> QED
    BY <2>2, <2>3
<1>7. LoopsApart'
  <2> SUFFICES ASSUME NEW x \in Sagas, NEW d \in Sagas, x # d, NEW u,
                      hand'[x] # NoEvent, hand'[d] # NoEvent, u = hand'[x].saga, hand'[d].saga = u
               PROVE  Together(LoopKind(x), LoopKind(d), u)'
    BY DEF LoopsApart, Held, Together, LateAnd
  <2>1. Together(LoopKind(x), LoopKind(d), u)
    BY DEF IInv, Apart, LoopsApart, Held
  <2>2. (LoopKind(d)' = LoopKind(d)) /\ (LoopKind(x)' = LoopKind(x))
    BY <2>1 DEF Together, LateAnd
  <2> QED
    BY <2>1, <2>2 DEF Together, LateAnd
<1>8. StartApart'
  <2>1. ASSUME NEW u \in Sagas, Starting(u)'
        PROVE  /\ \A f \in Events : InQueue(f)' => f.saga # u
               /\ \A d \in Sagas : ~Held(d, u)'
    BY <1>1, <2>1 DEF IInv, Apart, StartApart, Held
  <2> QED
    BY <2>1 DEF StartApart
<1> QED
  BY <1>5, <1>6, <1>7, <1>8 DEF Apart

LEMMA LoopShapeKept ==
  ASSUME NEW d \in Sagas, LoopShape(d), loc'[d] = loc[d], hand'[d] = hand[d], todo'[d] = todo[d]
  PROVE  LoopShape(d)'
BY DEF LoopShape, EventKind, EventShape

LEMMA OwnLoopKept ==
  ASSUME TypeOK, OwnLoop, \A d \in Sagas : loc'[d] = "off" <=> loc[d] = "off",
         \A d \in Sagas : hand'[d] \in {NoEvent, hand[d]},
         \A u \in Sagas : pc'[u] \in {pc[u], "returned"}
  PROVE  OwnLoop'
<1>1. \A d \in Sagas : hand[d] # NoEvent => hand[d].saga \in Sagas /\ loc[hand[d].saga] # "off"
  BY EventsType DEF OwnLoop, TypeOK
<1>2. \A d \in Sagas : hand'[d] # NoEvent => loc'[hand'[d].saga] # "off"
  BY <1>1
<1> QED
  BY <1>2 DEF OwnLoop

LEMMA PutIInv ==
  ASSUME IInv, NEW e \in Events, NEW c \in Sagas, HasRoom, queue' = Append(queue, e),
         fault' = fault, dbVars' = dbVars, NEW s \in Sagas, s = e.saga,
         loc' \in [Sagas -> Location], hand' \in [Sagas -> Events \cup {NoEvent}],
         todo' \in [Sagas -> Seq(Steps)],
         pc' \in [Sagas -> {"insertSaga", "startLoop", "putInit", "returned", "abandoned"}],
         \A d \in Sagas : d # c => loc'[d] = loc[d] /\ hand'[d] = hand[d] /\ todo'[d] = todo[d],
         hand'[c] \in {NoEvent, hand[c]}, loc'[c] = "off" <=> loc[c] = "off",
         Held(c, s) \/ (loc'[c] = loc[c] /\ hand'[c] = hand[c]),
         \A u \in Sagas : KeepsCommits(u) /\ (u # s => pc'[u] = pc[u]),
         pc'[s] \in {pc[s], "returned"},
         EventShape(e), EventOK(e)', loc[s] # "off",
         LoopShape(c)', LoopOK(c)', SagaOK(s)', Apart', Locks'
  PROVE  IInv'
<1>1. /\ queue' \in Seq(Events) /\ Len(queue') <= QueueSize
      /\ \A f \in Events : InQueue(f)' <=> InQueue(f) \/ f = e
  BY PutInQueue DEF IInv
<1>2. /\ stock' = stock /\ reserve' = reserve /\ order' = order /\ sagaStatus' = sagaStatus
      /\ log' = log
  BY DEF dbVars
<1>3. TypeOK'
  BY <1>1, <1>2 DEF IInv, TypeOK, StoreTypeOK
<1>4. \A d \in Sagas : loc'[d] = "off" <=> loc[d] = "off"
  OBVIOUS
<1>5. Control'
  <2>1. ASSUME NEW d \in Sagas, d # c PROVE LoopShape(d)'
    <3>1. LoopShape(d)
      BY DEF IInv, Control
    <3> QED
      BY <2>1, <3>1, LoopShapeKept
  <2>2. OwnLoop'
    <3>1. OwnLoop /\ TypeOK
      BY DEF IInv, Control
    <3>2. /\ \A d \in Sagas : hand'[d] \in {NoEvent, hand[d]}
          /\ \A u \in Sagas : pc'[u] \in {pc[u], "returned"}
      OBVIOUS
    <3> QED
      BY <1>4, <3>1, <3>2, OwnLoopKept
  <2>3. ASSUME NEW f \in Events, InQueue(f)' PROVE EventShape(f) /\ loc'[f.saga] # "off"
    <3>1. f.saga \in Sagas
      BY EventsType
    <3>2. CASE f = e
      BY <1>4, <3>1, <3>2
    <3>3. CASE InQueue(f)
      BY <1>4, <3>1, <3>3 DEF IInv, Control
    <3> QED
      BY <1>1, <2>3, <3>2, <3>3
  <2>4. \A f \in Events : EventShape(f)' <=> EventShape(f)
    BY DEF EventShape
  <2> QED
    BY <2>1, <2>2, <2>3, <2>4 DEF Control
<1>6. \A u \in Sagas : SameRows(u)
  BY <1>2 DEF SameRows
<1>7. Databases'
  <2>1. \A f \in Events : InQueue(f)' => EventOK(f)'
    BY <1>1, <1>6, RowsKept, EventsType DEF IInv, Databases
  <2>2. ASSUME NEW d \in Sagas, d # c PROVE LoopOK(d)'
    <3>1. CASE hand[d] = NoEvent
      <4>1. loc'[d] \in {"off", "take"}
        BY <2>2, <3>1 DEF IInv, Control, LoopShape
      <4> QED
        BY <4>1 DEF LoopOK
    <3>2. CASE hand[d] # NoEvent
      <4>1. PICK u \in Sagas : Held(d, u)
        BY <3>2, EventsType DEF IInv, TypeOK, Held
      <4> QED
        BY <1>6, <2>2, <4>1, RowsKept
    <3> QED
      BY <3>1, <3>2
  <2>3. \A u \in Sagas : SagaOK(u)'
    BY <1>6, RowsKept
  <2> QED
    BY <2>1, <2>2, <2>3 DEF Databases
<1>8. GoesOn'
  <2> SUFFICES ASSUME NEW u \in Sagas, pc'[u] = "returned", ItemOf[u] \in Items,
                      <<"call", u>> \notin fault', <<"commit", u>> \notin fault',
                      sagaStatus'[u] \notin {"FINISHED", "CANCELED"}
               PROVE  \/ \E f \in Events : InQueue(f)' /\ f.saga = u
                      \/ \E d \in Sagas : Held(d, u)' /\ loc'[d] # "commitDeduct"
    BY DEF GoesOn
  <2>1. CASE u = s
    BY <1>1, <2>1
  <2>2. CASE u # s
    <3>1. \/ \E f \in Events : InQueue(f) /\ f.saga = u
          \/ \E d \in Sagas : Held(d, u) /\ loc[d] # "commitDeduct"
      <4>1. /\ pc[u] = "returned" /\ <<"call", u>> \notin fault /\ <<"commit", u>> \notin fault
            /\ sagaStatus[u] \notin {"FINISHED", "CANCELED"} /\ GoesOn
        BY <1>2, <2>2 DEF IInv
      <4> QED
        BY <4>1 DEF GoesOn
    <3>2. \A d \in Sagas : Held(d, u) => loc'[d] = loc[d] /\ hand'[d] = hand[d]
      BY <2>2 DEF Held
    <3> QED
      BY <1>1, <3>1, <3>2 DEF Held
  <2> QED
    BY <2>1, <2>2
<1> QED
  BY <1>3, <1>5, <1>7, <1>8 DEF IInv

LEMMA PutEventIInv ==
  ASSUME IInv, NEW c \in Sagas, PutEvent(c)
  PROVE  IInv'
<1>1. loc[c] = "putEvent" /\ HasRoom
  BY DEF PutEvent
<1>2. PICK s \in Sagas : Knows(c, s)
  BY <1>1, LoopKnows
<1>3. PICK e \in Events :
      /\ e = hand[c] /\ e # NoEvent /\ e.saga = s /\ Held(c, s) /\ TypeOK /\ SagaOK(s)
      /\ EventOK(e) /\ EventShape(e) /\ LoopKind(c) = EventKind(e) /\ ~Starting(s)
  BY <1>1, <1>2 DEF Knows, LoopShape, LoopOK, LoopKind, Held
<1>4. /\ queue' = Append(queue, e) /\ fault' = fault /\ dbVars' = dbVars /\ pc' = pc
      /\ LoopMoves(c, "take", NoEvent)
  BY <1>3, DoneEffect DEF PutEvent, dbVars
<1>5. \A u \in Sagas : SameRows(u) /\ KeepsCommits(u)
  BY <1>1, <1>4 DEF SameRows, KeepsCommits, dbVars, LoopMoves
<1>6. EventOK(e)' /\ SagaOK(s)'
  BY <1>3, <1>4, <1>5, RowsKept
<1>7. LoopShape(c)' /\ LoopOK(c)'
  BY <1>4 DEF LoopShape, LoopOK, LoopMoves
<1>8. \A d \in Sagas : d # c => LoopKind(d)' = LoopKind(d)
  BY <1>4 DEF LoopKind, EventKind, LoopMoves
<1>9. \A u \in Sagas : Starting(u)' <=> Starting(u)
  BY <1>4 DEF Starting
<1>10. Apart'
  <2>1. \A f \in Events : InQueue(f) /\ f.saga = e.saga => Together(EventKind(e), EventKind(f), e.saga)
    BY <1>3, OthersAreLate DEF Together
  <2>2. ASSUME NEW d \in Sagas, hand'[d] # NoEvent, hand'[d].saga = e.saga
        PROVE  Together(EventKind(e), LoopKind(d), e.saga)'
    <3>1. d # c /\ hand'[d] = hand[d] /\ Held(d, hand[c].saga)
      BY <1>3, <1>4, <2>2 DEF LoopMoves, Held
    <3>2. Together(EventKind(e), LoopKind(d), e.saga)
      BY <1>3, <3>1, OthersAreLate DEF Together
    <3> QED
      BY <1>4, <1>8, <3>1, <3>2 DEF Together, LateAnd, EventKind
  <2>3. \A d \in Sagas : hand'[d] # NoEvent =>
          hand'[d] = hand[d] /\ ((LoopKind(d)' = LoopKind(d)) \/ LoopKind(d) = "early")
    BY <1>4, <1>8 DEF LoopMoves
  <2>4. ~Starting(e.saga)' /\ \A u \in Sagas : Starting(u)' => Starting(u)
    BY <1>3, <1>4, <1>9 DEF Starting
  <2> QED
    BY <1>1, <1>4, <2>1, <2>2, <2>3, <2>4, PutApart
<1>11. Locks'
  <2>1. stock' = stock /\ \A d \in Sagas : Locking(d)' => Locking(d) /\ hand'[d] = hand[d]
    BY <1>4 DEF LoopMoves, Locking, dbVars
  <2> QED
    BY <2>1 DEF IInv, Locks
<1>12. loc[s] # "off"
  BY <1>2 DEF IInv, Control, OwnLoop, Knows
<1>13. /\ loc' \in [Sagas -> Location] /\ hand' \in [Sagas -> Events \cup {NoEvent}]
       /\ todo' \in [Sagas -> Seq(Steps)]
       /\ pc' \in [Sagas -> {"insertSaga", "startLoop", "putInit", "returned", "abandoned"}]
       /\ \A d \in Sagas : d # c => loc'[d] = loc[d] /\ hand'[d] = hand[d] /\ todo'[d] = todo[d]
       /\ hand'[c] = NoEvent /\ (loc'[c] = "off" <=> loc[c] = "off")
  BY <1>1, <1>3, <1>4 DEF LoopMoves, TypeOK
<1> QED
  BY <1>1, <1>3, <1>4, <1>5, <1>6, <1>7, <1>10, <1>11, <1>12, <1>13, PutIInv

LEMMA PutDeductedIInv ==
  ASSUME IInv, NEW c \in Sagas, PutDeducted(c)
  PROVE  IInv'
<1>1. loc[c] = "putDeducted" /\ HasRoom /\ LoopKind(c) = "early"
  BY DEF PutDeducted, LoopKind
<1>2. PICK s \in Sagas : Knows(c, s)
  BY <1>1, LoopKnows
<1>3. PICK e \in Events :
      /\ e = hand[c] /\ e # NoEvent /\ e.saga = s /\ e.name = "DEDUCT_STOCK" /\ e.succeed
      /\ Held(c, s) /\ TypeOK /\ SagaOK(s) /\ UnderWay(s, "DEDUCT_STOCK") /\ ~Starting(s)
  BY <1>1, <1>2 DEF Knows, LoopShape, LoopOK, EventKind, Held
<1>4. /\ queue' = Append(queue, e) /\ fault' = fault /\ dbVars' = dbVars /\ pc' = pc
      /\ LoopMoves(c, "commitDeduct", e) /\ todo' = todo
  <2>1. "commitDeduct" \in Location
    BY DEF Location
  <2> QED
    BY <1>3, <2>1, GotoEffect DEF PutDeducted, dbVars
<1>5. \A u \in Sagas : SameRows(u) /\ KeepsCommits(u)
  BY <1>1, <1>4 DEF SameRows, KeepsCommits, dbVars, LoopMoves
<1>6. /\ reserve'[s] = NoRow /\ order'[s] = "NORMAL" /\ sagaStatus'[s] \in {"NONE", "INIT"}
      /\ log'[s]["CREATE_ORDER"] # "CANCELED" /\ log'[s]["DEDUCT_STOCK"] # "CANCELED"
  BY <1>3, <1>4 DEF UnderWay, dbVars
<1>7. loc'[c] = "commitDeduct" /\ hand'[c] = e
  BY <1>4 DEF LoopMoves
<1>8. EventOK(e)'
  BY <1>3, <1>6, <1>7 DEF EventOK, EventKind, Bought
<1>9. SagaOK(s)'
  BY <1>4, <1>5, RowsKept
<1>10. LoopShape(c)' /\ LoopOK(c)'
  BY <1>3, <1>6, <1>7 DEF LoopShape, LoopOK, EventShape, EventKind
<1>11. \A d \in Sagas : d # c => LoopKind(d)' = LoopKind(d)
  BY <1>4 DEF LoopKind, EventKind, LoopMoves
<1>12. Apart'
  <2>1. \A f \in Events : InQueue(f) => f.saga # e.saga
    BY <1>1, <1>3, OthersAreLate DEF Together, LateAnd
  <2>2. ASSUME NEW d \in Sagas, hand'[d] # NoEvent, hand'[d].saga = e.saga
        PROVE  Together(EventKind(e), LoopKind(d), e.saga)'
    <3>1. d = c
      <4>1. d # c => Held(d, hand[c].saga)
        BY <1>3, <1>4, <2>2 DEF LoopMoves, Held
      <4>2. \A k : ~Together(k, LoopKind(c), s)
        BY <1>1 DEF Together, LateAnd
      <4> QED
        BY <1>3, <4>1, <4>2, OthersAreLate
    <3>2. LoopKind(d)' = "committing"
      BY <1>7, <3>1 DEF LoopKind
    <3> QED
      BY <1>3, <3>2 DEF Together, LateAnd, EventKind
  <2>3. \A d \in Sagas : hand'[d] # NoEvent =>
          hand'[d] = hand[d] /\ ((LoopKind(d)' = LoopKind(d)) \/ LoopKind(d) = "early")
    BY <1>1, <1>3, <1>4, <1>11 DEF LoopMoves
  <2>4. ~Starting(e.saga)' /\ \A u \in Sagas : Starting(u)' => Starting(u)
    BY <1>3, <1>4 DEF Starting
  <2> QED
    BY <1>1, <1>4, <2>1, <2>2, <2>3, <2>4, PutApart
<1>13. Locks'
  <2>1. stock' = stock /\ \A d \in Sagas : Locking(d)' => Locking(d) /\ hand'[d] = hand[d]
    BY <1>1, <1>3, <1>4 DEF LoopMoves, Locking, dbVars
  <2> QED
    BY <2>1 DEF IInv, Locks
<1>14. loc[s] # "off"
  BY <1>2 DEF IInv, Control, OwnLoop, Knows
<1>15. /\ loc' \in [Sagas -> Location] /\ hand' \in [Sagas -> Events \cup {NoEvent}]
       /\ todo' \in [Sagas -> Seq(Steps)]
       /\ pc' \in [Sagas -> {"insertSaga", "startLoop", "putInit", "returned", "abandoned"}]
       /\ \A d \in Sagas : d # c => loc'[d] = loc[d] /\ hand'[d] = hand[d] /\ todo'[d] = todo[d]
       /\ hand'[c] = hand[c] /\ (loc'[c] = "off" <=> loc[c] = "off")
  BY <1>1, <1>3, <1>4 DEF LoopMoves, TypeOK
<1>16. EventShape(e)
  BY <1>3 DEF EventShape
<1> QED
  BY <1>1, <1>3, <1>4, <1>5, <1>8, <1>9, <1>10, <1>12, <1>13, <1>14, <1>15, <1>16, PutIInv

-----------------------------------------------------------------------------
(* placeOrder *)

LEMMA PlacePutInitIInv ==
  ASSUME IInv, NEW s \in Sagas, PlacePutInit(s)
  PROVE  IInv'
<1>1. pc[s] = "putInit" /\ HasRoom
  BY DEF PlacePutInit
<1>2. PICK e \in Events : e = Event(s, "INIT", TRUE) /\ e.saga = s /\ e.name = "INIT" /\ e.succeed
  BY EventMade
<1>3. /\ queue' = Append(queue, e) /\ fault' = fault /\ dbVars' = dbVars
      /\ loc' = loc /\ hand' = hand /\ todo' = todo
      /\ pc' = [pc EXCEPT ![s] = "returned"]
  BY <1>2 DEF PlacePutInit, loopVars
<1>4. /\ pc' \in [Sagas -> {"insertSaga", "startLoop", "putInit", "returned", "abandoned"}]
      /\ pc'[s] = "returned" /\ \A u \in Sagas : u # s => pc'[u] = pc[u]
  BY <1>3 DEF IInv, TypeOK
<1>5. Starting(s) /\ SagaOK(s) /\ UnderWay(s, "INIT") /\ loc[s] # "off"
  BY <1>1 DEF Starting, IInv, Databases, SagaOK, Control, OwnLoop
<1>6. /\ \A f \in Events : InQueue(f) => f.saga # s
      /\ \A d \in Sagas : ~Held(d, s)
  BY <1>5 DEF IInv, Apart, StartApart
<1>7. \A u \in Sagas : SameRows(u) /\ KeepsCommits(u)
  BY <1>3 DEF SameRows, KeepsCommits, dbVars
<1>8. EventOK(e)'
  BY <1>2, <1>3, <1>5 DEF EventOK, EventKind, UnderWay, dbVars
<1>9. SagaOK(s)'
  <2>1. Bought(s) => Bought(s)'
    BY <1>7, RowsKept
  <2> QED
    BY <1>1, <1>3, <1>4, <1>5, <2>1 DEF SagaOK, Starting, OrderGone, dbVars
<1>10. LoopShape(s)' /\ LoopOK(s)'
  <2>1. LoopShape(s) /\ LoopShape(s)'
    BY <1>3, LoopShapeKept DEF IInv, Control
  <2>2. CASE hand[s] = NoEvent
    BY <1>3, <2>1, <2>2 DEF LoopShape, LoopOK
  <2>3. CASE hand[s] # NoEvent
    <3>1. PICK u \in Sagas : Held(s, u)
      BY <2>3, EventsType DEF IInv, TypeOK, Held
    <3> QED
      BY <1>3, <1>7, <2>1, <3>1, RowsKept
  <2> QED
    BY <2>2, <2>3
<1>11. Apart'
  <2>1. \A f \in Events : InQueue(f) => f.saga # e.saga
    BY <1>2, <1>6
  <2>2. \A d \in Sagas : hand'[d] # NoEvent => hand'[d].saga # e.saga
    BY <1>2, <1>3, <1>6 DEF Held
  <2>3. \A d \in Sagas : hand'[d] = hand[d] /\ LoopKind(d)' = LoopKind(d)
    BY <1>3 DEF LoopKind, EventKind
  <2>4. ~Starting(e.saga)' /\ \A u \in Sagas : Starting(u)' => Starting(u)
    BY <1>2, <1>4 DEF Starting
  <2> QED
    BY <1>1, <1>3, <2>1, <2>2, <2>3, <2>4, PutApart
<1>12. Locks'
  BY <1>3 DEF IInv, Locks, Locking, dbVars
<1>13. EventShape(e)
  BY <1>2 DEF EventShape
<1>14. /\ loc' \in [Sagas -> Location] /\ hand' \in [Sagas -> Events \cup {NoEvent}]
       /\ todo' \in [Sagas -> Seq(Steps)]
  BY <1>3 DEF IInv, TypeOK
<1> QED
  BY <1>1, <1>2, <1>3, <1>4, <1>5, <1>7, <1>8, <1>9, <1>10, <1>11, <1>12, <1>13, <1>14, PutIInv

(* Until the first event is put, nothing but placeOrder has the purchase. *)
LEMMA StartIInv ==
  ASSUME IInv, NEW s \in Sagas, Starting(s), TypeOK',
         queue' = queue, hand' = hand, todo' = todo, stock' = stock,
         \A d \in Sagas : hand[d] # NoEvent => loc'[d] = loc[d],
         \A d \in Sagas : hand[d] = NoEvent => loc'[d] \in {"off", "take"},
         \A d \in Sagas : loc[d] # "off" => loc'[d] # "off",
         \A d \in Sagas : /\ pc'[d] \in {"insertSaga", "startLoop", "abandoned"} => loc'[d] = "off"
                          /\ pc'[d] = "putInit" => loc'[d] # "off",
         fault \subseteq fault',
         \A u \in Sagas : u # s => SameRows(u) /\ pc'[u] = pc[u],
         SagaOK(s)', pc'[s] # "returned"
  PROVE  IInv'
<1>1. /\ \A f \in Events : InQueue(f) => f.saga # s
      /\ \A d \in Sagas : ~Held(d, s)
  BY DEF IInv, Apart, StartApart
<1>2. \A f : InQueue(f)' <=> InQueue(f)
  BY DEF InQueue
<1>3. \A d \in Sagas : hand[d] # NoEvent => LoopKind(d)' = LoopKind(d)
  BY DEF LoopKind, EventKind
<1>4. \A u \in Sagas : Starting(u)' => Starting(u)
  BY DEF Starting
<1>5. Control'
  <2>1. ASSUME NEW d \in Sagas PROVE LoopShape(d)'
    <3>1. LoopShape(d)
      BY DEF IInv, Control
    <3>2. CASE hand[d] # NoEvent
      BY <3>1, <3>2, LoopShapeKept
    <3>3. CASE hand[d] = NoEvent
      BY <3>3 DEF LoopShape
    <3> QED
      BY <3>2, <3>3
  <2>2. \A d \in Sagas : hand[d] # NoEvent => hand[d].saga \in Sagas /\ loc[hand[d].saga] # "off"
    BY EventsType DEF IInv, Control, OwnLoop, TypeOK
  <2>3. OwnLoop'
    BY <2>2 DEF OwnLoop
  <2> QED
    BY <1>2, <2>1, <2>3, EventsType DEF IInv, Control, EventShape
<1>6. Apart'
  <2>1. \A k, l, u : Together(k, l, u) => Together(k, l, u)'
    BY DEF Together, LateAnd
  <2>2. QueueApart'
    BY <2>1 DEF IInv, Apart, QueueApart, EventKind
  <2>3. QueueAndLoopsApart'
    <3> SUFFICES ASSUME NEW i \in 1 .. Len(queue), NEW d \in Sagas, Held(d, queue[i].saga)
                 PROVE  Together(EventKind(queue[i]), LoopKind(d), queue[i].saga)'
      BY DEF QueueAndLoopsApart, Held
    <3>1. Together(EventKind(queue[i]), LoopKind(d), queue[i].saga)
      BY DEF IInv, Apart, QueueAndLoopsApart
    <3>2. hand[d] # NoEvent
      BY DEF Held
    <3> QED
      BY <1>3, <3>1, <3>2 DEF Together, LateAnd, EventKind
  <2>4. LoopsApart'
    <3> SUFFICES ASSUME NEW x \in Sagas, NEW d \in Sagas, x # d, hand[x] # NoEvent, Held(d, hand[x].saga)
                 PROVE  Together(LoopKind(x), LoopKind(d), hand[x].saga)'
      BY DEF LoopsApart, Held
    <3>1. Together(LoopKind(x), LoopKind(d), hand[x].saga)
      BY DEF IInv, Apart, LoopsApart
    <3>2. hand[d] # NoEvent
      BY DEF Held
    <3> QED
      BY <1>3, <3>1, <3>2 DEF Together, LateAnd
  <2>5. StartApart'
    BY <1>2, <1>4 DEF IInv, Apart, StartApart, Held
  <2> QED
    BY <2>2, <2>3, <2>4, <2>5 DEF Apart
<1>7. \A u \in Sagas : KeepsCommits(u)
  <2>1. \A d \in Sagas : loc[d] = "commitDeduct" => hand[d] # NoEvent
    BY DEF IInv, Control, LoopShape
  <2> QED
    BY <2>1 DEF KeepsCommits
<1>8. Databases'
  <2>1. \A f \in Events : InQueue(f)' => EventOK(f)'
    BY <1>1, <1>2, <1>7, RowsKept, EventsType DEF IInv, Databases
  <2>2. ASSUME NEW d \in Sagas PROVE LoopOK(d)'
    <3>1. CASE hand[d] = NoEvent
      BY <3>1 DEF LoopOK
    <3>2. CASE hand[d] # NoEvent
      <4>1. PICK u \in Sagas : Held(d, u)
        BY <3>2, EventsType DEF IInv, TypeOK, Held
      <4> QED
        BY <1>1, <1>7, <3>2, <4>1, RowsKept
    <3> QED
      BY <3>1, <3>2
  <2>3. \A u \in Sagas : SagaOK(u)'
    BY <1>7, RowsKept
  <2> QED
    BY <2>1, <2>2, <2>3 DEF Databases
<1>9. GoesOn'
  <2> SUFFICES ASSUME NEW u \in Sagas, pc'[u] = "returned", ItemOf[u] \in Items,
                      <<"call", u>> \notin fault', <<"commit", u>> \notin fault',
                      sagaStatus'[u] \notin {"FINISHED", "CANCELED"}
               PROVE  \/ \E f \in Events : InQueue(f)' /\ f.saga = u
                      \/ \E d \in Sagas : Held(d, u)' /\ loc'[d] # "commitDeduct"
    BY DEF GoesOn
  <2>1. /\ pc[u] = "returned" /\ <<"call", u>> \notin fault /\ <<"commit", u>> \notin fault
        /\ sagaStatus[u] \notin {"FINISHED", "CANCELED"} /\ GoesOn
    BY DEF IInv, SameRows
  <2>2. \/ \E f \in Events : InQueue(f) /\ f.saga = u
        \/ \E d \in Sagas : Held(d, u) /\ loc[d] # "commitDeduct"
    BY <2>1 DEF GoesOn
  <2> QED
    BY <1>2, <2>2 DEF Held
<1>10. Locks'
  <2>1. \A d \in Sagas : Locking(d)' => Locking(d)
    BY DEF Locking
  <2> QED
    BY <2>1 DEF IInv, Locks
<1> QED
  BY <1>5, <1>6, <1>8, <1>9, <1>10 DEF IInv

LEMMA PlaceStartLoopIInv ==
  ASSUME IInv, NEW s \in Sagas, PlaceStartLoop(s)
  PROVE  IInv'
<1>1. /\ pc[s] = "startLoop" /\ queue' = queue /\ hand' = hand /\ todo' = todo /\ fault' = fault
      /\ stock' = stock /\ reserve' = reserve /\ order' = order /\ sagaStatus' = sagaStatus
      /\ log' = log
  BY DEF PlaceStartLoop, dbVars
<1>2. /\ loc' \in [Sagas -> Location] /\ loc'[s] = "take"
      /\ \A d \in Sagas : d # s => loc'[d] = loc[d]
      /\ pc' \in [Sagas -> {"insertSaga", "startLoop", "putInit", "returned", "abandoned"}]
      /\ pc'[s] = "putInit" /\ \A u \in Sagas : u # s => pc'[u] = pc[u]
  BY DEF PlaceStartLoop, IInv, TypeOK, Location
<1>3. Starting(s) /\ SagaOK(s) /\ loc[s] = "off" /\ hand[s] = NoEvent
  BY <1>1 DEF Starting, IInv, Databases, Control, OwnLoop, LoopShape
<1>4. TypeOK'
  BY <1>1, <1>2 DEF IInv, TypeOK, StoreTypeOK
<1>5. \A u \in Sagas : SameRows(u) /\ KeepsCommits(u)
  BY <1>1, <1>2, <1>3 DEF SameRows, KeepsCommits
<1>6. SagaOK(s)'
  <2>1. Bought(s) => Bought(s)'
    BY <1>5, RowsKept
  <2> QED
    BY <1>1, <1>2, <1>3, <2>1 DEF SagaOK, Starting, OrderGone, UnderWay
<1>7. \A d \in Sagas : hand[d] = NoEvent => loc'[d] \in {"off", "take"}
  BY <1>2 DEF IInv, Control, LoopShape
<1>8. \A d \in Sagas : /\ pc'[d] \in {"insertSaga", "startLoop", "abandoned"} => loc'[d] = "off"
                       /\ pc'[d] = "putInit" => loc'[d] # "off"
  BY <1>2 DEF IInv, Control, OwnLoop
<1>9. /\ \A d \in Sagas : hand[d] # NoEvent => loc'[d] = loc[d]
      /\ \A d \in Sagas : loc[d] # "off" => loc'[d] # "off"
      /\ pc'[s] # "returned" /\ fault \subseteq fault'
  BY <1>1, <1>2, <1>3
<1> QED
  BY <1>1, <1>2, <1>3, <1>4, <1>5, <1>6, <1>7, <1>8, <1>9, StartIInv

LEMMA PlaceInsertSagaIInv ==
  ASSUME IInv, NEW s \in Sagas, NEW reply \in Reply, PlaceInsertSaga(s, reply)
  PROVE  IInv'
<1>1. /\ pc[s] = "insertSaga" /\ queue' = queue /\ hand' = hand /\ todo' = todo /\ loc' = loc
      /\ stock' = stock /\ reserve' = reserve /\ order' = order /\ log' = log
      /\ InsertSaga(s, reply) /\ Blame(s, reply, FALSE) /\ TypeOK
  BY DEF PlaceInsertSaga, itemVars, loopVars, IInv
<1>2. PICK next \in {"abandoned", "startLoop"} :
      /\ next = IF reply = "exn" THEN "abandoned" ELSE "startLoop"
      /\ pc' = [pc EXCEPT ![s] = next]
  BY DEF PlaceInsertSaga
<1>3. /\ pc' \in [Sagas -> {"insertSaga", "startLoop", "putInit", "returned", "abandoned"}]
      /\ pc'[s] = next /\ \A u \in Sagas : u # s => pc'[u] = pc[u]
  BY <1>1, <1>2 DEF TypeOK
<1>4. /\ sagaStatus' \in [Sagas -> {"NONE", "INIT", "FINISHED", "CANCELED"}]
      /\ \A u \in Sagas : u # s => sagaStatus'[u] = sagaStatus[u]
      /\ sagaStatus'[s] \in {sagaStatus[s], "INIT"}
      /\ reply = "true" => sagaStatus'[s] = "INIT"
  <2>1. sagaStatus \in [Sagas -> {"NONE", "INIT", "FINISHED", "CANCELED"}]
    BY <1>1 DEF TypeOK, StoreTypeOK
  <2>2. CASE sagaStatus' = [sagaStatus EXCEPT ![s] = "INIT"]
    BY <2>1, <2>2
  <2>3. CASE sagaStatus' = sagaStatus /\ reply # "true"
    BY <2>1, <2>3
  <2> QED
    BY <1>1, <2>2, <2>3 DEF InsertSaga
<1>5. /\ fault \subseteq fault' /\ fault' \subseteq {"call", "commit"} \X Sagas
      /\ \A u \in Sagas : <<"commit", u>> \in fault' <=> <<"commit", u>> \in fault
      /\ \A u \in Sagas : u # s => (<<"call", u>> \in fault' <=> <<"call", u>> \in fault)
      /\ reply \in {"exn", "false"} => <<"call", s>> \in fault'
  BY <1>1, BlameEffect
<1>6. Starting(s) /\ SagaOK(s) /\ UnderWay(s, "INIT")
  BY <1>1 DEF Starting, IInv, Databases, SagaOK
<1>7. TypeOK'
  BY <1>1, <1>3, <1>4, <1>5 DEF TypeOK, StoreTypeOK
<1>8. \A u \in Sagas : u # s => SameRows(u) /\ pc'[u] = pc[u]
  BY <1>1, <1>3, <1>4, <1>5 DEF SameRows
<1>9. SagaOK(s)'
  <2>1. UnderWay(s, "INIT")'
    BY <1>1, <1>4, <1>6 DEF UnderWay
  <2>2. sagaStatus'[s] \in {"NONE", "INIT"}
    BY <1>4, <1>6 DEF UnderWay
  <2>3. <<"call", s>> \notin fault' => pc'[s] # "abandoned" /\ sagaStatus'[s] # "NONE"
    BY <1>2, <1>3, <1>4, <1>5 DEF Reply
  <2> QED
    BY <1>1, <1>5, <1>6, <2>1, <2>2, <2>3 DEF SagaOK
<1>10. \A d \in Sagas : hand[d] = NoEvent => loc'[d] \in {"off", "take"}
  BY <1>1 DEF IInv, Control, LoopShape
<1>11. \A d \in Sagas : /\ pc'[d] \in {"insertSaga", "startLoop", "abandoned"} => loc'[d] = "off"
                        /\ pc'[d] = "putInit" => loc'[d] # "off"
  BY <1>1, <1>3 DEF IInv, Control, OwnLoop
<1> QED
  BY <1>1, <1>3, <1>5, <1>6, <1>7, <1>8, <1>9, <1>10, <1>11, StartIInv

LEMMA CrashIInv ==
  ASSUME IInv, Crash
  PROVE  IInv'
<1>1. /\ queue' = <<>> /\ stock' = stock /\ reserve' = reserve /\ order' = order
      /\ sagaStatus' = sagaStatus /\ log' = log
      /\ \A d \in Sagas : loc'[d] = "off" /\ hand'[d] = NoEvent /\ todo'[d] = <<>>
  BY DEF Crash, dbVars
<1>2. /\ \A u \in Sagas : pc'[u] = IF pc[u] \in {"startLoop", "putInit"} THEN "abandoned" ELSE pc[u]
      /\ fault \subseteq fault'
      /\ \A u \in Sagas : Alive(u) => <<"call", u>> \in fault'
      /\ \A d \in Sagas : loc[d] = "commitDeduct" => <<"commit", hand[d].saga>> \in fault'
  BY DEF Crash
<1>3. TypeOK'
  <2>1. \A d \in Sagas : loc[d] = "commitDeduct" => hand[d].saga \in Sagas
    BY HandType DEF IInv
  <2>2. fault' \subseteq {"call", "commit"} \X Sagas
    BY <2>1 DEF Crash, IInv, TypeOK
  <2>3. pc' \in [Sagas -> {"insertSaga", "startLoop", "putInit", "returned", "abandoned"}]
    BY DEF Crash, IInv, TypeOK
  <2>4. /\ loc' \in [Sagas -> Location] /\ hand' \in [Sagas -> Events \cup {NoEvent}]
        /\ todo' \in [Sagas -> Seq(Steps)]
    BY DEF Crash, Location
  <2>5. queue' \in Seq(Events) /\ Len(queue') <= QueueSize
    BY <1>1, QueueAssumption
  <2> QED
    BY <1>1, <2>2, <2>3, <2>4, <2>5 DEF IInv, TypeOK, StoreTypeOK
<1>4. \A f : ~InQueue(f)'
  BY <1>1 DEF InQueue
<1>5. Control'
  BY <1>1, <1>2, <1>4 DEF Control, LoopShape, OwnLoop
<1>6. Apart'
  BY <1>1, <1>4 DEF Apart, QueueApart, QueueAndLoopsApart, LoopsApart, StartApart, Held
<1>7. \A u \in Sagas : Bought(u) => Bought(u)'
  BY <1>1, <1>2 DEF Bought
<1>8. ASSUME NEW u \in Sagas PROVE SagaOK(u)'
  <2>1. SagaOK(u) /\ pc[u] \in {"insertSaga", "startLoop", "putInit", "returned", "abandoned"}
    BY DEF IInv, Databases, TypeOK
  <2>2. Starting(u)' => pc[u] = "insertSaga" /\ pc'[u] = pc[u]
    BY <1>2, <2>1 DEF Starting
  <2>3. <<"call", u>> \notin fault' => <<"call", u>> \notin fault /\ pc'[u] = pc[u]
    BY <1>2, <2>1 DEF Alive
  <2> QED
    BY <1>1, <1>7, <2>1, <2>2, <2>3 DEF SagaOK, Starting, UnderWay, OrderGone
<1>9. Databases'
  BY <1>1, <1>4, <1>8 DEF Databases, LoopOK
<1>10. GoesOn'
  <2> SUFFICES ASSUME NEW u \in Sagas, pc'[u] = "returned", ItemOf[u] \in Items,
                      <<"call", u>> \notin fault', <<"commit", u>> \notin fault',
                      sagaStatus'[u] \notin {"FINISHED", "CANCELED"}
               PROVE  FALSE
    BY DEF GoesOn
  <2>1. /\ pc[u] = "returned" /\ <<"call", u>> \notin fault /\ <<"commit", u>> \notin fault
        /\ sagaStatus[u] \notin {"FINISHED", "CANCELED"} /\ ~Alive(u)
    BY <1>1, <1>2
  <2>2. \/ \E f \in Events : InQueue(f) /\ f.saga = u
        \/ \E d \in Sagas : Held(d, u)
    BY <2>1 DEF IInv, GoesOn
  <2> QED
    BY <2>1, <2>2 DEF Alive, InQueue
<1>11. Locks'
  BY <1>1 DEF Locks, Locking
<1> QED
  BY <1>3, <1>5, <1>6, <1>9, <1>10, <1>11 DEF IInv

-----------------------------------------------------------------------------
(* The inductive invariant. *)

LEMMA UnchangedIInv == IInv /\ UNCHANGED vars => IInv'
<1> SUFFICES ASSUME IInv, UNCHANGED vars PROVE IInv'
  OBVIOUS
<1>1. /\ stock' = stock /\ reserve' = reserve /\ order' = order /\ sagaStatus' = sagaStatus
      /\ log' = log /\ queue' = queue /\ pc' = pc /\ loc' = loc /\ hand' = hand /\ todo' = todo
      /\ fault' = fault
  BY DEF vars, dbVars, loopVars
<1>2. TypeOK'
  BY <1>1 DEF IInv, TypeOK, StoreTypeOK
<1>3. Control'
  BY <1>1 DEF IInv, Control, InQueue, LoopShape, OwnLoop, EventShape, EventKind
<1>4. Apart'
  BY <1>1 DEF IInv, Apart, QueueApart, QueueAndLoopsApart, LoopsApart, StartApart, Starting,
              Held, InQueue, Together, LateAnd, LoopKind, EventKind
<1>5. Databases'
  BY <1>1 DEF IInv, Databases, InQueue, EventOK, LoopOK, SagaOK, UndoOK, UnderWay, ToUndo, Bought,
              OrderGone, StockGone, Starting, EventKind
<1>6. GoesOn' /\ Locks'
  BY <1>1 DEF IInv, GoesOn, Locks, Locking, InQueue, Held
<1> QED
  BY <1>2, <1>3, <1>4, <1>5, <1>6 DEF IInv

LEMMA NextIInv == IInv /\ [Next]_vars => IInv'
<1> SUFFICES ASSUME IInv, [Next]_vars PROVE IInv'
  OBVIOUS
<1>1. CASE Crash
  BY <1>1, CrashIInv
<1>2. ASSUME NEW s \in Sagas, PlaceOrder(s) PROVE IInv'
  BY <1>2, PlaceInsertSagaIInv, PlaceStartLoopIInv, PlacePutInitIInv DEF PlaceOrder
<1>3. ASSUME NEW c \in Sagas, Take(c) \/ PutEvent(c) \/ PutDeducted(c) PROVE IInv'
  BY <1>3, TakeIInv, PutEventIInv, PutDeductedIInv
<1>4. ASSUME NEW c \in Sagas, NEW reply \in Reply,
             \/ UpdateLog(c, reply) \/ InsertLog(c, reply) \/ CreateOrder(c, reply)
             \/ DeductStock(c, reply) \/ CommitDeduct(c, reply)
      PROVE  IInv'
  BY <1>4, UpdateLogIInv, InsertLogIInv, CreateOrderIInv, DeductStockIInv, CommitDeductIInv
<1>5. ASSUME NEW c \in Sagas, NEW reply \in Reply,
             \/ SelectLog(c, reply) \/ Compensate(c, reply) \/ LogCanceled(c, reply)
             \/ UpdateSaga(c, reply)
      PROVE  IInv'
  BY <1>5, SelectLogIInv, CompensateIInv, LogCanceledIInv, UpdateSagaIInv
<1>6. CASE UNCHANGED vars
  BY <1>6, UnchangedIInv
<1> QED
  BY <1>1, <1>2, <1>3, <1>4, <1>5, <1>6 DEF Next, Loop

LEMMA InvariantIInv == Spec => []IInv
BY InitIInv, NextIInv, PTL DEF Spec

(***************************************************************************)
(* The databases of SagaStore keep rows of the declared columns, and the   *)
(* loops of EventCenter, the queue (never above its capacity) and the      *)
(* events in hand are of their types, whatever fails and wherever the      *)
(* program stops.                                                          *)
(***************************************************************************)
THEOREM SagaTypeOK == Spec => []TypeOK
<1>1. IInv => TypeOK
  BY DEF IInv
<1> QED
  BY <1>1, InvariantIInv, PTL

(***************************************************************************)
(* CreateOrderEvent sets saga_status to FINISHED only for a purchase whose *)
(* order is normal and whose stock deductStock has deducted or is about to *)
(* commit; only a failed commit can belie it.                              *)
(***************************************************************************)
THEOREM SagaFinishedIsBought == Spec => []FinishedIsBought
<1>1. IInv => FinishedIsBought
  BY DEF IInv, Databases, SagaOK, Bought, FinishedIsBought
<1> QED
  BY <1>1, InvariantIInv, PTL

(***************************************************************************)
(* processCancel sets saga_status to CANCELED only when no stock is        *)
(* reserved and no order is left that the log knows of.                    *)
(***************************************************************************)
THEOREM SagaCanceledIsUndone == Spec => []CanceledIsUndone
<1>1. IInv => CanceledIsUndone
  BY DEF IInv, Databases, SagaOK, OrderGone, CanceledIsUndone
<1> QED
  BY <1>1, InvariantIInv, PTL

(***************************************************************************)
(* A purchase that met no failure and that neither placeOrder, the queue   *)
(* nor a loop has any more is finished with order and stock, or canceled   *)
(* with neither: no interleaving of the loops leaves it in between.        *)
(***************************************************************************)
THEOREM SagaAtRestIsWhole == Spec => []AtRestIsWhole
<1>1. ASSUME IInv, NEW s \in Sagas, pc[s] = "returned", ~Alive(s), ItemOf[s] \in Items,
             <<"call", s>> \notin fault, <<"commit", s>> \notin fault
      PROVE  \/ /\ sagaStatus[s] = "FINISHED"
                /\ order[s] = "NORMAL" /\ reserve[s].status = "NORMAL"
             \/ /\ sagaStatus[s] = "CANCELED"
                /\ order[s] # "NORMAL" /\ reserve[s].status # "NORMAL"
  <2>1. (\A e \in Events : InQueue(e) => e.saga # s) /\ (\A c \in Sagas : ~Held(c, s))
    BY <1>1 DEF Alive, InQueue
  <2>2. sagaStatus[s] \in {"FINISHED", "CANCELED"} /\ SagaOK(s)
    BY <1>1, <2>1 DEF IInv, GoesOn, Databases
  <2>3. \A c \in Sagas : loc[c] = "commitDeduct" => hand[c].saga # s
    BY <1>1, <2>1, HandType DEF IInv, Held
  <2>4. CASE sagaStatus[s] = "FINISHED"
    BY <1>1, <2>2, <2>3, <2>4 DEF SagaOK, Bought, Row
  <2>5. CASE sagaStatus[s] = "CANCELED"
    BY <1>1, <2>2, <2>5 DEF SagaOK, OrderGone
  <2> QED
    BY <2>2, <2>4, <2>5
<1>2. IInv => AtRestIsWhole
  BY <1>1 DEF AtRestIsWhole
<1> QED
  BY <1>2, InvariantIInv, PTL

-----------------------------------------------------------------------------
(* What the purchases share: the stock of the items and the bounded queue.  *)
(* Both follow from the inductive invariant and a count kept next to it.    *)

(* Reserved units can be counted, and with the stock give the first stock. *)
Accounted == \A i \in Items :
  IsFiniteSet(Reserved(i)) /\ stock[i] + Cardinality(Reserved(i)) = InitStock[i]

(* The reserved rows are as they were. *)
SameReserved == \A s \in Sagas :
  /\ reserve'[s].status = "NORMAL" <=> reserve[s].status = "NORMAL"
  /\ reserve[s].status = "NORMAL" => reserve'[s].amount = reserve[s].amount

(* The commit of deductStock of s. *)
Deducts(s) ==
  /\ DeductCommitted(s) /\ reserve[s] = NoRow
  /\ Count[s] >= 0 /\ ItemOf[s] \in Items

LEMMA InitAccounted == Init => Accounted
<1> SUFFICES ASSUME Init, NEW i \in Items
             PROVE  IsFiniteSet(Reserved(i)) /\ stock[i] + Cardinality(Reserved(i)) = InitStock[i]
  BY DEF Accounted
<1>1. stock = InitStock /\ \A s \in Sagas : reserve[s].status = "NONE"
  BY DEF Init, StoreInit, NoRow, Row
<1>2. Reserved(i) = {}
  BY <1>1 DEF Reserved
<1>3. InitStock[i] \in Nat
  BY SagaStoreAssumption
<1> QED
  BY <1>1, <1>2, <1>3, FS_EmptySet

-----------------------------------------------------------------------------
(* The compensation of deductStock always finds its row missing: the *)
(* processCancel that could find one never runs next to a success.   *)
LEMMA CompensateKeeps ==
  ASSUME IInv, NEW c \in Sagas, NEW reply \in Reply, Compensate(c, reply)
  PROVE  SameReserved /\ \A i \in Items : stock'[i] = stock[i]
<1>1. PICK s \in Sagas : s = hand[c].saga
  BY HandType DEF Compensate, IInv
<1>2. /\ stock \in [Items -> Nat] /\ loc[c] = "compensate"
      /\ reserve \in [Sagas -> [amount : Nat, status : {"NONE", "NORMAL", "CANCELED"}]]
  BY DEF IInv, TypeOK, StoreTypeOK, Compensate
<1>3. UndoOK(c)
  BY <1>2 DEF IInv, Databases, LoopOK
<1>4. CASE UNCHANGED itemVars
  BY <1>4 DEF itemVars, SameReserved
<1>5. CASE GiveBack(s) /\ Head(todo[c]) = "DEDUCT_STOCK"
  <2>1. todo[c] # <<"CREATE_ORDER">>
    BY <1>5
  <2>2. reserve[s] = NoRow
    BY <1>1, <1>2, <1>3, <2>1 DEF UndoOK
  <2>3. reserve[s].amount = 0 /\ reserve[s].status = "NONE"
    BY <2>2 DEF NoRow, Row
  <2>4. reserve'[s].status = "CANCELED" /\ \A u \in Sagas : u # s => reserve'[u] = reserve[u]
    BY <1>2, <1>5 DEF GiveBack, Row
  <2>5. \A i \in Items : stock'[i] = stock[i]
    <3>1. ItemOf[s] \in Items /\ stock' = [stock EXCEPT ![ItemOf[s]] = @ + 0]
      BY <1>5, <2>3 DEF GiveBack
    <3> QED
      BY <1>2, <3>1
  <2> QED
    BY <2>3, <2>4, <2>5 DEF SameReserved
<1> QED
  BY <1>1, <1>4, <1>5 DEF Compensate, CancelDeductStock

LEMMA CommitDeducts ==
  ASSUME IInv, NEW c \in Sagas, NEW reply \in Reply, CommitDeduct(c, reply)
  PROVE  UNCHANGED itemVars \/ \E s \in Sagas : Deducts(s)
<1>1. PICK s \in Sagas : s = hand[c].saga /\ loc[c] = "commitDeduct"
  BY HandType DEF CommitDeduct, IInv
<1>2. reserve[s] = NoRow
  BY <1>1 DEF IInv, Databases, LoopOK
<1>3. Count[s] >= 0 /\ ItemOf[s] \in Items
  BY <1>1 DEF IInv, Locks, Locking
<1> QED
  BY <1>1, <1>2, <1>3 DEF CommitDeduct, Deducts

(* No other step of the program touches the stock or a reserved row. *)
LEMMA StockSteps ==
  ASSUME IInv, [Next]_vars
  PROVE  \/ SameReserved /\ \A i \in Items : stock'[i] = stock[i]
         \/ \E s \in Sagas : Deducts(s)
<1>1. UNCHANGED itemVars => SameReserved /\ \A i \in Items : stock'[i] = stock[i]
  BY DEF itemVars, SameReserved
<1>2. CASE Crash \/ UNCHANGED vars
  BY <1>1, <1>2 DEF Crash, vars, dbVars, itemVars
<1>3. ASSUME NEW s \in Sagas, PlaceOrder(s) PROVE UNCHANGED itemVars
  BY <1>3 DEF PlaceOrder, PlaceInsertSaga, PlaceStartLoop, PlacePutInit, dbVars, itemVars
<1>4. ASSUME NEW c \in Sagas, Take(c) \/ PutEvent(c) \/ PutDeducted(c) PROVE UNCHANGED itemVars
  BY <1>4 DEF Take, PutEvent, PutDeducted, dbVars, itemVars
<1>5. ASSUME NEW c \in Sagas, NEW reply \in Reply,
             \/ UpdateLog(c, reply) \/ InsertLog(c, reply) \/ CreateOrder(c, reply)
             \/ DeductStock(c, reply) \/ SelectLog(c, reply) \/ LogCanceled(c, reply)
             \/ UpdateSaga(c, reply)
      PROVE  UNCHANGED itemVars
  BY <1>5 DEF UpdateLog, InsertLog, CreateOrder, DeductStock, SelectLog, LogCanceled, UpdateSaga,
              dbVars, itemVars
<1> QED
  BY <1>1, <1>2, <1>3, <1>4, <1>5, CompensateKeeps, CommitDeducts DEF Next, Loop

-----------------------------------------------------------------------------
LEMMA SameIsAccounted ==
  ASSUME Accounted, SameReserved, \A i \in Items : stock'[i] = stock[i]
  PROVE  Accounted'
<1> SUFFICES ASSUME NEW i \in Items PROVE Reserved(i)' = Reserved(i)
  BY DEF Accounted
<1> QED
  BY DEF Reserved, SameReserved

(* The units of a purchase are its own, as many as it counts. *)
LEMMA UnitsOf ==
  ASSUME NEW s, NEW n \in Nat
  PROVE  IsFiniteSet({s} \X (1 .. n)) /\ Cardinality({s} \X (1 .. n)) = n
<1>1. IsFiniteSet({s}) /\ Cardinality({s}) = 1
  BY FS_Singleton
<1>2. IsFiniteSet(1 .. n) /\ Cardinality(1 .. n) = n
  BY FS_Interval
<1>3. /\ IsFiniteSet({s} \X (1 .. n))
      /\ Cardinality({s} \X (1 .. n)) = Cardinality({s}) * Cardinality(1 .. n)
  BY <1>1, <1>2, FS_Product
<1>4. 1 * n = n
  OBVIOUS
<1> QED
  BY <1>1, <1>2, <1>3, <1>4

LEMMA DeductIsAccounted ==
  ASSUME IInv, Accounted, NEW s \in Sagas, Deducts(s)
  PROVE  Accounted'
<1>1. /\ stock \in [Items -> Nat] /\ ItemOf[s] \in Items /\ Count[s] \in Nat
      /\ reserve \in [Sagas -> [amount : Nat, status : {"NONE", "NORMAL", "CANCELED"}]]
  BY SagaStoreAssumption DEF IInv, TypeOK, StoreTypeOK, Deducts
<1>2. /\ reserve[s].status = "NONE" /\ reserve'[s] = Row(Count[s], "NORMAL")
      /\ \A u \in Sagas : u # s => reserve'[u] = reserve[u]
  BY <1>1 DEF Deducts, DeductCommitted, NoRow, Row
<1>3. reserve'[s].status = "NORMAL" /\ reserve'[s].amount = Count[s]
  BY <1>2 DEF Row
<1>4. /\ stock'[ItemOf[s]] = stock[ItemOf[s]] - Count[s]
      /\ \A i \in Items : i # ItemOf[s] => stock'[i] = stock[i]
  BY <1>1 DEF Deducts, DeductCommitted
<1> SUFFICES ASSUME NEW i \in Items
             PROVE  /\ IsFiniteSet(Reserved(i)')
                    /\ stock'[i] + Cardinality(Reserved(i)') = InitStock[i]
  BY DEF Accounted
<1>5. IsFiniteSet(Reserved(i)) /\ stock[i] + Cardinality(Reserved(i)) = InitStock[i]
  BY DEF Accounted
<1>6. CASE i # ItemOf[s]
  <2>1. Reserved(i)' = Reserved(i)
    BY <1>2, <1>6 DEF Reserved
  <2> QED
    BY <1>4, <1>5, <1>6, <2>1
<1>7. CASE i = ItemOf[s]
  <2> DEFINE Units == {s} \X (1 .. Count[s])
  <2>1. Reserved(i)' = Reserved(i) \cup Units
    BY <1>2, <1>3, <1>7 DEF Reserved
  <2>2. Reserved(i) \cap Units = {}
    BY <1>2 DEF Reserved
  <2>3. IsFiniteSet(Units) /\ Cardinality(Units) = Count[s]
    BY <1>1, UnitsOf
  <2> HIDE DEF Units
  <2>4. /\ IsFiniteSet(Reserved(i)')
        /\ Cardinality(Reserved(i)') = Cardinality(Reserved(i)) + Cardinality(Units) - Cardinality({})
    BY <1>5, <2>1, <2>2, <2>3, FS_Union
  <2>5. Cardinality(Reserved(i)) \in Nat /\ Cardinality({}) = 0 /\ InitStock[i] \in Nat
    BY <1>5, FS_CardinalityType, FS_EmptySet, SagaStoreAssumption
  <2>6. stock'[i] = stock[i] - Count[s] /\ stock[i] \in Nat
    BY <1>1, <1>4, <1>7
  <2> QED
    BY <1>1, <1>5, <2>3, <2>4, <2>5, <2>6
<1> QED
  BY <1>6, <1>7

(***************************************************************************)
(* The stock of an item in item_table and the units its normal rows of     *)
(* item_reserve_stock_table reserve always add up to the initial stock,    *)
(* and the stock is never negative: no failed call, stop of the program or *)
(* late answer of deductStock and cancelDeductStock loses or makes a unit. *)
(***************************************************************************)
THEOREM SagaStockIsAccounted == Spec => []StockIsAccounted
<1>1. IInv /\ Accounted /\ [Next]_vars => Accounted'
  BY StockSteps, SameIsAccounted, DeductIsAccounted
<1>2. IInv /\ Accounted => StockIsAccounted
  BY DEF IInv, TypeOK, StoreTypeOK, Accounted, StockIsAccounted
<1> QED
  BY <1>1, <1>2, InitAccounted, InvariantIInv, PTL DEF Spec

-----------------------------------------------------------------------------
(* At any time finitely many loops run, though there may be any number of *)
(* purchases.                                                             *)
On == {c \in Sagas : loc[c] # "off"}
FewOn == IsFiniteSet(On)

LEMMA InitOn == Init => FewOn
<1> SUFFICES ASSUME Init PROVE IsFiniteSet(On)
  BY DEF FewOn
<1>1. On = {}
  BY DEF On, Init
<1> QED
  BY <1>1, FS_EmptySet

(* A step starts one loop at most. *)
LEMMA OnStep ==
  ASSUME TypeOK, [Next]_vars
  PROVE  On' \subseteq On \/ \E s \in Sagas : On' \subseteq On \cup {s}
<1>1. ASSUME NEW c \in Sagas, \E l : loc' = [loc EXCEPT ![c] = l]
      PROVE  On' \subseteq On \cup {c}
  <2>1. \A d \in Sagas : d # c => loc'[d] = loc[d]
    BY <1>1 DEF TypeOK
  <2> QED
    BY <2>1 DEF On
<1>2. loc' = loc => On' \subseteq On
  BY DEF On
<1>3. CASE Crash \/ UNCHANGED vars
  BY <1>2, <1>3 DEF Crash, vars, loopVars, On
<1>4. ASSUME NEW s \in Sagas, PlaceOrder(s)
      PROVE  loc' = loc \/ \E l : loc' = [loc EXCEPT ![s] = l]
  BY <1>4 DEF PlaceOrder, PlaceInsertSaga, PlaceStartLoop, PlacePutInit, loopVars
<1>5. ASSUME NEW c \in Sagas, Loop(c)
      PROVE  \E l : loc' = [loc EXCEPT ![c] = l]
  <2>1. CASE Take(c) \/ PutEvent(c) \/ PutDeducted(c)
    BY <2>1 DEF Take, PutEvent, PutDeducted, Done, Goto
  <2>2. ASSUME NEW reply \in Reply,
               \/ UpdateLog(c, reply) \/ InsertLog(c, reply) \/ CreateOrder(c, reply)
               \/ DeductStock(c, reply) \/ CommitDeduct(c, reply)
        PROVE  \E l : loc' = [loc EXCEPT ![c] = l]
    BY <2>2 DEF UpdateLog, InsertLog, CreateOrder, DeductStock, CommitDeduct,
                After, Done, Goto, Raise
  <2>3. ASSUME NEW reply \in Reply,
               \/ SelectLog(c, reply) \/ Compensate(c, reply) \/ LogCanceled(c, reply)
               \/ UpdateSaga(c, reply)
        PROVE  \E l : loc' = [loc EXCEPT ![c] = l]
    BY <2>3 DEF SelectLog, Compensate, LogCanceled, UpdateSaga, Done, Goto
  <2> QED
    BY <1>5, <2>1, <2>2, <2>3 DEF Loop
<1> QED
  BY <1>1, <1>2, <1>3, <1>4, <1>5 DEF Next

LEMMA NextOn == TypeOK /\ FewOn /\ [Next]_vars => FewOn'
<1> SUFFICES ASSUME TypeOK, IsFiniteSet(On), [Next]_vars PROVE IsFiniteSet(On')
  BY DEF FewOn
<1>1. CASE On' \subseteq On
  BY <1>1, FS_Subset
<1>2. ASSUME NEW s \in Sagas, On' \subseteq On \cup {s} PROVE IsFiniteSet(On')
  <2>1. IsFiniteSet(On \cup {s})
    BY FS_AddElement
  <2> QED
    BY <1>2, <2>1, FS_Subset
<1> QED
  BY <1>1, <1>2, OnStep

(***************************************************************************)
(* Where every loop that runs is blocked and no commit has failed, the     *)
(* queue is full, no loop is about to commit, and no two places have the   *)
(* same purchase.                                                          *)
(***************************************************************************)
LEMMA JammedPlaces ==
  ASSUME IInv, Jammed, \A s \in Sagas : <<"commit", s>> \notin fault
  PROVE  /\ Len(queue) = QueueSize
         /\ \A c \in On : hand[c] \in Events /\ hand[c].saga \in On /\ loc[c] # "commitDeduct"
         /\ \A c, d \in On : c # d => hand[c].saga # hand[d].saga
         /\ \A c \in On : hand[c].saga # queue[1].saga
<1>1. \A c \in On : /\ Blocked(c) /\ c \in Sagas
                    /\ loc[c] \in {"putEvent", "putDeducted", "deductStock", "compensate"}
  BY DEF Jammed, On, Blocked
<1>2. \A c \in On : hand[c] \in Events /\ hand[c] # NoEvent /\ hand[c].saga \in Sagas
  BY <1>1, HandType DEF IInv
<1>3. \A c \in On : hand[c].saga \in On
  BY <1>1, <1>2 DEF IInv, Control, OwnLoop, On
<1>4. ~HasRoom
  <2>1. PICK c \in On : Blocked(c)
    BY <1>1 DEF Jammed, On
  <2>2. CASE ~ItemFree(hand[c].saga)
    <3>1. PICK d \in Sagas : loc[d] \in {"putDeducted", "commitDeduct"}
      BY <2>2 DEF ItemFree
    <3>2. d \in On
      BY <3>1 DEF On
    <3> QED
      BY <1>1, <3>1, <3>2 DEF Blocked
  <2> QED
    BY <2>1, <2>2 DEF Blocked
<1>5. Len(queue) = QueueSize
  <2>1. Len(queue) \in Nat /\ Len(queue) <= QueueSize
    BY DEF IInv, TypeOK
  <2> QED
    BY <1>4, <2>1, QueueAssumption DEF HasRoom
<1>6. ASSUME NEW k, NEW c \in On, NEW u \in Sagas, Together(k, LoopKind(c), u)
      PROVE  k = "committing"
  BY <1>1, <1>6 DEF Together, LateAnd, LoopKind, EventKind
<1>7. \A c \in On : LoopKind(c) # "committing"
  BY <1>1 DEF LoopKind, EventKind
<1>8. ASSUME NEW c \in On, NEW d \in On, c # d, hand[c].saga = hand[d].saga
      PROVE  FALSE
  <2>1. Held(d, hand[c].saga) /\ c \in Sagas /\ d \in Sagas
    BY <1>1, <1>2, <1>8 DEF Held
  <2>2. Together(LoopKind(c), LoopKind(d), hand[c].saga)
    BY <1>2, <1>8, <2>1 DEF IInv, Apart, LoopsApart
  <2> QED
    BY <1>2, <1>6, <1>7, <2>2
<1>9. ASSUME NEW c \in On, hand[c].saga = queue[1].saga PROVE FALSE
  <2>1. 1 \in 1 .. Len(queue)
    BY <1>5, QueueAssumption
  <2>2. Held(c, queue[1].saga) /\ c \in Sagas
    BY <1>1, <1>2, <1>9 DEF Held
  <2>3. Together(EventKind(queue[1]), LoopKind(c), queue[1].saga)
    BY <2>1, <2>2 DEF IInv, Apart, QueueAndLoopsApart
  <2>4. EventKind(queue[1]) # "committing"
    BY DEF EventKind
  <2> QED
    BY <1>2, <1>6, <1>9, <2>3, <2>4
<1> QED
  BY <1>1, <1>2, <1>3, <1>5, <1>8, <1>9

(* More loops than purchases in their hands: one of them is free. *)
LEMMA NotJammed ==
  ASSUME IInv, IsFiniteSet(On), \A s \in Sagas : <<"commit", s>> \notin fault
  PROVE  ~Jammed
<1> SUFFICES ASSUME Jammed PROVE FALSE
  OBVIOUS
<1> DEFINE u == queue[1].saga
           f == [c \in On |-> hand[c].saga]
<1>1. u \in On
  <2>1. 1 \in 1 .. Len(queue)
    BY JammedPlaces, QueueAssumption
  <2>2. queue[1] \in Events /\ InQueue(queue[1])
    BY <2>1 DEF InQueue, IInv, TypeOK
  <2>3. u \in Sagas /\ loc[u] # "off"
    BY <2>2, EventsType DEF IInv, Control
  <2> QED
    BY <2>3 DEF On
<1>2. f \in [On -> On \ {u}] /\ \A c, d \in On : c # d => f[c] # f[d]
  BY JammedPlaces
<1>3. /\ IsFiniteSet(On \ {u}) /\ Cardinality(On \ {u}) = Cardinality(On) - 1
      /\ Cardinality(On) \in Nat
  BY <1>1, FS_RemoveElement, FS_CardinalityType
<1>4. Cardinality(On \ {u}) < Cardinality(On)
  BY <1>3
<1> HIDE DEF f, u
<1>5. \E c, d \in On : c # d /\ f[c] = f[d]
  BY <1>2, <1>3, <1>4, FS_PigeonHole
<1> QED
  BY <1>2, <1>5

(***************************************************************************)
(* The loops of EventCenter, which take from the queue and put to it, are  *)
(* never all blocked in put or behind an item such a loop has locked,      *)
(* whatever the queue's capacity and the number of purchases: each         *)
(* placeOrder starts a loop before it puts its first event.  Only a failed *)
(* commit of deductStock, which puts a second event, can jam them.         *)
(***************************************************************************)
THEOREM SagaNeverJammed == Spec => []NeverJammed
<1>1. IInv /\ FewOn /\ [Next]_vars => FewOn'
  BY NextOn DEF IInv
<1>2. IInv /\ FewOn => NeverJammed
  BY NotJammed DEF NeverJammed, FewOn
<1> QED
  BY <1>1, <1>2, InitOn, InvariantIInv, PTL DEF Spec
=============================================================================
