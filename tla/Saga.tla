-------------------------------- MODULE Saga --------------------------------
(***************************************************************************)
(* The saga demo: com.clpsz.ShopController.placeOrder starts an event loop *)
(* of its own and puts the first event of its purchase; the loops of       *)
(* EventCenter take events of any purchase from one bounded queue in       *)
(* memory, carry out CreateOrderEvent.processEvent on the databases of     *)
(* SagaStore and put the next event.                                       *)
(*                                                                         *)
(* A loop is named by the purchase whose placeOrder started it.            *)
(***************************************************************************)
EXTENDS SagaStore, FiniteSets

CONSTANTS QueueSize,  \* capacity of the ArrayBlockingQueue (100)
          NoEvent     \* the hand of a loop that waits for an event

ASSUME QueueAssumption == QueueSize \in Nat \ {0}

VARIABLES queue,      \* EventCenter.queue
          pc,         \* next call of placeOrder, per purchase
          loc,        \* next call of each loop
          hand,       \* the event a loop processes or is about to put
          todo,       \* steps processCancel has still to compensate
          fault       \* <<kind, s>>: purchases that met a failure

loopVars == <<loc, hand, todo>>
vars == <<dbVars, queue, pc, loopVars, fault>>

Event(s, name, succeed) == [saga |-> s, name |-> name, succeed |-> succeed]
Events == [saga : Sagas, name : {"INIT"} \cup Steps, succeed : BOOLEAN]

ASSUME NoEventAssumption == NoEvent \notin Events

Location == {"off", "take", "updateLog", "insertLog", "createOrder",
             "deductStock", "putEvent", "putDeducted", "commitDeduct",
             "selectLog", "compensate", "logCanceled", "updateSaga"}

TypeOK ==
  /\ StoreTypeOK
  /\ queue \in Seq(Events) /\ Len(queue) <= QueueSize
  /\ pc \in [Sagas -> {"insertSaga", "startLoop", "putInit", "returned", "abandoned"}]
  /\ loc \in [Sagas -> Location]
  /\ hand \in [Sagas -> Events \cup {NoEvent}]
  /\ todo \in [Sagas -> Seq(Steps)]
  /\ fault \subseteq {"call", "commit"} \X Sagas

Init ==
  /\ StoreInit
  /\ queue = <<>>
  /\ pc = [s \in Sagas |-> "insertSaga"]
  /\ loc = [c \in Sagas |-> "off"]
  /\ hand = [c \in Sagas |-> NoEvent]
  /\ todo = [c \in Sagas |-> <<>>]
  /\ fault = {}

-----------------------------------------------------------------------------
(* A call that failed though nothing in the program's state made it fail. *)
Blame(s, reply, refusable) ==
  fault' = IF reply = "exn" \/ (reply = "false" /\ ~refusable)
             THEN fault \cup {<<"call", s>>} ELSE fault

(* placeOrder *)

(* With a null id the saga goes on all the same, and stores nothing. *)
PlaceInsertSaga(s, reply) ==
  /\ pc[s] = "insertSaga"
  /\ InsertSaga(s, reply)
  /\ pc' = [pc EXCEPT ![s] = IF reply = "exn" THEN "abandoned" ELSE "startLoop"]
  /\ Blame(s, reply, FALSE)
  /\ UNCHANGED <<itemVars, order, log, queue, loopVars>>

(* Mutant: one loop for the whole program is thought to be enough. *)
PlaceStartLoopOnce(s) ==
  /\ pc[s] = "startLoop"
  /\ pc' = [pc EXCEPT ![s] = "putInit"]
  /\ loc' = IF \A c \in Sagas : loc[c] = "off"
              THEN [loc EXCEPT ![s] = "take"] ELSE loc
  /\ UNCHANGED <<dbVars, queue, hand, todo, fault>>

PlaceStartLoop(s) ==
  /\ pc[s] = "startLoop"
  /\ pc' = [pc EXCEPT ![s] = "putInit"]
  /\ loc' = [loc EXCEPT ![s] = "take"]
  /\ UNCHANGED <<dbVars, queue, hand, todo, fault>>

HasRoom == Len(queue) < QueueSize

PlacePutInit(s) ==
  /\ pc[s] = "putInit" /\ HasRoom
  /\ queue' = Append(queue, Event(s, "INIT", TRUE))
  /\ pc' = [pc EXCEPT ![s] = "returned"]
  /\ UNCHANGED <<dbVars, loopVars, fault>>

PlaceOrder(s) ==
  \/ \E reply \in Reply : PlaceInsertSaga(s, reply)
  \/ PlaceStartLoop(s)
  \/ PlacePutInit(s)

-----------------------------------------------------------------------------
(* The loop *)

Goto(c, next) == loc' = [loc EXCEPT ![c] = next] /\ UNCHANGED <<hand, todo>>

(* The event is dealt with: back to queue.take(). *)
Done(c) ==
  /\ loc' = [loc EXCEPT ![c] = "take"]
  /\ hand' = [hand EXCEPT ![c] = NoEvent]
  /\ todo' = [todo EXCEPT ![c] = <<>>]

(* The loop catches the SQLException and drops the event. *)
After(c, reply, next) == IF reply = "exn" THEN Done(c) ELSE Goto(c, next)

(* The step ends with an event of its own name, which has to be put. *)
Raise(c, name, succeed, next) ==
  /\ loc' = [loc EXCEPT ![c] = next]
  /\ hand' = [hand EXCEPT ![c] = Event(hand[c].saga, name, succeed)]
  /\ UNCHANGED todo

(* Mutant: the flag of a failed event is not looked at. *)
TakeForward(c) ==
  /\ loc[c] = "take" /\ queue # <<>>
  /\ queue' = Tail(queue)
  /\ hand' = [hand EXCEPT ![c] = Head(queue)]
  /\ loc' = [loc EXCEPT ![c] = IF Head(queue).name = "INIT" THEN "insertLog" ELSE "updateLog"]
  /\ UNCHANGED <<dbVars, pc, todo, fault>>

(* queue.take(), and the choice of processEvent. *)
Take(c) ==
  /\ loc[c] = "take" /\ queue # <<>>
  /\ queue' = Tail(queue)
  /\ hand' = [hand EXCEPT ![c] = Head(queue)]
  /\ loc' = [loc EXCEPT ![c] = IF ~Head(queue).succeed THEN "selectLog"
                               ELSE IF Head(queue).name = "INIT" THEN "insertLog"
                               ELSE "updateLog"]
  /\ UNCHANGED <<dbVars, pc, todo, fault>>

(* The step before succeeded; the result of the update is ignored. *)
UpdateLog(c, reply) == LET e == hand[c] IN
  /\ loc[c] = "updateLog"
  /\ UpdateSagaLogEventStatus(e.saga, e.name, "SUCCEED", reply)
  /\ After(c, reply, IF e.name = "CREATE_ORDER" THEN "insertLog" ELSE "updateSaga")
  /\ Blame(e.saga, reply, FALSE)
  /\ UNCHANGED <<itemVars, order, sagaStatus, queue, pc>>

(* ORDER_TRANSIT_FORWARD; the result of the insert is ignored. *)
NextStep(name) == IF name = "INIT" THEN "CREATE_ORDER" ELSE "DEDUCT_STOCK"

InsertLog(c, reply) == LET e == hand[c] IN
  /\ loc[c] = "insertLog"
  /\ InsertSagaLog(e.saga, NextStep(e.name), reply)
  /\ After(c, reply, IF e.name = "INIT" THEN "createOrder" ELSE "deductStock")
  /\ Blame(e.saga, reply, FALSE)
  /\ UNCHANGED <<itemVars, order, sagaStatus, queue, pc>>

(* Mutant: the catch clause does not put the failed event. *)
CreateOrderSilent(c, reply) == LET s == hand[c].saga IN
  /\ loc[c] = "createOrder"
  /\ \/ reply = "true" /\ InsertOrder(s) /\ Raise(c, "CREATE_ORDER", TRUE, "putEvent")
     \/ reply = "false" /\ UNCHANGED order /\ Done(c)
     \/ reply = "exn" /\ (InsertOrder(s) \/ UNCHANGED order) /\ Done(c)
  /\ Blame(s, reply, TRUE)
  /\ UNCHANGED <<itemVars, sagaStatus, log, queue, pc>>

CreateOrder(c, reply) == LET s == hand[c].saga IN
  /\ loc[c] = "createOrder"
  /\ \/ reply = "true" /\ InsertOrder(s) /\ Raise(c, "CREATE_ORDER", TRUE, "putEvent")
     \/ reply = "true" /\ order[s] # "NONE" /\ UNCHANGED order /\ Done(c)
     \/ reply = "false" /\ UNCHANGED order /\ Raise(c, "CREATE_ORDER", FALSE, "putEvent")
     \/ reply = "exn" /\ (InsertOrder(s) \/ UNCHANGED order) /\ Done(c)
  /\ Blame(s, reply, TRUE)
  /\ UNCHANGED <<itemVars, sagaStatus, log, queue, pc>>

(* deductStock holds the row of its item from its first select on. *)
ItemFree(s) ==
  \A c \in Sagas : loc[c] \in {"putDeducted", "commitDeduct"}
                     => ItemOf[hand[c].saga] # ItemOf[s]

(* deductStock up to its event, which it puts before it commits. *)
DeductStock(c, reply) == LET s == hand[c].saga IN
  /\ loc[c] = "deductStock"
  /\ \/ /\ reply = "true" /\ ItemFree(s) /\ Deductible(s)
        /\ Raise(c, "DEDUCT_STOCK", TRUE, "putDeducted")
     \/ /\ reply = "true" /\ ItemFree(s) /\ reserve[s] # NoRow
        /\ Raise(c, "DEDUCT_STOCK", TRUE, "putEvent")
     \/ reply = "false" /\ Raise(c, "DEDUCT_STOCK", FALSE, "putEvent")
     \/ reply = "exn" /\ Done(c)
  /\ Blame(s, reply, TRUE)
  /\ UNCHANGED <<dbVars, queue, pc>>

PutDeducted(c) ==
  /\ loc[c] = "putDeducted" /\ HasRoom
  /\ queue' = Append(queue, hand[c])
  /\ Goto(c, "commitDeduct")
  /\ UNCHANGED <<dbVars, pc, fault>>

(***************************************************************************)
(* conn.commit() at last.  When it fails, the rollback is followed by a    *)
(* second event of the step, which contradicts the one put before.         *)
(***************************************************************************)
CommitDeduct(c, reply) == LET s == hand[c].saga IN
  /\ loc[c] = "commitDeduct"
  /\ \/ reply = "true" /\ DeductCommitted(s) /\ Done(c)
     \/ reply = "false" /\ UNCHANGED itemVars /\ Raise(c, "DEDUCT_STOCK", FALSE, "putEvent")
     \/ reply = "exn" /\ (DeductCommitted(s) \/ UNCHANGED itemVars) /\ Done(c)
  /\ fault' = IF reply = "true" THEN fault
              ELSE fault \cup {<<"call", s>>, <<"commit", s>>}
  /\ UNCHANGED <<order, sagaStatus, log, queue, pc>>

PutEvent(c) ==
  /\ loc[c] = "putEvent" /\ HasRoom
  /\ queue' = Append(queue, hand[c])
  /\ Done(c)
  /\ UNCHANGED <<dbVars, pc, fault>>

(* Mutant: only the steps logged as succeeded are compensated. *)
SelectLogSucceeded(c, reply) == LET s == hand[c].saga IN
  /\ loc[c] = "selectLog" /\ reply \in {"true", "exn"}
  /\ LET steps == SelectSeq(ToCompensate(s), LAMBDA e : log[s][e] = "SUCCEED") IN
     IF reply = "exn" THEN Done(c)
     ELSE /\ loc' = [loc EXCEPT ![c] = IF steps = <<>> THEN "updateSaga" ELSE "compensate"]
          /\ todo' = [todo EXCEPT ![c] = steps]
          /\ UNCHANGED hand
  /\ Blame(s, reply, FALSE)
  /\ UNCHANGED <<dbVars, queue, pc>>

(* processCancel reads the log once; selectSagaLog catches nothing. *)
SelectLog(c, reply) == LET s == hand[c].saga IN
  /\ loc[c] = "selectLog" /\ reply \in {"true", "exn"}
  /\ IF reply = "exn" THEN Done(c)
     ELSE /\ loc' = [loc EXCEPT ![c] = IF ToCompensate(s) = <<>> THEN "updateSaga" ELSE "compensate"]
          /\ todo' = [todo EXCEPT ![c] = ToCompensate(s)]
          /\ UNCHANGED hand
  /\ Blame(s, reply, FALSE)
  /\ UNCHANGED <<dbVars, queue, pc>>

(* A compensation that answers false ends processCancel for good. *)
Compensate(c, reply) == LET s == hand[c].saga IN
  /\ loc[c] = "compensate"
  /\ \/ /\ Head(todo[c]) = "DEDUCT_STOCK" /\ (reply = "true" => ItemFree(s))
        /\ CancelDeductStock(s, reply) /\ UNCHANGED order
        /\ Blame(s, reply, ItemOf[s] \notin Items)
     \/ /\ Head(todo[c]) = "CREATE_ORDER"
        /\ CancelOrder(s, reply) /\ UNCHANGED itemVars
        /\ Blame(s, reply, FALSE)
  /\ IF reply = "true" THEN Goto(c, "logCanceled") ELSE Done(c)
  /\ UNCHANGED <<sagaStatus, log, queue, pc>>

(* Mutant: the loop over the log ends after one compensation. *)
LogCanceledOnce(c, reply) == LET s == hand[c].saga IN
  /\ loc[c] = "logCanceled"
  /\ UpdateSagaLogEventStatus(s, Head(todo[c]), "CANCELED", reply)
  /\ IF reply = "exn" THEN Done(c)
     ELSE /\ todo' = [todo EXCEPT ![c] = <<>>]
          /\ loc' = [loc EXCEPT ![c] = "updateSaga"]
          /\ UNCHANGED hand
  /\ Blame(s, reply, FALSE)
  /\ UNCHANGED <<itemVars, order, sagaStatus, queue, pc>>

(* The log of the compensated step; the result is ignored. *)
LogCanceled(c, reply) == LET s == hand[c].saga IN
  /\ loc[c] = "logCanceled"
  /\ UpdateSagaLogEventStatus(s, Head(todo[c]), "CANCELED", reply)
  /\ IF reply = "exn" THEN Done(c)
     ELSE /\ todo' = [todo EXCEPT ![c] = Tail(@)]
          /\ loc' = [loc EXCEPT ![c] = IF Len(todo[c]) = 1 THEN "updateSaga" ELSE "compensate"]
          /\ UNCHANGED hand
  /\ Blame(s, reply, FALSE)
  /\ UNCHANGED <<itemVars, order, sagaStatus, queue, pc>>

UpdateSaga(c, reply) == LET s == hand[c].saga IN
  /\ loc[c] = "updateSaga"
  /\ UpdateSagaStatus(s, IF hand[c].succeed THEN "FINISHED" ELSE "CANCELED", reply)
  /\ Done(c)
  /\ Blame(s, reply, sagaStatus[s] # "INIT")
  /\ UNCHANGED <<itemVars, order, log, queue, pc>>

Loop(c) ==
  \/ Take(c) \/ PutEvent(c) \/ PutDeducted(c)
  \/ \E reply \in Reply :
       \/ UpdateLog(c, reply) \/ InsertLog(c, reply)
       \/ CreateOrder(c, reply) \/ DeductStock(c, reply) \/ CommitDeduct(c, reply)
       \/ SelectLog(c, reply) \/ Compensate(c, reply) \/ LogCanceled(c, reply)
       \/ UpdateSaga(c, reply)

-----------------------------------------------------------------------------
Held(c, s) == hand[c] # NoEvent /\ hand[c].saga = s

(* The purchase still runs: placeOrder, an event or a loop has it. *)
Alive(s) ==
  \/ pc[s] \notin {"insertSaga", "returned", "abandoned"}
  \/ \E i \in 1 .. Len(queue) : queue[i].saga = s
  \/ \E c \in Sagas : Held(c, s)

(***************************************************************************)
(* The program stops: the queue and every loop are gone, the databases     *)
(* roll back what was open, and nothing resumes the purchases under way.   *)
(***************************************************************************)
Crash ==
  /\ \E s \in Sagas : loc[s] # "off" \/ pc[s] \in {"startLoop", "putInit"}
  /\ queue' = <<>>
  /\ loc' = [c \in Sagas |-> "off"]
  /\ hand' = [c \in Sagas |-> NoEvent]
  /\ todo' = [c \in Sagas |-> <<>>]
  /\ pc' = [s \in Sagas |-> IF pc[s] \in {"startLoop", "putInit"} THEN "abandoned" ELSE pc[s]]
  /\ fault' = fault \cup {<<"call", s>> : s \in {s \in Sagas : Alive(s)}}
                    \cup {<<"commit", hand[c].saga>> : c \in {c \in Sagas : loc[c] = "commitDeduct"}}
  /\ UNCHANGED dbVars

Next == Crash \/ \E s \in Sagas : PlaceOrder(s) \/ Loop(s)

Spec == Init /\ [][Next]_vars

(***************************************************************************)
(* Threads that can go on do.  A failed call, and a stop of the program,   *)
(* may still come between any two steps.                                   *)
(***************************************************************************)
FairSpec == Spec /\ \A s \in Sagas : WF_vars(PlaceOrder(s) \/ Loop(s))

-----------------------------------------------------------------------------
(* Correctness. *)

(***************************************************************************)
(* A finished saga has bought: its order is normal and its stock deducted, *)
(* or about to be, since deductStock puts its event before it commits.     *)
(* Only that commit, failing or cut off by a crash, can belie the status.  *)
(***************************************************************************)
FinishedIsBought == \A s \in Sagas :
  sagaStatus[s] = "FINISHED" /\ <<"commit", s>> \notin fault =>
    /\ order[s] = "NORMAL"
    /\ \/ reserve[s] = Row(Count[s], "NORMAL")
       \/ \E c \in Sagas : loc[c] = "commitDeduct" /\ hand[c].saga = s

(***************************************************************************)
(* A canceled saga has left nothing behind, neither stock nor order, even  *)
(* if loops raced over its two contradicting events; except the order of a *)
(* step whose log could not be written, which processCancel cannot see.    *)
(***************************************************************************)
CanceledIsUndone == \A s \in Sagas :
  sagaStatus[s] = "CANCELED" =>
    /\ reserve[s].status # "NORMAL"
    /\ order[s] # "NORMAL" \/ log[s]["CREATE_ORDER"] = "NONE"

(***************************************************************************)
(* A saga that met no failure and is at rest is over and whole: finished   *)
(* with order and stock, or canceled with neither; never stuck in between. *)
(* A missing item is the exception: cancelDeductStock refuses it as well.  *)
(***************************************************************************)
AtRestIsWhole == \A s \in Sagas :
  /\ pc[s] = "returned" /\ ~Alive(s)
  /\ \A kind \in {"call", "commit"} : <<kind, s>> \notin fault
  /\ ItemOf[s] \in Items
  => \/ /\ sagaStatus[s] = "FINISHED"
        /\ order[s] = "NORMAL" /\ reserve[s].status = "NORMAL"
     \/ /\ sagaStatus[s] = "CANCELED"
        /\ order[s] # "NORMAL" /\ reserve[s].status # "NORMAL"

(* The reserved units of an item: <<s, n>> is the n-th one of purchase s. *)
Reserved(i) ==
  UNION {{s} \X (1 .. reserve[s].amount) :
           s \in {s \in Sagas : ItemOf[s] = i /\ reserve[s].status = "NORMAL"}}

(* What is left and what is reserved always add up to the initial stock. *)
StockIsAccounted == \A i \in Items :
  stock[i] >= 0 /\ stock[i] + Cardinality(Reserved(i)) = InitStock[i]

(***************************************************************************)
(* The loops are the consumers of the queue and its producers: all of them *)
(* blocked in put, or behind an item that such a loop has locked, would be *)
(* the end.  A loop per purchase prevents it, for a queue of any size, as  *)
(* long as no purchase has two events, that is, no commit has failed.      *)
(***************************************************************************)
Blocked(c) ==
  \/ loc[c] \in {"putEvent", "putDeducted"} /\ ~HasRoom
  \/ /\ \/ loc[c] = "deductStock"
        \/ loc[c] = "compensate" /\ Head(todo[c]) = "DEDUCT_STOCK"
     /\ ~ItemFree(hand[c].saga)

Jammed == /\ \E c \in Sagas : loc[c] # "off"
          /\ \A c \in Sagas : loc[c] = "off" \/ Blocked(c)

NeverJammed == Jammed => \E s \in Sagas : <<"commit", s>> \in fault

(***************************************************************************)
(* The saga pattern (SagaPattern): step 1 is the order, step 2 the stock.  *)
(* A step is started when it is logged, done when its row is normal, and   *)
(* undone when its row is canceled, or its log where there is no row.      *)
(***************************************************************************)
StepOf(done, undone, status) ==
  IF done THEN "done" ELSE IF undone THEN "undone"
  ELSE IF status = "NONE" THEN "todo" ELSE "started"

SagaSteps == [s \in Sagas |-> [k \in 1 .. 2 |->
  IF k = 1
    THEN StepOf(order[s] = "NORMAL",
                order[s] = "CANCELED" \/ log[s]["CREATE_ORDER"] = "CANCELED",
                log[s]["CREATE_ORDER"])
    ELSE StepOf(reserve[s].status = "NORMAL", reserve[s].status = "CANCELED",
                log[s]["DEDUCT_STOCK"])]]

Pattern == INSTANCE SagaPattern WITH N <- 2, step <- SagaSteps

(***************************************************************************)
(* Whatever fails, processEvent does the steps in order, one started only  *)
(* on the success of the one before, and undoes them in the opposite order. *)
(***************************************************************************)
ImplementsPattern == Pattern!PatternSpec

(***************************************************************************)
(* Every purchase of an item that exists comes to an end, for lack of      *)
(* stock or after a failed try as well, unless a call of its own failed or *)
(* a commit did, whose second event may jam the queue for all of them.     *)
(***************************************************************************)
EverySagaEnds == \A s \in Sagas :
  ItemOf[s] \in Items =>
    <>(\/ sagaStatus[s] \in {"FINISHED", "CANCELED"}
       \/ <<"call", s>> \in fault \/ \E u \in Sagas : <<"commit", u>> \in fault)
=============================================================================
