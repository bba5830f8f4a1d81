-------------------------------- MODULE Tcc ---------------------------------
(***************************************************************************)
(* The TCC demo as a whole: com.clpsz.ShopController.placeOrder running    *)
(* for several purchases at once over the stock service (TccStock), the    *)
(* order service (TccOrders) and the coordinator's own table, TccService.  *)
(*                                                                         *)
(* Every call of a service may fail.  "exn" of any call abandons placeOrder *)
(* where it stands; a crash of the program does the same, before or after  *)
(* the call took effect.  Nothing in the code resumes such a purchase.     *)
(***************************************************************************)
EXTENDS TccStock, TccOrders

VARIABLES tccStatus,  \* tcc_table.tcc_status by tcc_id, "NONE" for no row
          pc,         \* next call of placeOrder, per purchase
          faulty      \* purchases that met a failure of the environment

coordVars == <<tccStatus, pc, faulty>>
vars == <<stockVars, orderVars, coordVars>>

TccStatus == {"INIT", "TO_CONFIRM", "TO_CANCEL", "FINISHED"}

Location == {"insertTcc", "getItem", "tryOrder", "tryStock", "decide",
             "confirmStock", "confirmOrder", "cancelStock", "cancelOrder",
             "finish", "returned", "abandoned"}

TypeOK ==
  /\ StockTypeOK
  /\ OrderTypeOK
  /\ tccStatus \in [Tcc -> TccStatus \cup {"NONE"}]
  /\ pc \in [Tcc -> Location]
  /\ faulty \in SUBSET Tcc

Init ==
  /\ StockInit
  /\ OrderInit
  /\ tccStatus = [t \in Tcc |-> "NONE"]
  /\ pc = [t \in Tcc |-> "insertTcc"]
  /\ faulty = {}

-----------------------------------------------------------------------------
(* A call that does not throw goes on to the next; a throw abandons. *)
Goto(t, reply, next) ==
  pc' = [pc EXCEPT ![t] = IF reply = "exn" THEN "abandoned" ELSE next]

(* "false" is a fault of the environment unless the service had to refuse. *)
Blame(t, reply, refusable) ==
  faulty' = IF reply = "exn" \/ (reply = "false" /\ ~refusable)
              THEN faulty \cup {t} ELSE faulty

(***************************************************************************)
(* TccService.insertTcc, updateTccFromInit, updateTccToFinished: one       *)
(* transaction on tcc_table; "true" stands for one updated row.            *)
(***************************************************************************)
SetTccStatus(t, from, to, reply) ==
  \/ /\ reply \in {"true", "exn"} /\ tccStatus[t] \in from
     /\ tccStatus' = [tccStatus EXCEPT ![t] = to]
  \/ reply \in {"false", "exn"} /\ UNCHANGED tccStatus

(* Without an id every later call of placeOrder fails and stores nothing. *)
InsertTcc(t, reply) ==
  /\ pc[t] = "insertTcc"
  /\ SetTccStatus(t, {"NONE"}, "INIT", reply)
  /\ Goto(t, reply, IF reply = "true" THEN "getItem" ELSE "returned")
  /\ Blame(t, reply, FALSE)
  /\ UNCHANGED <<stockVars, orderVars>>

(* getItemById answers null on any failure; item.getPrice() then throws. *)
GetItem(t, reply) ==
  /\ pc[t] = "getItem"
  /\ reply = "true" => ItemOf[t] \in Items
  /\ pc' = [pc EXCEPT ![t] = IF reply = "true" THEN "tryOrder" ELSE "abandoned"]
  /\ Blame(t, reply, ItemOf[t] \notin Items)
  /\ UNCHANGED <<stockVars, orderVars, tccStatus>>

TryOrder(t, reply) ==
  /\ pc[t] = "tryOrder"
  /\ TryCreateOrder(t, reply)
  /\ Goto(t, reply, "tryStock")
  /\ Blame(t, reply, TRUE)
  /\ UNCHANGED <<stockVars, tccStatus>>

TryStock(t, reply) ==
  /\ pc[t] = "tryStock"
  /\ TryReserveStock(t, reply)
  /\ Goto(t, reply, "decide")
  /\ Blame(t, reply, TRUE)
  /\ UNCHANGED <<orderVars, tccStatus>>

BothAnswered(op, t) == <<op, t>> \in stockAcked /\ <<op, t>> \in orderAcked

(* Mutant: one try that succeeded is enough to confirm. *)
DecideEither(t, reply) ==
  /\ pc[t] = "decide"
  /\ SetTccStatus(t, {"INIT"}, IF <<"try", t>> \in stockAcked \cup orderAcked THEN "TO_CONFIRM" ELSE "TO_CANCEL", reply)
  /\ Goto(t, reply, IF reply = "false" THEN "returned"
                    ELSE IF <<"try", t>> \in stockAcked \cup orderAcked THEN "confirmStock" ELSE "cancelStock")
  /\ Blame(t, reply, tccStatus[t] # "INIT")
  /\ UNCHANGED <<stockVars, orderVars>>

(* Mutant: the result of tryReserveStock is not looked at. *)
DecideByOrder(t, reply) ==
  /\ pc[t] = "decide"
  /\ SetTccStatus(t, {"INIT"}, IF <<"try", t>> \in orderAcked THEN "TO_CONFIRM" ELSE "TO_CANCEL", reply)
  /\ Goto(t, reply, IF reply = "false" THEN "returned"
                    ELSE IF <<"try", t>> \in orderAcked THEN "confirmStock" ELSE "cancelStock")
  /\ Blame(t, reply, tccStatus[t] # "INIT")
  /\ UNCHANGED <<stockVars, orderVars>>

(* Mutant: "updated > 0" is not checked. *)
DecideUnchecked(t, reply) ==
  /\ pc[t] = "decide"
  /\ SetTccStatus(t, {"INIT"}, IF BothAnswered("try", t) THEN "TO_CONFIRM" ELSE "TO_CANCEL", reply)
  /\ Goto(t, reply, IF BothAnswered("try", t) THEN "confirmStock" ELSE "cancelStock")
  /\ Blame(t, reply, tccStatus[t] # "INIT")
  /\ UNCHANGED <<stockVars, orderVars>>

(* updateTccFromInit, to TO_CONFIRM or TO_CANCEL. *)
Decide(t, reply) ==
  /\ pc[t] = "decide"
  /\ SetTccStatus(t, {"INIT"}, IF BothAnswered("try", t) THEN "TO_CONFIRM" ELSE "TO_CANCEL", reply)
  /\ Goto(t, reply, IF reply = "false" THEN "returned"
                    ELSE IF BothAnswered("try", t) THEN "confirmStock" ELSE "cancelStock")
  /\ Blame(t, reply, tccStatus[t] # "INIT")
  /\ UNCHANGED <<stockVars, orderVars>>

ConfirmStock(t, reply) ==
  /\ pc[t] = "confirmStock"
  /\ ConfirmReserveStock(t, reply)
  /\ Goto(t, reply, "confirmOrder")
  /\ Blame(t, reply, reserve[t].status \notin {"INIT", "CONFIRMED"})
  /\ UNCHANGED <<orderVars, tccStatus>>

(* Mutant: an order that fails to confirm is canceled instead. *)
ConfirmOrderElseCancel(t, reply) ==
  /\ pc[t] = "confirmOrder"
  /\ ConfirmCreateOrder(t, reply)
  /\ Goto(t, reply, IF reply = "true" /\ <<"confirm", t>> \in stockAcked
                      THEN "finish" ELSE "cancelOrder")
  /\ Blame(t, reply, order[t] # "INIT")
  /\ UNCHANGED <<stockVars, tccStatus>>

(* Mutant: only the last confirmation decides whether to finish. *)
ConfirmOrderAlone(t, reply) ==
  /\ pc[t] = "confirmOrder"
  /\ ConfirmCreateOrder(t, reply)
  /\ Goto(t, reply, IF reply = "true" THEN "finish" ELSE "returned")
  /\ Blame(t, reply, order[t] # "INIT")
  /\ UNCHANGED <<stockVars, tccStatus>>

ConfirmOrder(t, reply) ==
  /\ pc[t] = "confirmOrder"
  /\ ConfirmCreateOrder(t, reply)
  /\ Goto(t, reply, IF reply = "true" /\ <<"confirm", t>> \in stockAcked
                      THEN "finish" ELSE "returned")
  /\ Blame(t, reply, order[t] # "INIT")
  /\ UNCHANGED <<stockVars, tccStatus>>

CancelStock(t, reply) ==
  /\ pc[t] = "cancelStock"
  /\ CancelReserveStock(t, reply)
  /\ Goto(t, reply, "cancelOrder")
  /\ Blame(t, reply, ItemOf[t] \notin Items \/ reserve[t].status = "CONFIRMED")
  /\ UNCHANGED <<orderVars, tccStatus>>

CancelOrder(t, reply) ==
  /\ pc[t] = "cancelOrder"
  /\ CancelCreateOrder(t, reply)
  /\ Goto(t, reply, IF reply = "true" /\ <<"cancel", t>> \in stockAcked
                      THEN "finish" ELSE "returned")
  /\ Blame(t, reply, order[t] \notin {"NONE", "INIT"})
  /\ UNCHANGED <<stockVars, tccStatus>>

(* updateTccToFinished; its result is ignored. *)
Finish(t, reply) ==
  /\ pc[t] = "finish"
  /\ SetTccStatus(t, {"TO_CONFIRM", "TO_CANCEL"}, "FINISHED", reply)
  /\ Goto(t, reply, "returned")
  /\ Blame(t, reply, tccStatus[t] \notin {"TO_CONFIRM", "TO_CANCEL"})
  /\ UNCHANGED <<stockVars, orderVars>>

PlaceOrder(t, reply) ==
  \/ InsertTcc(t, reply) \/ GetItem(t, reply)
  \/ TryOrder(t, reply) \/ TryStock(t, reply) \/ Decide(t, reply)
  \/ ConfirmStock(t, reply) \/ ConfirmOrder(t, reply)
  \/ CancelStock(t, reply) \/ CancelOrder(t, reply)
  \/ Finish(t, reply)

Next == \E t \in Tcc, reply \in Reply : PlaceOrder(t, reply)

Spec == Init /\ [][Next]_vars

(* A thread of placeOrder goes on until it returns or throws. *)
FairSpec == Spec /\ \A t \in Tcc : WF_vars(\E reply \in Reply : PlaceOrder(t, reply))

-----------------------------------------------------------------------------
(* Correctness. *)

(***************************************************************************)
(* A purchase is never sold and called off at once: no confirmed           *)
(* reservation stands beside a canceled order, no normal order beside a    *)
(* canceled reservation, whatever failed and wherever it stopped.          *)
(***************************************************************************)
NeverSplit == \A t \in Tcc :
  /\ ~(reserve[t].status = "CONFIRMED" /\ order[t] = "CANCELED")
  /\ ~(reserve[t].status = "CANCELED" /\ order[t] = "NORMAL")

(***************************************************************************)
(* A finished transaction is over: both participants are confirmed, or the *)
(* reservation is canceled and the order is canceled or was never made.    *)
(***************************************************************************)
FinishedIsSettled == \A t \in Tcc :
  tccStatus[t] = "FINISHED" =>
    \/ reserve[t].status = "CONFIRMED" /\ order[t] = "NORMAL"
    \/ reserve[t].status = "CANCELED" /\ order[t] \in {"NONE", "CANCELED"}

(***************************************************************************)
(* A normal order has its items: the reservation holds the count the order *)
(* was made for, also when the confirmation of the stock failed and that   *)
(* of the order was carried out all the same.                              *)
(***************************************************************************)
NormalOrderHoldsStock == \A t \in Tcc :
  order[t] = "NORMAL" => /\ reserve[t].status \in {"INIT", "CONFIRMED"}
                         /\ reserve[t].amount = Count[t]

(* The units of an item in orders that went through. *)
SoldOf(i) ==
  UNION {{t} \X (1 .. Count[t]) : t \in {t \in Tcc : ItemOf[t] = i /\ order[t] = "NORMAL"}}

(* They never add up to more than there was. *)
SoldWithinStock == \A i \in Items : Cardinality(SoldOf(i)) <= InitStock[i]

(***************************************************************************)
(* A purchase stops short of FINISHED only for a fault of the environment  *)
(* or a missing item: in the second phase no participant ever refuses.     *)
(***************************************************************************)
StuckOnlyByFault == \A t \in Tcc :
  /\ pc[t] \in {"returned", "abandoned"}
  /\ t \notin faulty
  /\ ItemOf[t] \in Items
  => tccStatus[t] = "FINISHED"

(***************************************************************************)
(* The second phase follows the decision: a participant leaves INIT only   *)
(* after the coordinator's row says which way, and the row never changes   *)
(* its mind.                                                               *)
(***************************************************************************)
FollowsDecision ==
  [][\A t \in Tcc :
       /\ reserve[t].status # "CONFIRMED" /\ reserve'[t].status = "CONFIRMED"
            => tccStatus[t] = "TO_CONFIRM"
       /\ order[t] # "NORMAL" /\ order'[t] = "NORMAL" => tccStatus[t] = "TO_CONFIRM"
       /\ reserve[t].status # "CANCELED" /\ reserve'[t].status = "CANCELED"
            => tccStatus[t] = "TO_CANCEL"
       /\ order[t] # "CANCELED" /\ order'[t] = "CANCELED" => tccStatus[t] = "TO_CANCEL"
       /\ tccStatus[t] = "TO_CONFIRM" => tccStatus'[t] # "TO_CANCEL"
       /\ tccStatus[t] = "TO_CANCEL" => tccStatus'[t] # "TO_CONFIRM"]_vars

(***************************************************************************)
(* Every purchase of an item that exists is finished in the end, confirmed *)
(* or canceled, unless a failure of the environment abandons it.           *)
(***************************************************************************)
EveryPurchaseFinishes ==
  \A t \in Tcc : ItemOf[t] \in Items => <>(tccStatus[t] = "FINISHED" \/ t \in faulty)

(***************************************************************************)
(* Why all this holds: what the participants have done, the coordinator's  *)
(* row, the answers seen and the place placeOrder has reached agree.       *)
(***************************************************************************)
RowsFollowStatus(t) ==
  /\ tccStatus[t] = "NONE" => reserve[t].status = "NONE" /\ order[t] = "NONE"
  /\ tccStatus[t] = "INIT" => reserve[t].status \in {"NONE", "INIT"}
                           /\ order[t] \in {"NONE", "INIT"}
  /\ tccStatus[t] = "TO_CONFIRM" => reserve[t].status \in {"INIT", "CONFIRMED"}
                                 /\ order[t] \in {"INIT", "NORMAL"}
  /\ tccStatus[t] = "TO_CANCEL" => reserve[t].status \in {"NONE", "INIT", "CANCELED"}
                                /\ order[t] \in {"NONE", "INIT", "CANCELED"}
  /\ tccStatus[t] = "FINISHED" =>
       \/ reserve[t].status = "CONFIRMED" /\ order[t] = "NORMAL"
       \/ reserve[t].status = "CANCELED" /\ order[t] \in {"NONE", "CANCELED"}
  /\ reserve[t].status = "NONE" => reserve[t] = NoRow
  /\ reserve[t].status \in {"INIT", "CONFIRMED"} => reserve[t].amount = Count[t]

AnswersAreTrue(t) ==
  /\ <<"try", t>> \in stockAcked => reserve[t].status # "NONE"
  /\ <<"try", t>> \in orderAcked => order[t] # "NONE"
  /\ <<"confirm", t>> \in stockAcked => reserve[t].status = "CONFIRMED"
  /\ <<"confirm", t>> \in orderAcked => order[t] = "NORMAL"
  /\ <<"cancel", t>> \in stockAcked => reserve[t].status = "CANCELED"
  /\ <<"cancel", t>> \in orderAcked => /\ order[t] \in {"NONE", "CANCELED"}
                                      /\ tccStatus[t] \in {"TO_CANCEL", "FINISHED"}

PlaceIsKnown(t) ==
  /\ pc[t] = "insertTcc" => tccStatus[t] = "NONE"
  /\ pc[t] \in {"getItem", "tryOrder", "tryStock", "decide"} => tccStatus[t] = "INIT"
  /\ pc[t] = "confirmStock" => /\ tccStatus[t] = "TO_CONFIRM"
                               /\ reserve[t].status = "INIT" /\ order[t] = "INIT"
  /\ pc[t] = "confirmOrder" => /\ tccStatus[t] = "TO_CONFIRM" /\ order[t] = "INIT"
                               /\ t \notin faulty => <<"confirm", t>> \in stockAcked
  /\ pc[t] = "cancelStock" => /\ tccStatus[t] = "TO_CANCEL"
                              /\ reserve[t].status \in {"NONE", "INIT"}
                              /\ order[t] \in {"NONE", "INIT"}
  /\ pc[t] = "cancelOrder" => /\ tccStatus[t] = "TO_CANCEL" /\ order[t] \in {"NONE", "INIT"}
                              /\ t \notin faulty /\ ItemOf[t] \in Items
                                   => <<"cancel", t>> \in stockAcked
  /\ pc[t] = "finish" => \/ tccStatus[t] = "TO_CONFIRM" /\ BothAnswered("confirm", t)
                         \/ tccStatus[t] = "TO_CANCEL" /\ BothAnswered("cancel", t)
  /\ pc[t] \in {"returned", "abandoned"} =>
       t \in faulty \/ ItemOf[t] \notin Items \/ tccStatus[t] = "FINISHED"

CoordinatorKnows ==
  \A t \in Tcc : RowsFollowStatus(t) /\ AnswersAreTrue(t) /\ PlaceIsKnown(t)

-----------------------------------------------------------------------------
(* The purchases implement AtomicPurchase. *)

StockPart(t) ==
  CASE reserve[t].status = "NONE"      -> "working"
    [] reserve[t].status = "INIT"      -> "prepared"
    [] reserve[t].status = "CONFIRMED" -> "committed"
    [] reserve[t].status = "CANCELED"  -> "aborted"

OrderPart(t) ==
  CASE order[t] = "NONE"     -> "working"
    [] order[t] = "INIT"     -> "prepared"
    [] order[t] = "NORMAL"   -> "committed"
    [] order[t] = "CANCELED" -> "aborted"

Decision(t) ==
  CASE tccStatus[t] \in {"NONE", "INIT"} -> "open"
    [] tccStatus[t] = "TO_CONFIRM" -> "commit"
    [] tccStatus[t] = "TO_CANCEL" -> "abort"
    [] tccStatus[t] = "FINISHED" ->
         IF reserve[t].status = "CONFIRMED" THEN "commit" ELSE "abort"

Decisions == [t \in Tcc |-> Decision(t)]

Parts == [t \in Tcc |-> [p \in {"stock", "order"} |->
            IF p = "stock" THEN StockPart(t) ELSE OrderPart(t)]]

Purchase == INSTANCE AtomicPurchase WITH decision <- Decisions, part <- Parts

(***************************************************************************)
(* placeOrder and its services do what AtomicPurchase promises: the        *)
(* decision is the coordinator's row, the parts are the two participants'. *)
(***************************************************************************)
ImplementsPurchase == Purchase!PurchaseSpec
=============================================================================
