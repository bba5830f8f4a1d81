----------------------------- MODULE SagaStore ------------------------------
(***************************************************************************)
(* The two databases of the saga demo and the calls of its services on     *)
(* them: OrderService, ItemStockService, SagaService, SagaLogService.      *)
(* Every call but deductStock is one atomic transaction here; deductStock  *)
(* puts an event in the middle of its transaction, so that Saga takes it   *)
(* apart and uses only its parts from here.                                *)
(***************************************************************************)
EXTENDS Integers, Sequences

CONSTANTS Sagas,      \* purchases; each one becomes one row of saga_table
          Items,      \* ids of the rows of item_table
          ItemOf,     \* the item each purchase asks for (may be missing)
          Count,      \* how many of them (a signed Long)
          InitStock   \* stock of each item at the start

ASSUME SagaStoreAssumption ==
  Count \in [Sagas -> Int] /\ InitStock \in [Items -> Nat]

VARIABLES stock,      \* item_table.stock, committed
          reserve,    \* item_reserve_stock_table by saga_id, committed
          order,      \* order_table.order_status by saga_id, "NONE" for no row
          sagaStatus, \* saga_table.saga_status, "NONE" for no row
          log         \* saga_log_table.event_status by saga_id and event

itemVars == <<stock, reserve>>
dbVars == <<stock, reserve, order, sagaStatus, log>>

Steps == {"CREATE_ORDER", "DEDUCT_STOCK"}

Row(amount, status) == [amount |-> amount, status |-> status]
NoRow == Row(0, "NONE")

StoreTypeOK ==
  /\ stock \in [Items -> Nat]
  /\ reserve \in [Sagas -> [amount : Nat, status : {"NONE", "NORMAL", "CANCELED"}]]
  /\ order \in [Sagas -> {"NONE", "NORMAL", "CANCELED"}]
  /\ sagaStatus \in [Sagas -> {"NONE", "INIT", "FINISHED", "CANCELED"}]
  /\ log \in [Sagas -> [Steps -> {"NONE", "INIT", "SUCCEED", "CANCELED"}]]

StoreInit ==
  /\ stock = InitStock
  /\ reserve = [s \in Sagas |-> NoRow]
  /\ order = [s \in Sagas |-> "NONE"]
  /\ sagaStatus = [s \in Sagas |-> "NONE"]
  /\ log = [s \in Sagas |-> [e \in Steps |-> "NONE"]]

(***************************************************************************)
(* How a call ends: true; false (or null, or 0) after a rollback; or an    *)
(* SQLException of getConnection(), rollback() or close(), which leaves    *)
(* the method whether or not the transaction was committed.                *)
(***************************************************************************)
Reply == {"true", "false", "exn"}

-----------------------------------------------------------------------------
(* SagaService *)

InsertSaga(s, reply) ==
  \/ /\ reply \in {"true", "exn"} /\ sagaStatus[s] = "NONE"
     /\ sagaStatus' = [sagaStatus EXCEPT ![s] = "INIT"]
  \/ reply \in {"false", "exn"} /\ UNCHANGED sagaStatus

UpdateSagaStatus(s, status, reply) ==
  \/ /\ reply \in {"true", "exn"} /\ sagaStatus[s] = "INIT"
     /\ sagaStatus' = [sagaStatus EXCEPT ![s] = status]
  \/ reply \in {"false", "exn"} /\ UNCHANGED sagaStatus

(* Rows that refer to a saga cannot be stored without its id. *)
HasId(s) == sagaStatus[s] # "NONE"

-----------------------------------------------------------------------------
(* SagaLogService *)

InsertSagaLog(s, event, reply) ==
  \/ /\ reply \in {"true", "exn"} /\ HasId(s) /\ log[s][event] = "NONE"
     /\ log' = [log EXCEPT ![s][event] = "INIT"]
  \/ reply \in {"false", "exn"} /\ UNCHANGED log

UpdateSagaLogEventStatus(s, event, status, reply) ==
  \/ /\ reply \in {"true", "exn"} /\ log[s][event] # "NONE"
     /\ log' = [log EXCEPT ![s][event] = status]
  \/ reply \in {"false", "exn"} /\ UNCHANGED log

Logged(s, event) == log[s][event] \notin {"NONE", "CANCELED"}

(* Mutant: Collections.reverse is missing. *)
ToCompensateForward(s) ==
  (IF Logged(s, "CREATE_ORDER") THEN <<"CREATE_ORDER">> ELSE <<>>)
    \o (IF Logged(s, "DEDUCT_STOCK") THEN <<"DEDUCT_STOCK">> ELSE <<>>)

(* What processCancel has to compensate, the latest step first. *)
ToCompensate(s) ==
  (IF Logged(s, "DEDUCT_STOCK") THEN <<"DEDUCT_STOCK">> ELSE <<>>)
    \o (IF Logged(s, "CREATE_ORDER") THEN <<"CREATE_ORDER">> ELSE <<>>)

-----------------------------------------------------------------------------
(* OrderService *)

(* item_count is BIGINT UNSIGNED: a negative count fails to insert. *)
InsertOrder(s) ==
  /\ HasId(s) /\ Count[s] >= 0 /\ order[s] = "NONE"
  /\ order' = [order EXCEPT ![s] = "NORMAL"]

OrderToCanceled(s) ==
  order[s] = "NORMAL" /\ order' = [order EXCEPT ![s] = "CANCELED"]

(***************************************************************************)
(* With no order the code inserts a canceled one and returns true before   *)
(* any commit(): close() rolls the insert back.                            *)
(***************************************************************************)
CancelOrder(s, reply) ==
  \/ reply \in {"true", "exn"} /\ OrderToCanceled(s)
  \/ reply = "true" /\ order[s] = "NONE" /\ UNCHANGED order
  \/ reply \in {"false", "exn"} /\ UNCHANGED order

-----------------------------------------------------------------------------
(* ItemStockService *)

(* deductStock goes as far as its event: there is enough, no row yet. *)
Deductible(s) ==
  /\ HasId(s) /\ Count[s] >= 0
  /\ ItemOf[s] \in Items /\ stock[ItemOf[s]] >= Count[s]
  /\ reserve[s] = NoRow

DeductCommitted(s) ==
  /\ reserve' = [reserve EXCEPT ![s] = Row(Count[s], "NORMAL")]
  /\ stock' = [stock EXCEPT ![ItemOf[s]] = @ - Count[s]]

(* Mutant: the count of the purchase is given back, reserved or not. *)
GiveBackUnreserved(s) ==
  /\ ItemOf[s] \in Items /\ reserve[s].status # "CANCELED"
  /\ reserve' = [reserve EXCEPT ![s] = Row(reserve[s].amount, "CANCELED")]
  /\ stock' = [stock EXCEPT ![ItemOf[s]] = @ + Count[s]]

(* A row that is missing ("cancel reaches before try") counts nothing. *)
GiveBack(s) ==
  /\ ItemOf[s] \in Items /\ reserve[s].status # "CANCELED"
  /\ reserve' = [reserve EXCEPT ![s] = Row(reserve[s].amount, "CANCELED")]
  /\ stock' = [stock EXCEPT ![ItemOf[s]] = @ + reserve[s].amount]

CancelDeductStock(s, reply) ==
  \/ reply \in {"true", "exn"} /\ GiveBack(s)
  \/ reply = "true" /\ reserve[s].status = "CANCELED" /\ UNCHANGED itemVars
  \/ reply \in {"false", "exn"} /\ UNCHANGED itemVars
=============================================================================
