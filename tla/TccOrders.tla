----------------------------- MODULE TccOrders ------------------------------
(***************************************************************************)
(* com.clpsz.service.OrderService of the TCC demo: the order database and  *)
(* the three calls of the TCC protocol on it, each one atomic (one         *)
(* transaction that locks one row of order_table by its unique tcc_id),    *)
(* called in any order and any number of times for any transaction.        *)
(***************************************************************************)
EXTENDS TccCalls

VARIABLES order,      \* order_table.order_status by tcc_id, "NONE" for no row
          orderAcked  \* <<op, t>>: the calls that have returned true

orderVars == <<order, orderAcked>>

OrderStatus == {"INIT", "NORMAL", "CANCELED"}

OrderTypeOK ==
  /\ order \in [Tcc -> OrderStatus \cup {"NONE"}]
  /\ orderAcked \in SUBSET (Op \X Tcc)

OrderInit ==
  /\ order = [t \in Tcc |-> "NONE"]
  /\ orderAcked = {}

SetOrder(t, from, to) == order[t] = from /\ order' = [order EXCEPT ![t] = to]

(* item_count is BIGINT UNSIGNED: a negative count fails to insert. *)
OrderTryTakesEffect(t) == Count[t] >= 0 /\ SetOrder(t, "NONE", "INIT")

TryCreateOrder(t, reply) ==
  /\ \/ reply \in {"true", "exn"} /\ OrderTryTakesEffect(t)
     \/ reply = "true" /\ order[t] # "NONE" /\ UNCHANGED order
     \/ reply \in {"false", "exn"} /\ UNCHANGED order
  /\ orderAcked' = Answered(orderAcked, "try", t, reply)

ConfirmCreateOrder(t, reply) ==
  /\ \/ reply \in {"true", "exn"} /\ SetOrder(t, "INIT", "NORMAL")
     \/ reply \in {"false", "exn"} /\ UNCHANGED order
  /\ orderAcked' = Answered(orderAcked, "confirm", t, reply)

(***************************************************************************)
(* With no order the code inserts a canceled one and returns true before   *)
(* any commit(): close() rolls the insert back.                            *)
(***************************************************************************)
CancelCreateOrder(t, reply) ==
  /\ \/ reply \in {"true", "exn"} /\ SetOrder(t, "INIT", "CANCELED")
     \/ reply = "true" /\ order[t] = "NONE" /\ UNCHANGED order
     \/ reply \in {"false", "exn"} /\ UNCHANGED order
  /\ orderAcked' = Answered(orderAcked, "cancel", t, reply)

OrderNext == \E t \in Tcc, reply \in Reply :
               \/ TryCreateOrder(t, reply)
               \/ ConfirmCreateOrder(t, reply)
               \/ CancelCreateOrder(t, reply)

OrderSpec == OrderInit /\ [][OrderNext]_orderVars

-----------------------------------------------------------------------------
(***************************************************************************)
(* "cancel reaches before try" (ItemStockService.java:117): a cancel that  *)
(* overtakes its try leaves a canceled row, so that the try that follows   *)
(* opens nothing.  Violated: the row of OrderService.java:86 is never      *)
(* committed.                                                              *)
(***************************************************************************)
CancelBeforeTryIsRemembered ==
  \A t \in Tcc : <<"cancel", t>> \in orderAcked => order[t] = "CANCELED"
=============================================================================
