------------------------------ MODULE TccStock ------------------------------
(***************************************************************************)
(* What com.clpsz.service.ItemStockService promises its callers: the       *)
(* three calls of the TCC protocol on the stock database, each one atomic, *)
(* called in any order and any number of times for any transaction.        *)
(* TccStockTx refines it statement by statement; Tcc composes it with the  *)
(* order service and the coordinator.                                      *)
(***************************************************************************)
EXTENDS TccCalls, FiniteSets

CONSTANTS Items,      \* ids of the rows of item_table
          ItemOf,     \* the item each transaction asks for (may be missing)
          InitStock   \* stock of each item at the start

ASSUME InitStockAssumption == InitStock \in [Items -> Nat]

VARIABLES stock,      \* item_table.stock, committed
          reserve,    \* item_reserve_stock_table by tcc_id, committed
          stockAcked  \* <<op, t>>: the calls that have returned true

stockVars == <<stock, reserve, stockAcked>>

ReserveStatus == {"INIT", "CONFIRMED", "CANCELED"}

Row(amount, status) == [amount |-> amount, status |-> status]
NoRow == Row(0, "NONE")

RowType == [amount : Nat, status : ReserveStatus \cup {"NONE"}]

StockTypeOK ==
  /\ stock \in [Items -> Int]
  /\ reserve \in [Tcc -> RowType]
  /\ stockAcked \in SUBSET (Op \X Tcc)

StockInit ==
  /\ stock = InitStock
  /\ reserve = [t \in Tcc |-> NoRow]
  /\ stockAcked = {}

-----------------------------------------------------------------------------
SetRow(t, row) == reserve' = [reserve EXCEPT ![t] = row]
AddStock(t, n) == stock' = [stock EXCEPT ![ItemOf[t]] = @ + n]

EnoughStock(t) == ItemOf[t] \in Items /\ stock[ItemOf[t]] >= Count[t]

(* Mutant: the check of the remaining stock is missing. *)
TryTakesEffectUnchecked(t) ==
  /\ ItemOf[t] \in Items /\ reserve[t] = NoRow /\ Count[t] >= 0
  /\ SetRow(t, Row(Count[t], "INIT"))
  /\ AddStock(t, -Count[t])

(* The columns are BIGINT UNSIGNED: a negative count fails to insert. *)
TryTakesEffect(t) ==
  /\ EnoughStock(t) /\ reserve[t] = NoRow /\ Count[t] >= 0
  /\ SetRow(t, Row(Count[t], "INIT"))
  /\ AddStock(t, -Count[t])

TryDoneBefore(t) == EnoughStock(t) /\ reserve[t] # NoRow

ConfirmTakesEffect(t) ==
  /\ reserve[t].status = "INIT"
  /\ SetRow(t, Row(reserve[t].amount, "CONFIRMED"))
  /\ UNCHANGED stock

ConfirmDoneBefore(t) == reserve[t].status = "CONFIRMED"

(* Mutant: the case "cancel reaches before try" is missing. *)
CancelTakesEffectAfterTry(t) ==
  /\ ItemOf[t] \in Items /\ reserve[t].status = "INIT"
  /\ SetRow(t, Row(reserve[t].amount, "CANCELED"))
  /\ AddStock(t, reserve[t].amount)

CancelTakesEffect(t) ==
  /\ ItemOf[t] \in Items
  /\ \/ /\ reserve[t].status = "INIT"
        /\ SetRow(t, Row(reserve[t].amount, "CANCELED"))
        /\ AddStock(t, reserve[t].amount)
     \/ /\ reserve[t] = NoRow               \* cancel reaches before try
        /\ SetRow(t, Row(0, "CANCELED"))
        /\ UNCHANGED stock

CancelDoneBefore(t) == ItemOf[t] \in Items /\ reserve[t].status = "CANCELED"

NoEffect == UNCHANGED <<stock, reserve>>

TryReserveStock(t, reply) ==
  /\ \/ reply \in {"true", "exn"} /\ TryTakesEffect(t)
     \/ reply = "true" /\ TryDoneBefore(t) /\ NoEffect
     \/ reply \in {"false", "exn"} /\ NoEffect
  /\ stockAcked' = Answered(stockAcked, "try", t, reply)

ConfirmReserveStock(t, reply) ==
  /\ \/ reply \in {"true", "exn"} /\ ConfirmTakesEffect(t)
     \/ reply = "true" /\ ConfirmDoneBefore(t) /\ NoEffect
     \/ reply \in {"false", "exn"} /\ NoEffect
  /\ stockAcked' = Answered(stockAcked, "confirm", t, reply)

CancelReserveStock(t, reply) ==
  /\ \/ reply \in {"true", "exn"} /\ CancelTakesEffect(t)
     \/ reply = "true" /\ CancelDoneBefore(t) /\ NoEffect
     \/ reply \in {"false", "exn"} /\ NoEffect
  /\ stockAcked' = Answered(stockAcked, "cancel", t, reply)

StockNext == \E t \in Tcc, reply \in Reply :
               \/ TryReserveStock(t, reply)
               \/ ConfirmReserveStock(t, reply)
               \/ CancelReserveStock(t, reply)

StockSpec == StockInit /\ [][StockNext]_stockVars

-----------------------------------------------------------------------------
(* Correctness. *)

(* What transaction t holds of the stock of its item. *)
Held(t) == IF reserve[t].status \in {"INIT", "CONFIRMED"} THEN reserve[t].amount ELSE 0

(* Unit by unit: <<t, n>> is the n-th of those t holds. *)
Units(t) == {t} \X (1 .. Held(t))

HeldOf(i) == UNION {Units(t) : t \in {t \in Tcc : ItemOf[t] = i}}

(***************************************************************************)
(* Items are neither made nor lost: the stock left and what the open and   *)
(* the confirmed reservations hold add up to the stock at the start, and   *)
(* no reservation takes more than was left.                                *)
(***************************************************************************)
Conservation == \A i \in Items : stock[i] + Cardinality(HeldOf(i)) = InitStock[i]

(* No item is sold that is not there. *)
NoOversell == \A i \in Items : stock[i] >= 0
=============================================================================
