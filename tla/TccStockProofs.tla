--------------------------- MODULE TccStockProofs ---------------------------
(***************************************************************************)
(* Proofs about TccStock, the contract of ItemStockService, for any number *)
(* of transactions and items.  Whatever implements the contract, or calls  *)
(* such a service, inherits them: see TccStockTxProofs and TccProofs.      *)
(***************************************************************************)
EXTENDS TccStock, FiniteSetTheorems, TLAPS

StockInv ==
  /\ StockTypeOK
  /\ NoOversell
  /\ \A i \in Items : IsFiniteSet(HeldOf(i))
  /\ Conservation

LEMMA InitStockInv == StockInit => StockInv
<1> SUFFICES ASSUME StockInit PROVE StockInv
  OBVIOUS
<1> USE DEF StockInit, NoRow, Row
<1>1. StockTypeOK
  BY InitStockAssumption DEF StockTypeOK, RowType
<1>2. NoOversell
  BY InitStockAssumption DEF NoOversell
<1>3. \A i \in Items : HeldOf(i) = {}
  <2>1. \A t \in Tcc : Held(t) = 0
    BY DEF Held
  <2> QED
    BY <2>1 DEF HeldOf, Units
<1>4. /\ \A i \in Items : IsFiniteSet(HeldOf(i))
      /\ \A i \in Items : Cardinality(HeldOf(i)) = 0
  BY <1>3, FS_EmptySet
<1>5. Conservation
  BY <1>4, InitStockAssumption DEF Conservation
<1> QED
  BY <1>1, <1>2, <1>4, <1>5 DEF StockInv

(* A call keeps the columns of their types. *)
LEMMA StockCallTypeOK ==
  ASSUME StockTypeOK, NEW t \in Tcc, NEW reply \in Reply,
         TryReserveStock(t, reply) \/ ConfirmReserveStock(t, reply) \/ CancelReserveStock(t, reply)
  PROVE  StockTypeOK'
<1> USE DEF StockTypeOK, SetRow, AddStock, RowType, ReserveStatus
<1>1. stockAcked' \in SUBSET (Op \X Tcc)
  BY DEF TryReserveStock, ConfirmReserveStock, CancelReserveStock, Answered, Op
<1>2. CASE NoEffect
  BY <1>1, <1>2 DEF NoEffect
<1>3. CASE TryTakesEffect(t)
  <2>c. Count[t] >= 0
    BY <1>3 DEF TryTakesEffect
  <2>d. Count[t] \in Int
    BY CountAssumption
  <2>a. Count[t] \in Nat /\ -Count[t] \in Int
    BY <2>c, <2>d
  <2>b. ItemOf[t] \in Items
    BY <1>3 DEF TryTakesEffect, EnoughStock
  <2>1. Row(Count[t], "INIT") \in RowType /\ -Count[t] \in Int /\ ItemOf[t] \in Items
    BY <2>a, <2>b DEF Row
  <2>2. reserve' \in [Tcc -> RowType]
    BY <1>3, <2>1 DEF TryTakesEffect
  <2>3. stock' \in [Items -> Int]
    BY <1>3, <2>1 DEF TryTakesEffect
  <2> QED
    BY <1>1, <2>2, <2>3
<1>4. CASE ConfirmTakesEffect(t)
  BY <1>1, <1>4 DEF ConfirmTakesEffect, Row
<1>5. CASE CancelTakesEffect(t)
  BY <1>1, <1>5 DEF CancelTakesEffect, Row
<1> QED
  BY <1>2, <1>3, <1>4, <1>5 DEF TryReserveStock, ConfirmReserveStock, CancelReserveStock

-----------------------------------------------------------------------------
(* A call moves what the reservation of t gains or loses out of the stock *)
(* of its item or back, and leaves every other reservation alone.         *)
MovesUnits(t) ==
  /\ ItemOf[t] \in Items
  /\ \A u \in Tcc : u # t => Held(u)' = Held(u)
  /\ \A i \in Items : i # ItemOf[t] => stock'[i] = stock[i]
  /\ stock'[ItemOf[t]] + Held(t)' = stock[ItemOf[t]] + Held(t)
  /\ stock'[ItemOf[t]] >= 0

NothingMoves ==
  /\ \A t \in Tcc : Held(t)' = Held(t)
  /\ \A i \in Items : stock'[i] = stock[i]

LEMMA HeldType ==
  ASSUME StockTypeOK, NEW t \in Tcc
  PROVE  Held(t) \in Nat
BY DEF StockTypeOK, RowType, Held

(* The row of t is set and the stock of its item takes the difference. *)
LEMMA RowMoves ==
  ASSUME StockTypeOK, NEW t \in Tcc, NEW n \in Int, NEW row, SetRow(t, row), AddStock(t, n),
         ItemOf[t] \in Items, stock[ItemOf[t]] + n >= 0,
         n + (IF row.status \in {"INIT", "CONFIRMED"} THEN row.amount ELSE 0) = Held(t),
         row.amount \in Nat
  PROVE  MovesUnits(t)
<1>1. reserve'[t] = row /\ \A u \in Tcc : u # t => reserve'[u] = reserve[u]
  BY DEF StockTypeOK, SetRow
<1>2. /\ stock'[ItemOf[t]] = stock[ItemOf[t]] + n /\ stock[ItemOf[t]] \in Int
      /\ \A i \in Items : i # ItemOf[t] => stock'[i] = stock[i]
  BY DEF StockTypeOK, AddStock
<1>3. Held(t)' = IF row.status \in {"INIT", "CONFIRMED"} THEN row.amount ELSE 0
  BY <1>1 DEF Held
<1>4. \A u \in Tcc : u # t => Held(u)' = Held(u)
  BY <1>1 DEF Held
<1>5. Held(t) \in Nat /\ Held(t)' \in Nat
  BY <1>3, HeldType
<1>6. stock'[ItemOf[t]] + Held(t)' = stock[ItemOf[t]] + Held(t)
  BY <1>2, <1>3, <1>5
<1> QED
  BY <1>2, <1>4, <1>6 DEF MovesUnits

LEMMA TryMoves ==
  ASSUME StockTypeOK, NEW t \in Tcc, TryTakesEffect(t)
  PROVE  MovesUnits(t)
<1>1. Count[t] \in Nat /\ -Count[t] \in Int
  BY CountAssumption DEF TryTakesEffect
<1>2. Row(Count[t], "INIT").status = "INIT" /\ Row(Count[t], "INIT").amount = Count[t]
  BY DEF Row
<1>3. Held(t) = 0
  BY DEF TryTakesEffect, Held, NoRow, Row
<1>4. ItemOf[t] \in Items /\ stock[ItemOf[t]] + (-Count[t]) >= 0
  BY <1>1 DEF TryTakesEffect, EnoughStock, StockTypeOK
<1>5. SetRow(t, Row(Count[t], "INIT")) /\ AddStock(t, -Count[t])
  BY DEF TryTakesEffect
<1> QED
  BY <1>1, <1>2, <1>3, <1>4, <1>5, RowMoves

LEMMA ConfirmMoves ==
  ASSUME StockTypeOK, NEW t \in Tcc, ConfirmTakesEffect(t)
  PROVE  NothingMoves
<1>1. /\ reserve[t].status = "INIT" /\ stock' = stock
      /\ reserve'[t] = Row(reserve[t].amount, "CONFIRMED")
      /\ \A u \in Tcc : u # t => reserve'[u] = reserve[u]
  BY DEF ConfirmTakesEffect, SetRow, StockTypeOK
<1>2. Held(t)' = Held(t)
  BY <1>1 DEF Held, Row
<1> QED
  BY <1>1, <1>2 DEF NothingMoves, Held

LEMMA CancelMoves ==
  ASSUME StockTypeOK, NoOversell, NEW t \in Tcc, CancelTakesEffect(t)
  PROVE  MovesUnits(t) \/ NothingMoves
<1>1. reserve[t].amount \in Nat /\ ItemOf[t] \in Items /\ reserve \in [Tcc -> RowType]
  BY DEF StockTypeOK, RowType, CancelTakesEffect
<1>2. \A n : Row(n, "CANCELED").status = "CANCELED" /\ Row(n, "CANCELED").amount = n
  BY DEF Row
<1>3. CASE /\ reserve[t].status = "INIT" /\ SetRow(t, Row(reserve[t].amount, "CANCELED"))
           /\ AddStock(t, reserve[t].amount)
  <2>1. Held(t) = reserve[t].amount
    BY <1>3 DEF Held
  <2>2. stock[ItemOf[t]] + reserve[t].amount >= 0
    BY <1>1 DEF NoOversell, StockTypeOK
  <2>3. Row(reserve[t].amount, "CANCELED").status \notin {"INIT", "CONFIRMED"}
    BY <1>2
  <2>4. reserve[t].amount + 0 = Held(t)
    BY <1>1, <2>1
  <2> QED
    BY <1>1, <1>2, <1>3, <2>2, <2>3, <2>4, RowMoves
<1>4. CASE reserve[t] = NoRow /\ SetRow(t, Row(0, "CANCELED")) /\ stock' = stock
  <2>1. /\ reserve'[t].status = "CANCELED" /\ reserve[t].status = "NONE"
        /\ \A u \in Tcc : u # t => reserve'[u] = reserve[u]
    BY <1>1, <1>2, <1>4 DEF SetRow, NoRow, Row
  <2> QED
    BY <1>4, <2>1 DEF NothingMoves, Held
<1> QED
  BY <1>3, <1>4 DEF CancelTakesEffect

LEMMA CallMovesStock ==
  ASSUME StockTypeOK, NoOversell, [StockNext]_stockVars
  PROVE  NothingMoves \/ \E t \in Tcc : MovesUnits(t)
<1>1. CASE NoEffect
  BY <1>1 DEF NoEffect, NothingMoves, Held
<1>2. CASE UNCHANGED stockVars
  BY <1>2 DEF stockVars, NothingMoves, Held
<1> QED
  BY <1>1, <1>2, TryMoves, ConfirmMoves, CancelMoves
     DEF StockNext, TryReserveStock, ConfirmReserveStock, CancelReserveStock

-----------------------------------------------------------------------------
(* Counting units. *)

LEMMA UnitsCount ==
  ASSUME NEW t, NEW n \in Nat
  PROVE  IsFiniteSet({t} \X (1 .. n)) /\ Cardinality({t} \X (1 .. n)) = n
<1>1. IsFiniteSet({t}) /\ Cardinality({t}) = 1
  BY FS_Singleton
<1>2. IsFiniteSet(1 .. n) /\ Cardinality(1 .. n) = n
  BY FS_Interval
<1>3. /\ IsFiniteSet({t} \X (1 .. n))
      /\ Cardinality({t} \X (1 .. n)) = Cardinality({t}) * Cardinality(1 .. n)
  BY <1>1, <1>2, FS_Product
<1>4. 1 * n = n
  OBVIOUS
<1> QED
  BY <1>1, <1>2, <1>3, <1>4

(* What an item holds is what t holds of it, and the rest. *)
LEMMA HeldSplit ==
  ASSUME StockTypeOK, NEW t \in Tcc, NEW Rest,
         IsFiniteSet(Rest), HeldOf(ItemOf[t]) = Rest \cup Units(t), Rest \cap Units(t) = {}
  PROVE  /\ IsFiniteSet(HeldOf(ItemOf[t])) /\ Cardinality(Rest) \in Nat
         /\ Cardinality(HeldOf(ItemOf[t])) = Cardinality(Rest) + Held(t)
<1>1. Held(t) \in Nat
  BY HeldType
<1>2. IsFiniteSet(Units(t)) /\ Cardinality(Units(t)) = Held(t)
  BY <1>1, UnitsCount DEF Units
<1>3. /\ IsFiniteSet(Rest \cup Units(t))
      /\ Cardinality(Rest \cup Units(t)) = Cardinality(Rest) + Cardinality(Units(t)) - Cardinality({})
  BY <1>2, FS_Union
<1>4. Cardinality({}) = 0 /\ Cardinality(Rest) \in Nat
  BY FS_EmptySet, FS_CardinalityType
<1> QED
  BY <1>1, <1>2, <1>3, <1>4

LEMMA MovesConserve ==
  ASSUME StockInv, StockTypeOK', NEW t \in Tcc, MovesUnits(t)
  PROVE  StockInv'
<1>1. /\ stock \in [Items -> Int] /\ stock' \in [Items -> Int] /\ StockTypeOK
      /\ Held(t) \in Nat /\ Held(t)' \in Nat
  BY HeldType DEF StockInv, StockTypeOK, RowType, Held
<1>2. NoOversell'
  BY DEF StockInv, NoOversell, MovesUnits
<1>3. ASSUME NEW i \in Items, i # ItemOf[t] PROVE HeldOf(i)' = HeldOf(i) /\ stock'[i] = stock[i]
  BY <1>3 DEF HeldOf, Units, MovesUnits
<1>4. PICK i \in Items : i = ItemOf[t]
  BY DEF MovesUnits
<1>5. PICK Rest : Rest = HeldOf(i) \ Units(t)
  OBVIOUS
<1>6. Rest = UNION {Units(u) : u \in {u \in Tcc : ItemOf[u] = i /\ u # t}}
  BY <1>4, <1>5 DEF HeldOf, Units
<1>7. HeldOf(i) = Rest \cup Units(t) /\ Rest \cap Units(t) = {}
  BY <1>4, <1>5 DEF HeldOf
<1>8. HeldOf(i)' = Rest \cup Units(t)' /\ Rest \cap Units(t)' = {}
  BY <1>4, <1>6 DEF HeldOf, Units, MovesUnits
<1>9. IsFiniteSet(Rest)
  BY <1>5, FS_Difference DEF StockInv
<1>10. Cardinality(HeldOf(i)) = Cardinality(Rest) + Held(t) /\ Cardinality(Rest) \in Nat
  BY <1>1, <1>4, <1>7, <1>9, HeldSplit
<1>11. /\ IsFiniteSet(HeldOf(i)')
       /\ Cardinality(HeldOf(i)') = Cardinality(Rest) + Held(t)'
  <2>1. IsFiniteSet(Units(t)') /\ Cardinality(Units(t)') = Held(t)'
    BY <1>1, UnitsCount DEF Units
  <2>2. /\ IsFiniteSet(Rest \cup Units(t)')
        /\ Cardinality(Rest \cup Units(t)')
             = Cardinality(Rest) + Cardinality(Units(t)') - Cardinality({})
    BY <1>8, <1>9, <2>1, FS_Union
  <2>3. Cardinality({}) = 0
    BY FS_EmptySet
  <2> QED
    BY <1>1, <1>8, <1>10, <2>1, <2>2, <2>3
<1>12. stock[i] + Cardinality(HeldOf(i)) = InitStock[i] /\ stock[i] \in Int /\ stock'[i] \in Int
  BY <1>1 DEF StockInv, Conservation
<1>13. stock'[i] + Held(t)' = stock[i] + Held(t)
  BY <1>4 DEF MovesUnits
<1>14. stock'[i] + Cardinality(HeldOf(i)') = InitStock[i]
  BY <1>1, <1>10, <1>11, <1>12, <1>13
<1> QED
  BY <1>2, <1>3, <1>4, <1>11, <1>14 DEF StockInv, Conservation

LEMMA NextStockInv == StockInv /\ [StockNext]_stockVars => StockInv'
<1> SUFFICES ASSUME StockInv, [StockNext]_stockVars PROVE StockInv'
  OBVIOUS
<1>1. StockTypeOK'
  BY StockCallTypeOK DEF StockInv, StockNext, stockVars, StockTypeOK
<1>2. CASE NothingMoves
  <2>1. \A i \in Items : HeldOf(i)' = HeldOf(i) /\ stock'[i] = stock[i]
    BY <1>2 DEF NothingMoves, HeldOf, Units
  <2> QED
    BY <1>1, <2>1 DEF StockInv, NoOversell, Conservation
<1> QED
  BY <1>1, <1>2, CallMovesStock, MovesConserve DEF StockInv

LEMMA StockSpecInv == StockSpec => []StockInv
BY InitStockInv, NextStockInv, PTL DEF StockSpec

(***************************************************************************)
(* Of the calls of ItemStockService, in any order and any number of times, *)
(* none makes or loses an item: the stock of an item and what its open and *)
(* confirmed reservations hold add up to the initial stock for ever, and   *)
(* the stock is never negative.                                            *)
(***************************************************************************)
THEOREM StockConserved == StockSpec => [](Conservation /\ NoOversell)
<1>1. StockInv => Conservation /\ NoOversell
  BY DEF StockInv
<1> QED
  BY <1>1, StockSpecInv, PTL
=============================================================================
