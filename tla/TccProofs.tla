------------------------------ MODULE TccProofs -----------------------------
(***************************************************************************)
(* Proofs about Tcc, for any number of purchases and items.                *)
(***************************************************************************)
EXTENDS Tcc, TccStockProofs

IInv == TypeOK /\ CoordinatorKnows

LEMMA InitIInv == Init => IInv
<1> SUFFICES ASSUME Init PROVE IInv
  OBVIOUS
<1> USE DEF Init, StockInit, OrderInit, NoRow, Row
<1>1. TypeOK
  BY InitStockAssumption DEF TypeOK, StockTypeOK, OrderTypeOK, RowType, Location
<1>2. CoordinatorKnows
  BY DEF CoordinatorKnows, RowsFollowStatus, AnswersAreTrue, PlaceIsKnown
<1> QED
  BY <1>1, <1>2 DEF IInv

-----------------------------------------------------------------------------
(* A call of a service for t keeps the types of its database ... *)
LEMMA OrderCallTypeOK ==
  ASSUME OrderTypeOK, NEW t \in Tcc, NEW reply \in Reply,
         TryCreateOrder(t, reply) \/ ConfirmCreateOrder(t, reply) \/ CancelCreateOrder(t, reply)
  PROVE  OrderTypeOK'
BY DEF OrderTypeOK, OrderStatus, TryCreateOrder, ConfirmCreateOrder, CancelCreateOrder,
       OrderTryTakesEffect, SetOrder, Answered, Op

(* ... and touches no other transaction. *)
SameFor(u) ==
  /\ reserve'[u] = reserve[u] /\ order'[u] = order[u]
  /\ tccStatus'[u] = tccStatus[u] /\ pc'[u] = pc[u]
  /\ u \in faulty' <=> u \in faulty
  /\ \A op \in Op : /\ <<op, u>> \in stockAcked' <=> <<op, u>> \in stockAcked
                    /\ <<op, u>> \in orderAcked' <=> <<op, u>> \in orderAcked

LEMMA StockCallSame ==
  ASSUME StockTypeOK, NEW t \in Tcc, NEW reply \in Reply, NEW u \in Tcc, u # t,
         TryReserveStock(t, reply) \/ ConfirmReserveStock(t, reply) \/ CancelReserveStock(t, reply)
  PROVE  /\ reserve'[u] = reserve[u]
         /\ \A op \in Op : <<op, u>> \in stockAcked' <=> <<op, u>> \in stockAcked
<1>1. reserve'[u] = reserve[u]
  BY DEF StockTypeOK, TryReserveStock, ConfirmReserveStock, CancelReserveStock, NoEffect,
         TryTakesEffect, ConfirmTakesEffect, CancelTakesEffect, SetRow
<1>2. \A op \in Op : <<op, u>> \in stockAcked' <=> <<op, u>> \in stockAcked
  BY DEF TryReserveStock, ConfirmReserveStock, CancelReserveStock, Answered
<1> QED
  BY <1>1, <1>2

LEMMA OrderCallSame ==
  ASSUME OrderTypeOK, NEW t \in Tcc, NEW reply \in Reply, NEW u \in Tcc, u # t,
         TryCreateOrder(t, reply) \/ ConfirmCreateOrder(t, reply) \/ CancelCreateOrder(t, reply)
  PROVE  /\ order'[u] = order[u]
         /\ \A op \in Op : <<op, u>> \in orderAcked' <=> <<op, u>> \in orderAcked
<1>1. order'[u] = order[u]
  BY DEF OrderTypeOK, TryCreateOrder, ConfirmCreateOrder, CancelCreateOrder,
         OrderTryTakesEffect, SetOrder
<1>2. \A op \in Op : <<op, u>> \in orderAcked' <=> <<op, u>> \in orderAcked
  BY DEF TryCreateOrder, ConfirmCreateOrder, CancelCreateOrder, Answered
<1> QED
  BY <1>1, <1>2

LEMMA SameForKnows ==
  ASSUME NEW u \in Tcc, SameFor(u), RowsFollowStatus(u), AnswersAreTrue(u), PlaceIsKnown(u)
  PROVE  RowsFollowStatus(u)' /\ AnswersAreTrue(u)' /\ PlaceIsKnown(u)'
<1> USE DEF SameFor
<1>1. RowsFollowStatus(u)'
  BY DEF RowsFollowStatus
<1>2. AnswersAreTrue(u)'
  BY DEF AnswersAreTrue, Op
<1>3. PlaceIsKnown(u)'
  BY DEF PlaceIsKnown, BothAnswered, Op
<1> QED
  BY <1>1, <1>2, <1>3

LEMMA InsertTccIInv ==
  ASSUME IInv, NEW t \in Tcc, NEW reply \in Reply, InsertTcc(t, reply)
  PROVE  IInv'
<1> USE DEF IInv, TypeOK
<1>k. RowsFollowStatus(t) /\ AnswersAreTrue(t) /\ PlaceIsKnown(t)
  BY DEF CoordinatorKnows
<1>1. StockTypeOK' /\ OrderTypeOK'
  BY DEF InsertTcc, stockVars, orderVars, StockTypeOK, OrderTypeOK
<1>2. TypeOK'
  BY <1>1 DEF InsertTcc, SetTccStatus, TccStatus, Location, Goto, Blame
<1>3. ASSUME NEW u \in Tcc, u # t PROVE SameFor(u)
  BY <1>3 DEF SetTccStatus, InsertTcc, Goto, Blame, SameFor, stockVars, orderVars
<1>4. RowsFollowStatus(t)'
  BY <1>k DEF RowsFollowStatus, AnswersAreTrue, PlaceIsKnown, InsertTcc, StockTypeOK, OrderTypeOK, RowType, stockVars, orderVars, SetTccStatus
<1>5. AnswersAreTrue(t)'
  BY <1>k DEF RowsFollowStatus, AnswersAreTrue, PlaceIsKnown, InsertTcc, StockTypeOK, OrderTypeOK, RowType, stockVars, orderVars, SetTccStatus
<1>6. PlaceIsKnown(t)'
  BY <1>k DEF RowsFollowStatus, AnswersAreTrue, PlaceIsKnown, InsertTcc, StockTypeOK, OrderTypeOK, RowType, stockVars, orderVars, Goto, Blame, Reply, BothAnswered, Op, SetTccStatus
<1> QED
  BY <1>2, <1>3, <1>4, <1>5, <1>6, SameForKnows DEF CoordinatorKnows

LEMMA GetItemIInv ==
  ASSUME IInv, NEW t \in Tcc, NEW reply \in Reply, GetItem(t, reply)
  PROVE  IInv'
<1> USE DEF IInv, TypeOK
<1>k. RowsFollowStatus(t) /\ AnswersAreTrue(t) /\ PlaceIsKnown(t)
  BY DEF CoordinatorKnows
<1>1. StockTypeOK' /\ OrderTypeOK'
  BY DEF GetItem, stockVars, orderVars, StockTypeOK, OrderTypeOK
<1>2. TypeOK'
  BY <1>1 DEF GetItem, TccStatus, Location, Goto, Blame
<1>3. ASSUME NEW u \in Tcc, u # t PROVE SameFor(u)
  BY <1>3 DEF GetItem, Goto, Blame, SameFor, stockVars, orderVars
<1>4. RowsFollowStatus(t)'
  BY <1>k DEF RowsFollowStatus, AnswersAreTrue, PlaceIsKnown, GetItem, StockTypeOK, OrderTypeOK, RowType, stockVars, orderVars
<1>5. AnswersAreTrue(t)'
  BY <1>k DEF RowsFollowStatus, AnswersAreTrue, PlaceIsKnown, GetItem, StockTypeOK, OrderTypeOK, RowType, stockVars, orderVars
<1>6. PlaceIsKnown(t)'
  BY <1>k DEF RowsFollowStatus, AnswersAreTrue, PlaceIsKnown, GetItem, StockTypeOK, OrderTypeOK, RowType, stockVars, orderVars, Goto, Blame, Reply, BothAnswered, Op
<1> QED
  BY <1>2, <1>3, <1>4, <1>5, <1>6, SameForKnows DEF CoordinatorKnows

LEMMA TryOrderIInv ==
  ASSUME IInv, NEW t \in Tcc, NEW reply \in Reply, TryOrder(t, reply)
  PROVE  IInv'
<1> USE DEF IInv, TypeOK
<1>k. RowsFollowStatus(t) /\ AnswersAreTrue(t) /\ PlaceIsKnown(t)
  BY DEF CoordinatorKnows
<1>a. TryCreateOrder(t, reply)
  BY DEF TryOrder
<1>1. StockTypeOK' /\ OrderTypeOK'
  BY <1>a, OrderCallTypeOK DEF TryOrder, stockVars, orderVars, StockTypeOK, OrderTypeOK
<1>2. TypeOK'
  BY <1>1 DEF TryOrder, TccStatus, Location, Goto, Blame
<1>3. ASSUME NEW u \in Tcc, u # t PROVE SameFor(u)
  BY <1>3, <1>a, OrderCallSame DEF TryOrder, Goto, Blame, SameFor, stockVars, orderVars
<1>4. RowsFollowStatus(t)'
  BY <1>k DEF RowsFollowStatus, AnswersAreTrue, PlaceIsKnown, TryOrder, StockTypeOK, OrderTypeOK, RowType, stockVars, orderVars, TryCreateOrder, OrderTryTakesEffect, SetOrder, Answered
<1>5. AnswersAreTrue(t)'
  BY <1>k DEF RowsFollowStatus, AnswersAreTrue, PlaceIsKnown, TryOrder, StockTypeOK, OrderTypeOK, RowType, stockVars, orderVars, TryCreateOrder, OrderTryTakesEffect, SetOrder, Answered
<1>6. PlaceIsKnown(t)'
  BY <1>k DEF RowsFollowStatus, AnswersAreTrue, PlaceIsKnown, TryOrder, StockTypeOK, OrderTypeOK, RowType, stockVars, orderVars, Goto, Blame, Reply, BothAnswered, Op, TryCreateOrder, OrderTryTakesEffect, SetOrder, Answered
<1> QED
  BY <1>2, <1>3, <1>4, <1>5, <1>6, SameForKnows DEF CoordinatorKnows

LEMMA TryStockIInv ==
  ASSUME IInv, NEW t \in Tcc, NEW reply \in Reply, TryStock(t, reply)
  PROVE  IInv'
<1> USE DEF IInv, TypeOK
<1>k. RowsFollowStatus(t) /\ AnswersAreTrue(t) /\ PlaceIsKnown(t)
  BY DEF CoordinatorKnows
<1>a. TryReserveStock(t, reply)
  BY DEF TryStock
<1>b. /\ \/ reserve'[t] = reserve[t]
         \/ reserve[t] = NoRow /\ reserve'[t] = Row(Count[t], "INIT")
      /\ reply = "true" => reserve'[t] # NoRow
  BY <1>a DEF TryReserveStock, TryTakesEffect, TryDoneBefore, SetRow, NoEffect, StockTypeOK, NoRow, Row
<1>c. stockAcked' = Answered(stockAcked, "try", t, reply)
  BY <1>a DEF TryReserveStock
<1>1. StockTypeOK' /\ OrderTypeOK'
  BY <1>a, StockCallTypeOK DEF TryStock, stockVars, orderVars, StockTypeOK, OrderTypeOK
<1>2. TypeOK'
  BY <1>1 DEF TryStock, TccStatus, Location, Goto, Blame
<1>3. ASSUME NEW u \in Tcc, u # t PROVE SameFor(u)
  BY <1>3, <1>a, StockCallSame DEF TryStock, Goto, Blame, SameFor, stockVars, orderVars
<1>4. RowsFollowStatus(t)'
  BY <1>k, <1>b, <1>c DEF RowsFollowStatus, AnswersAreTrue, PlaceIsKnown, TryStock, StockTypeOK, OrderTypeOK, RowType, stockVars, orderVars, Answered, NoRow, Row
<1>5. AnswersAreTrue(t)'
  BY <1>k, <1>b, <1>c DEF RowsFollowStatus, AnswersAreTrue, PlaceIsKnown, TryStock, StockTypeOK, OrderTypeOK, RowType, stockVars, orderVars, Answered, NoRow, Row
<1>6. PlaceIsKnown(t)'
  BY <1>k, <1>b, <1>c DEF RowsFollowStatus, AnswersAreTrue, PlaceIsKnown, TryStock, StockTypeOK, OrderTypeOK, RowType, stockVars, orderVars, Goto, Blame, Reply, BothAnswered, Op, Answered, NoRow, Row
<1> QED
  BY <1>2, <1>3, <1>4, <1>5, <1>6, SameForKnows DEF CoordinatorKnows

LEMMA DecideIInv ==
  ASSUME IInv, NEW t \in Tcc, NEW reply \in Reply, Decide(t, reply)
  PROVE  IInv'
<1> USE DEF IInv, TypeOK
<1>k. RowsFollowStatus(t) /\ AnswersAreTrue(t) /\ PlaceIsKnown(t)
  BY DEF CoordinatorKnows
<1>1. StockTypeOK' /\ OrderTypeOK'
  BY DEF Decide, stockVars, orderVars, StockTypeOK, OrderTypeOK
<1>2. TypeOK'
  BY <1>1 DEF Decide, SetTccStatus, TccStatus, Location, Goto, Blame
<1>3. ASSUME NEW u \in Tcc, u # t PROVE SameFor(u)
  BY <1>3 DEF SetTccStatus, Decide, Goto, Blame, SameFor, stockVars, orderVars
<1>4. RowsFollowStatus(t)'
  BY <1>k DEF RowsFollowStatus, AnswersAreTrue, PlaceIsKnown, Decide, StockTypeOK, OrderTypeOK, RowType, stockVars, orderVars, SetTccStatus, BothAnswered
<1>5. AnswersAreTrue(t)'
  BY <1>k DEF RowsFollowStatus, AnswersAreTrue, PlaceIsKnown, Decide, StockTypeOK, OrderTypeOK, RowType, stockVars, orderVars, SetTccStatus, BothAnswered
<1>6. PlaceIsKnown(t)'
  BY <1>k DEF RowsFollowStatus, AnswersAreTrue, PlaceIsKnown, Decide, StockTypeOK, OrderTypeOK, RowType, stockVars, orderVars, Goto, Blame, Reply, BothAnswered, Op, SetTccStatus, BothAnswered
<1> QED
  BY <1>2, <1>3, <1>4, <1>5, <1>6, SameForKnows DEF CoordinatorKnows

LEMMA ConfirmStockIInv ==
  ASSUME IInv, NEW t \in Tcc, NEW reply \in Reply, ConfirmStock(t, reply)
  PROVE  IInv'
<1> USE DEF IInv, TypeOK
<1>k. RowsFollowStatus(t) /\ AnswersAreTrue(t) /\ PlaceIsKnown(t)
  BY DEF CoordinatorKnows
<1>a. ConfirmReserveStock(t, reply)
  BY DEF ConfirmStock
<1>b. /\ \/ reserve'[t] = reserve[t]
         \/ /\ reserve[t].status = "INIT"
            /\ reserve'[t] = Row(reserve[t].amount, "CONFIRMED")
      /\ reply = "true" => reserve'[t].status = "CONFIRMED"
  BY <1>a DEF ConfirmReserveStock, ConfirmTakesEffect, ConfirmDoneBefore, SetRow, NoEffect, StockTypeOK, Row
<1>c. stockAcked' = Answered(stockAcked, "confirm", t, reply)
  BY <1>a DEF ConfirmReserveStock
<1>1. StockTypeOK' /\ OrderTypeOK'
  BY <1>a, StockCallTypeOK DEF ConfirmStock, stockVars, orderVars, StockTypeOK, OrderTypeOK
<1>2. TypeOK'
  BY <1>1 DEF ConfirmStock, TccStatus, Location, Goto, Blame
<1>3. ASSUME NEW u \in Tcc, u # t PROVE SameFor(u)
  BY <1>3, <1>a, StockCallSame DEF ConfirmStock, Goto, Blame, SameFor, stockVars, orderVars
<1>4. RowsFollowStatus(t)'
  BY <1>k, <1>b, <1>c DEF RowsFollowStatus, AnswersAreTrue, PlaceIsKnown, ConfirmStock, StockTypeOK, OrderTypeOK, RowType, stockVars, orderVars, Answered, Row, NoRow
<1>5. AnswersAreTrue(t)'
  BY <1>k, <1>b, <1>c DEF RowsFollowStatus, AnswersAreTrue, PlaceIsKnown, ConfirmStock, StockTypeOK, OrderTypeOK, RowType, stockVars, orderVars, Answered, Row, NoRow
<1>6. PlaceIsKnown(t)'
  BY <1>k, <1>b, <1>c DEF RowsFollowStatus, AnswersAreTrue, PlaceIsKnown, ConfirmStock, StockTypeOK, OrderTypeOK, RowType, stockVars, orderVars, Goto, Blame, Reply, BothAnswered, Op, Answered, Row, NoRow
<1> QED
  BY <1>2, <1>3, <1>4, <1>5, <1>6, SameForKnows DEF CoordinatorKnows

LEMMA ConfirmOrderIInv ==
  ASSUME IInv, NEW t \in Tcc, NEW reply \in Reply, ConfirmOrder(t, reply)
  PROVE  IInv'
<1> USE DEF IInv, TypeOK
<1>k. RowsFollowStatus(t) /\ AnswersAreTrue(t) /\ PlaceIsKnown(t)
  BY DEF CoordinatorKnows
<1>a. ConfirmCreateOrder(t, reply)
  BY DEF ConfirmOrder
<1>1. StockTypeOK' /\ OrderTypeOK'
  BY <1>a, OrderCallTypeOK DEF ConfirmOrder, stockVars, orderVars, StockTypeOK, OrderTypeOK
<1>2. TypeOK'
  BY <1>1 DEF ConfirmOrder, TccStatus, Location, Goto, Blame
<1>3. ASSUME NEW u \in Tcc, u # t PROVE SameFor(u)
  BY <1>3, <1>a, OrderCallSame DEF ConfirmOrder, Goto, Blame, SameFor, stockVars, orderVars
<1>4. RowsFollowStatus(t)'
  BY <1>k DEF RowsFollowStatus, AnswersAreTrue, PlaceIsKnown, ConfirmOrder, StockTypeOK, OrderTypeOK, RowType, stockVars, orderVars, ConfirmCreateOrder, SetOrder, Answered
<1>5. AnswersAreTrue(t)'
  BY <1>k DEF RowsFollowStatus, AnswersAreTrue, PlaceIsKnown, ConfirmOrder, StockTypeOK, OrderTypeOK, RowType, stockVars, orderVars, ConfirmCreateOrder, SetOrder, Answered
<1>6. PlaceIsKnown(t)'
  BY <1>k DEF RowsFollowStatus, AnswersAreTrue, PlaceIsKnown, ConfirmOrder, StockTypeOK, OrderTypeOK, RowType, stockVars, orderVars, Goto, Blame, Reply, BothAnswered, Op, ConfirmCreateOrder, SetOrder, Answered
<1> QED
  BY <1>2, <1>3, <1>4, <1>5, <1>6, SameForKnows DEF CoordinatorKnows

LEMMA CancelStockIInv ==
  ASSUME IInv, NEW t \in Tcc, NEW reply \in Reply, CancelStock(t, reply)
  PROVE  IInv'
<1> USE DEF IInv, TypeOK
<1>k. RowsFollowStatus(t) /\ AnswersAreTrue(t) /\ PlaceIsKnown(t)
  BY DEF CoordinatorKnows
<1>a. CancelReserveStock(t, reply)
  BY DEF CancelStock
<1>b. /\ \/ reserve'[t] = reserve[t]
         \/ /\ reserve[t].status \in {"INIT", "NONE"}
            /\ reserve'[t].status = "CANCELED"
      /\ reply = "true" => reserve'[t].status = "CANCELED"
  BY <1>a DEF CancelReserveStock, CancelTakesEffect, CancelDoneBefore, SetRow, NoEffect, StockTypeOK, NoRow, Row
<1>c. stockAcked' = Answered(stockAcked, "cancel", t, reply)
  BY <1>a DEF CancelReserveStock
<1>1. StockTypeOK' /\ OrderTypeOK'
  BY <1>a, StockCallTypeOK DEF CancelStock, stockVars, orderVars, StockTypeOK, OrderTypeOK
<1>2. TypeOK'
  BY <1>1 DEF CancelStock, TccStatus, Location, Goto, Blame
<1>3. ASSUME NEW u \in Tcc, u # t PROVE SameFor(u)
  BY <1>3, <1>a, StockCallSame DEF CancelStock, Goto, Blame, SameFor, stockVars, orderVars
<1>4. RowsFollowStatus(t)'
  BY <1>k, <1>b, <1>c DEF RowsFollowStatus, AnswersAreTrue, PlaceIsKnown, CancelStock, StockTypeOK, OrderTypeOK, RowType, stockVars, orderVars, Answered, NoRow, Row
<1>5. AnswersAreTrue(t)'
  BY <1>k, <1>b, <1>c DEF RowsFollowStatus, AnswersAreTrue, PlaceIsKnown, CancelStock, StockTypeOK, OrderTypeOK, RowType, stockVars, orderVars, Answered, NoRow, Row
<1>6. PlaceIsKnown(t)'
  BY <1>k, <1>b, <1>c DEF RowsFollowStatus, AnswersAreTrue, PlaceIsKnown, CancelStock, StockTypeOK, OrderTypeOK, RowType, stockVars, orderVars, Goto, Blame, Reply, BothAnswered, Op, Answered, NoRow, Row
<1> QED
  BY <1>2, <1>3, <1>4, <1>5, <1>6, SameForKnows DEF CoordinatorKnows

LEMMA CancelOrderIInv ==
  ASSUME IInv, NEW t \in Tcc, NEW reply \in Reply, CancelOrder(t, reply)
  PROVE  IInv'
<1> USE DEF IInv, TypeOK
<1>k. RowsFollowStatus(t) /\ AnswersAreTrue(t) /\ PlaceIsKnown(t)
  BY DEF CoordinatorKnows
<1>a. CancelCreateOrder(t, reply)
  BY DEF CancelOrder
<1>1. StockTypeOK' /\ OrderTypeOK'
  BY <1>a, OrderCallTypeOK DEF CancelOrder, stockVars, orderVars, StockTypeOK, OrderTypeOK
<1>2. TypeOK'
  BY <1>1 DEF CancelOrder, TccStatus, Location, Goto, Blame
<1>3. ASSUME NEW u \in Tcc, u # t PROVE SameFor(u)
  BY <1>3, <1>a, OrderCallSame DEF CancelOrder, Goto, Blame, SameFor, stockVars, orderVars
<1>4. RowsFollowStatus(t)'
  BY <1>k DEF RowsFollowStatus, AnswersAreTrue, PlaceIsKnown, CancelOrder, StockTypeOK, OrderTypeOK, RowType, stockVars, orderVars, CancelCreateOrder, SetOrder, Answered
<1>5. AnswersAreTrue(t)'
  BY <1>k DEF RowsFollowStatus, AnswersAreTrue, PlaceIsKnown, CancelOrder, StockTypeOK, OrderTypeOK, RowType, stockVars, orderVars, CancelCreateOrder, SetOrder, Answered
<1>6. PlaceIsKnown(t)'
  BY <1>k DEF RowsFollowStatus, AnswersAreTrue, PlaceIsKnown, CancelOrder, StockTypeOK, OrderTypeOK, RowType, stockVars, orderVars, Goto, Blame, Reply, BothAnswered, Op, CancelCreateOrder, SetOrder, Answered
<1> QED
  BY <1>2, <1>3, <1>4, <1>5, <1>6, SameForKnows DEF CoordinatorKnows

LEMMA FinishIInv ==
  ASSUME IInv, NEW t \in Tcc, NEW reply \in Reply, Finish(t, reply)
  PROVE  IInv'
<1> USE DEF IInv, TypeOK
<1>k. RowsFollowStatus(t) /\ AnswersAreTrue(t) /\ PlaceIsKnown(t)
  BY DEF CoordinatorKnows
<1>1. StockTypeOK' /\ OrderTypeOK'
  BY DEF Finish, stockVars, orderVars, StockTypeOK, OrderTypeOK
<1>2. TypeOK'
  BY <1>1 DEF Finish, SetTccStatus, TccStatus, Location, Goto, Blame
<1>3. ASSUME NEW u \in Tcc, u # t PROVE SameFor(u)
  BY <1>3 DEF SetTccStatus, Finish, Goto, Blame, SameFor, stockVars, orderVars
<1>4. RowsFollowStatus(t)'
  BY <1>k DEF RowsFollowStatus, AnswersAreTrue, PlaceIsKnown, Finish, StockTypeOK, OrderTypeOK, RowType, stockVars, orderVars, SetTccStatus, BothAnswered
<1>5. AnswersAreTrue(t)'
  BY <1>k DEF RowsFollowStatus, AnswersAreTrue, PlaceIsKnown, Finish, StockTypeOK, OrderTypeOK, RowType, stockVars, orderVars, SetTccStatus
<1>6. PlaceIsKnown(t)'
  BY <1>k DEF RowsFollowStatus, AnswersAreTrue, PlaceIsKnown, Finish, StockTypeOK, OrderTypeOK, RowType, stockVars, orderVars, Goto, Blame, Reply, BothAnswered, Op, SetTccStatus
<1> QED
  BY <1>2, <1>3, <1>4, <1>5, <1>6, SameForKnows DEF CoordinatorKnows

LEMMA NextIInv == IInv /\ [Next]_vars => IInv'
<1> SUFFICES ASSUME IInv, [Next]_vars PROVE IInv'
  OBVIOUS
<1>1. ASSUME NEW t \in Tcc, NEW reply \in Reply, PlaceOrder(t, reply) PROVE IInv'
  BY <1>1, InsertTccIInv, GetItemIInv, TryOrderIInv, TryStockIInv, DecideIInv,
     ConfirmStockIInv, ConfirmOrderIInv, CancelStockIInv, CancelOrderIInv, FinishIInv
     DEF PlaceOrder
<1>2. CASE UNCHANGED vars
  <2>1. TypeOK'
    BY <1>2 DEF IInv, TypeOK, StockTypeOK, OrderTypeOK, vars, stockVars, orderVars, coordVars
  <2>2. ASSUME NEW u \in Tcc PROVE SameFor(u)
    BY <1>2 DEF SameFor, vars, stockVars, orderVars, coordVars
  <2> QED
    BY <2>1, <2>2, SameForKnows DEF IInv, CoordinatorKnows
<1> QED
  BY <1>1, <1>2 DEF Next

(* The inductive invariant holds in every state. *)
THEOREM TccInvariant == Spec => []IInv
BY InitIInv, NextIInv, PTL DEF Spec

(***************************************************************************)
(* No purchase is ever half confirmed and half canceled, and a finished    *)
(* one is settled on both sides, whatever fails.                           *)
(***************************************************************************)
THEOREM PurchaseNeverSplit == Spec => [](NeverSplit /\ FinishedIsSettled)
<1>1. IInv => NeverSplit /\ FinishedIsSettled
  <2> SUFFICES ASSUME IInv, NEW t \in Tcc
               PROVE  /\ ~(reserve[t].status = "CONFIRMED" /\ order[t] = "CANCELED")
                      /\ ~(reserve[t].status = "CANCELED" /\ order[t] = "NORMAL")
                      /\ tccStatus[t] = "FINISHED" =>
                           \/ reserve[t].status = "CONFIRMED" /\ order[t] = "NORMAL"
                           \/ reserve[t].status = "CANCELED" /\ order[t] \in {"NONE", "CANCELED"}
    BY DEF NeverSplit, FinishedIsSettled
  <2>1. RowsFollowStatus(t) /\ tccStatus[t] \in TccStatus \cup {"NONE"}
    BY DEF IInv, CoordinatorKnows, TypeOK
  <2> QED
    BY <2>1 DEF RowsFollowStatus, TccStatus
<1> QED
  BY <1>1, TccInvariant, PTL

(* A finished transaction is over at both participants. *)
THEOREM FinishedPurchaseIsOver == Spec => []FinishedIsSettled
BY PurchaseNeverSplit, PTL

(* A normal order always has the stock it was made for. *)
THEOREM NormalOrdersHoldStock == Spec => []NormalOrderHoldsStock
<1>1. IInv => NormalOrderHoldsStock
  <2> SUFFICES ASSUME IInv, NEW t \in Tcc, order[t] = "NORMAL"
               PROVE  reserve[t].status \in {"INIT", "CONFIRMED"} /\ reserve[t].amount = Count[t]
    BY DEF NormalOrderHoldsStock
  <2>1. RowsFollowStatus(t) /\ tccStatus[t] \in TccStatus \cup {"NONE"}
    BY DEF IInv, CoordinatorKnows, TypeOK
  <2> QED
    BY <2>1 DEF RowsFollowStatus, TccStatus
<1> QED
  BY <1>1, TccInvariant, PTL

(* In the second phase a participant refuses nothing: only a fault stops it. *)
THEOREM OnlyFaultsStop == Spec => []StuckOnlyByFault
<1>1. IInv => StuckOnlyByFault
  BY DEF IInv, CoordinatorKnows, PlaceIsKnown, StuckOnlyByFault
<1> QED
  BY <1>1, TccInvariant, PTL

-----------------------------------------------------------------------------
(* All that placeOrder does to the stock are calls of its service. *)
LEMMA NextCallsStock == [Next]_vars => [StockNext]_stockVars
<1> SUFFICES ASSUME [Next]_vars PROVE [StockNext]_stockVars
  OBVIOUS
<1>1. CASE UNCHANGED vars
  BY <1>1 DEF vars
<1>2. ASSUME NEW t \in Tcc, NEW reply \in Reply,
             \/ InsertTcc(t, reply) \/ GetItem(t, reply) \/ TryOrder(t, reply)
             \/ Decide(t, reply) \/ ConfirmOrder(t, reply) \/ CancelOrder(t, reply)
             \/ Finish(t, reply)
      PROVE  UNCHANGED stockVars
  BY <1>2 DEF InsertTcc, GetItem, TryOrder, Decide, ConfirmOrder, CancelOrder, Finish
<1>3. ASSUME NEW t \in Tcc, NEW reply \in Reply,
             TryStock(t, reply) \/ ConfirmStock(t, reply) \/ CancelStock(t, reply)
      PROVE  StockNext
  BY <1>3 DEF TryStock, ConfirmStock, CancelStock, StockNext
<1> QED
  BY <1>1, <1>2, <1>3 DEF Next, PlaceOrder

LEMMA UsesStock == Spec => StockSpec
<1>1. Init => StockInit
  BY DEF Init
<1> QED
  BY <1>1, NextCallsStock, PTL DEF Spec, StockSpec

(***************************************************************************)
(* What is sold is held: every normal order has a reservation of its count *)
(* on the other database, and those never take more than the stock there   *)
(* was, so that no set of purchases buys what is not there.                *)
(***************************************************************************)
THEOREM OrdersWithinStock == Spec => []SoldWithinStock
<1>1. ASSUME NormalOrderHoldsStock, StockInv, NEW i \in Items
      PROVE  Cardinality(SoldOf(i)) <= InitStock[i]
  <2>1. SoldOf(i) \subseteq HeldOf(i)
    <3>1. ASSUME NEW t \in Tcc, ItemOf[t] = i, order[t] = "NORMAL"
          PROVE  {t} \X (1 .. Count[t]) = Units(t)
      BY <1>1, <3>1 DEF NormalOrderHoldsStock, Units, Held
    <3> QED
      BY <3>1 DEF SoldOf, HeldOf
  <2>2. IsFiniteSet(HeldOf(i)) /\ stock[i] + Cardinality(HeldOf(i)) = InitStock[i]
    BY <1>1 DEF StockInv, Conservation
  <2>3. Cardinality(SoldOf(i)) <= Cardinality(HeldOf(i)) /\ IsFiniteSet(SoldOf(i))
    BY <2>1, <2>2, FS_Subset
  <2>4. Cardinality(SoldOf(i)) \in Nat /\ Cardinality(HeldOf(i)) \in Nat
    BY <2>2, <2>3, FS_CardinalityType
  <2>5. stock[i] >= 0 /\ stock[i] \in Int /\ InitStock[i] \in Nat
    BY <1>1, InitStockAssumption DEF StockInv, NoOversell, StockTypeOK
  <2> QED
    BY <2>2, <2>3, <2>4, <2>5
<1>2. NormalOrderHoldsStock /\ StockInv => SoldWithinStock
  BY <1>1 DEF SoldWithinStock
<1> QED
  BY <1>2, NormalOrdersHoldStock, UsesStock, StockSpecInv, PTL

-----------------------------------------------------------------------------
(* What one call does to the parts and the decision of its transaction.    *)

Unmoved(t) ==
  /\ reserve'[t].status = reserve[t].status
  /\ order'[t] = order[t]
  /\ tccStatus'[t] = tccStatus[t]

StockMoves(t, from, to, decided) ==
  /\ reserve[t].status \in from /\ reserve'[t].status = to
  /\ order'[t] = order[t]
  /\ tccStatus'[t] = tccStatus[t] /\ tccStatus[t] = decided

OrderMoves(t, from, to, decided) ==
  /\ order[t] = from /\ order'[t] = to
  /\ reserve'[t].status = reserve[t].status
  /\ tccStatus'[t] = tccStatus[t] /\ tccStatus[t] = decided

DecisionMoves(t) ==
  /\ reserve'[t].status = reserve[t].status /\ order'[t] = order[t]
  /\ \/ tccStatus[t] = "NONE" /\ tccStatus'[t] = "INIT"
     \/ /\ tccStatus[t] = "INIT" /\ tccStatus'[t] = "TO_CONFIRM"
        /\ reserve[t].status = "INIT" /\ order[t] = "INIT"
     \/ tccStatus[t] = "INIT" /\ tccStatus'[t] = "TO_CANCEL"
     \/ /\ tccStatus[t] = "TO_CONFIRM" /\ tccStatus'[t] = "FINISHED"
        /\ reserve[t].status = "CONFIRMED"
     \/ /\ tccStatus[t] = "TO_CANCEL" /\ tccStatus'[t] = "FINISHED"
        /\ reserve[t].status = "CANCELED"

OneMove(t) ==
  \/ Unmoved(t)
  \/ StockMoves(t, {"NONE"}, "INIT", "INIT")
  \/ StockMoves(t, {"INIT"}, "CONFIRMED", "TO_CONFIRM")
  \/ StockMoves(t, {"NONE", "INIT"}, "CANCELED", "TO_CANCEL")
  \/ OrderMoves(t, "NONE", "INIT", "INIT")
  \/ OrderMoves(t, "INIT", "NORMAL", "TO_CONFIRM")
  \/ OrderMoves(t, "INIT", "CANCELED", "TO_CANCEL")
  \/ DecisionMoves(t)

LEMMA StockCallMoves ==
  ASSUME IInv, NEW t \in Tcc, NEW reply \in Reply,
         TryStock(t, reply) \/ ConfirmStock(t, reply) \/ CancelStock(t, reply)
  PROVE  OneMove(t)
<1> USE DEF OneMove, Unmoved, StockMoves, orderVars
<1>1. StockTypeOK /\ RowsFollowStatus(t) /\ PlaceIsKnown(t)
  BY DEF IInv, TypeOK, CoordinatorKnows
<1>2. CASE TryStock(t, reply)
  <2>1. tccStatus[t] = "INIT"
    BY <1>1, <1>2 DEF TryStock, PlaceIsKnown
  <2>2. \/ reserve'[t] = reserve[t]
        \/ reserve[t].status = "NONE" /\ reserve'[t].status = "INIT"
    BY <1>1, <1>2 DEF TryStock, TryReserveStock, TryTakesEffect, SetRow, NoEffect, StockTypeOK, NoRow, Row
  <2> QED
    BY <1>2, <2>1, <2>2 DEF TryStock
<1>3. CASE ConfirmStock(t, reply)
  <2>1. tccStatus[t] = "TO_CONFIRM"
    BY <1>1, <1>3 DEF ConfirmStock, PlaceIsKnown
  <2>2. \/ reserve'[t] = reserve[t]
        \/ reserve[t].status = "INIT" /\ reserve'[t].status = "CONFIRMED"
    BY <1>1, <1>3 DEF ConfirmStock, ConfirmReserveStock, ConfirmTakesEffect, SetRow, NoEffect,
                      StockTypeOK, Row
  <2> QED
    BY <1>3, <2>1, <2>2 DEF ConfirmStock
<1>4. CASE CancelStock(t, reply)
  <2>1. tccStatus[t] = "TO_CANCEL"
    BY <1>1, <1>4 DEF CancelStock, PlaceIsKnown
  <2>2. \/ reserve'[t] = reserve[t]
        \/ reserve[t].status \in {"NONE", "INIT"} /\ reserve'[t].status = "CANCELED"
    BY <1>1, <1>4 DEF CancelStock, CancelReserveStock, CancelTakesEffect, SetRow, NoEffect,
                      StockTypeOK, NoRow, Row
  <2> QED
    BY <1>4, <2>1, <2>2 DEF CancelStock
<1> QED
  BY <1>2, <1>3, <1>4

LEMMA OrderCallMoves ==
  ASSUME IInv, NEW t \in Tcc, NEW reply \in Reply,
         TryOrder(t, reply) \/ ConfirmOrder(t, reply) \/ CancelOrder(t, reply)
  PROVE  OneMove(t)
<1>1. OrderTypeOK /\ PlaceIsKnown(t)
  BY DEF IInv, TypeOK, CoordinatorKnows
<1> QED
  BY <1>1 DEF OneMove, Unmoved, OrderMoves, stockVars, OrderTypeOK, PlaceIsKnown, SetOrder,
              TryOrder, ConfirmOrder, CancelOrder, OrderTryTakesEffect,
              TryCreateOrder, ConfirmCreateOrder, CancelCreateOrder

LEMMA TccCallMoves ==
  ASSUME IInv, NEW t \in Tcc, NEW reply \in Reply,
         InsertTcc(t, reply) \/ GetItem(t, reply) \/ Decide(t, reply) \/ Finish(t, reply)
  PROVE  OneMove(t)
<1>1. /\ RowsFollowStatus(t) /\ AnswersAreTrue(t) /\ PlaceIsKnown(t)
      /\ tccStatus \in [Tcc -> TccStatus \cup {"NONE"}] /\ reserve \in [Tcc -> RowType]
      /\ order \in [Tcc -> OrderStatus \cup {"NONE"}]
  BY DEF IInv, TypeOK, StockTypeOK, OrderTypeOK, CoordinatorKnows
<1> USE <1>1 DEF OneMove, Unmoved, DecisionMoves, stockVars, orderVars, SetTccStatus
<1>2. CASE InsertTcc(t, reply)
  BY <1>2 DEF InsertTcc
<1>3. CASE GetItem(t, reply)
  BY <1>3 DEF GetItem
<1>4. CASE Decide(t, reply)
  BY <1>4 DEF Decide, BothAnswered, RowsFollowStatus, AnswersAreTrue, PlaceIsKnown
<1>5. CASE Finish(t, reply)
  BY <1>5 DEF Finish, BothAnswered, AnswersAreTrue, PlaceIsKnown
<1> QED
  BY <1>2, <1>3, <1>4, <1>5

LEMMA CallMoves ==
  ASSUME IInv, NEW t \in Tcc, NEW reply \in Reply, PlaceOrder(t, reply)
  PROVE  OneMove(t) /\ \A u \in Tcc \ {t} : Unmoved(u)
<1>1. OneMove(t)
  BY StockCallMoves, OrderCallMoves, TccCallMoves DEF PlaceOrder
<1>2. ASSUME NEW u \in Tcc, u # t PROVE Unmoved(u)
  <2> USE <1>2 DEF Unmoved, IInv, TypeOK, stockVars, orderVars
  <2>1. CASE TryStock(t, reply) \/ ConfirmStock(t, reply) \/ CancelStock(t, reply)
    BY <2>1, StockCallSame DEF TryStock, ConfirmStock, CancelStock
  <2>2. CASE TryOrder(t, reply) \/ ConfirmOrder(t, reply) \/ CancelOrder(t, reply)
    BY <2>2, OrderCallSame DEF TryOrder, ConfirmOrder, CancelOrder
  <2>3. CASE InsertTcc(t, reply) \/ GetItem(t, reply) \/ Decide(t, reply) \/ Finish(t, reply)
    BY <2>3 DEF InsertTcc, GetItem, Decide, Finish, SetTccStatus
  <2> QED
    BY <2>1, <2>2, <2>3 DEF PlaceOrder
<1> QED
  BY <1>1, <1>2

(***************************************************************************)
(* The participants follow the coordinator's row, which never changes its  *)
(* mind.                                                                   *)
(***************************************************************************)
THEOREM ParticipantsFollow == Spec => FollowsDecision
<1> DEFINE Follows(t) ==
       /\ reserve[t].status # "CONFIRMED" /\ reserve'[t].status = "CONFIRMED"
            => tccStatus[t] = "TO_CONFIRM"
       /\ order[t] # "NORMAL" /\ order'[t] = "NORMAL" => tccStatus[t] = "TO_CONFIRM"
       /\ reserve[t].status # "CANCELED" /\ reserve'[t].status = "CANCELED"
            => tccStatus[t] = "TO_CANCEL"
       /\ order[t] # "CANCELED" /\ order'[t] = "CANCELED" => tccStatus[t] = "TO_CANCEL"
       /\ tccStatus[t] = "TO_CONFIRM" => tccStatus'[t] # "TO_CANCEL"
       /\ tccStatus[t] = "TO_CANCEL" => tccStatus'[t] # "TO_CONFIRM"
<1>1. IInv /\ [Next]_vars => [\A t \in Tcc : Follows(t)]_vars
  <2> SUFFICES ASSUME IInv, Next PROVE \A t \in Tcc : Follows(t)
    OBVIOUS
  <2>1. PICK t \in Tcc, reply \in Reply : PlaceOrder(t, reply)
    BY DEF Next
  <2>2. OneMove(t) /\ \A u \in Tcc \ {t} : Unmoved(u)
    BY <2>1, CallMoves
  <2>3. Follows(t)
    BY <2>2 DEF OneMove, Unmoved, StockMoves, OrderMoves, DecisionMoves
  <2>4. \A u \in Tcc \ {t} : Follows(u)
    BY <2>2 DEF Unmoved
  <2> QED
    BY <2>3, <2>4
<1> QED
  BY <1>1, TccInvariant, PTL DEF Spec, FollowsDecision

-----------------------------------------------------------------------------
(* The purchases implement AtomicPurchase. *)

LEMMA UnmovedMaps ==
  ASSUME NEW u \in Tcc, Unmoved(u)
  PROVE  Decision(u)' = Decision(u) /\ StockPart(u)' = StockPart(u) /\ OrderPart(u)' = OrderPart(u)
BY DEF Unmoved, Decision, StockPart, OrderPart

(* The other transactions keep their parts, so both functions change at t. *)
LEMMA MapsChangeAt ==
  ASSUME NEW t \in Tcc, \A u \in Tcc \ {t} : Unmoved(u)
  PROVE  /\ Decision(t)' = Decision(t) => UNCHANGED Decisions
         /\ Decisions' = [Decisions EXCEPT ![t] = Decision(t)']
         /\ StockPart(t)' = StockPart(t) /\ OrderPart(t)' = OrderPart(t) => UNCHANGED Parts
         /\ OrderPart(t)' = OrderPart(t)
              => Parts' = [Parts EXCEPT ![t]["stock"] = StockPart(t)']
         /\ StockPart(t)' = StockPart(t)
              => Parts' = [Parts EXCEPT ![t]["order"] = OrderPart(t)']
         /\ Decisions[t] = Decision(t)
         /\ Parts[t]["stock"] = StockPart(t) /\ Parts[t]["order"] = OrderPart(t)
<1>1. \A u \in Tcc \ {t} : /\ Decision(u)' = Decision(u)
                           /\ StockPart(u)' = StockPart(u) /\ OrderPart(u)' = OrderPart(u)
  BY UnmovedMaps
<1> QED
  BY <1>1 DEF Decisions, Parts

LEMMA MoveMaps ==
  ASSUME NEW t \in Tcc, OneMove(t), \A u \in Tcc \ {t} : Unmoved(u)
  PROVE  [Purchase!PurchaseNext]_(Purchase!purchaseVars)
<1> USE MapsChangeAt DEF StockMoves, OrderMoves, Purchase!SetPart, Purchase!Participant
<1>1. CASE Unmoved(t)
  BY <1>1, UnmovedMaps DEF Purchase!purchaseVars
<1>2. CASE StockMoves(t, {"NONE"}, "INIT", "INIT")
  <2>1. Purchase!Prepare(t, "stock")
    BY <1>2 DEF Decision, StockPart, OrderPart, Purchase!Prepare
  <2> QED
    BY <2>1 DEF Purchase!PurchaseNext
<1>3. CASE StockMoves(t, {"INIT"}, "CONFIRMED", "TO_CONFIRM")
  <2>1. Purchase!CommitPart(t, "stock")
    BY <1>3 DEF Decision, StockPart, OrderPart, Purchase!CommitPart
  <2> QED
    BY <2>1 DEF Purchase!PurchaseNext
<1>4. CASE StockMoves(t, {"NONE", "INIT"}, "CANCELED", "TO_CANCEL")
  <2>1. Purchase!AbortPart(t, "stock")
    BY <1>4 DEF Decision, StockPart, OrderPart, Purchase!AbortPart
  <2> QED
    BY <2>1 DEF Purchase!PurchaseNext
<1>5. CASE OrderMoves(t, "NONE", "INIT", "INIT")
  <2>1. Purchase!Prepare(t, "order")
    BY <1>5 DEF Decision, StockPart, OrderPart, Purchase!Prepare
  <2> QED
    BY <2>1 DEF Purchase!PurchaseNext
<1>6. CASE OrderMoves(t, "INIT", "NORMAL", "TO_CONFIRM")
  <2>1. Purchase!CommitPart(t, "order")
    BY <1>6 DEF Decision, StockPart, OrderPart, Purchase!CommitPart
  <2> QED
    BY <2>1 DEF Purchase!PurchaseNext
<1>7. CASE OrderMoves(t, "INIT", "CANCELED", "TO_CANCEL")
  <2>1. Purchase!AbortPart(t, "order")
    BY <1>7 DEF Decision, StockPart, OrderPart, Purchase!AbortPart
  <2> QED
    BY <2>1 DEF Purchase!PurchaseNext
<1>8. CASE DecisionMoves(t)
  <2>1. StockPart(t)' = StockPart(t) /\ OrderPart(t)' = OrderPart(t) /\ UNCHANGED Parts
    BY <1>8 DEF DecisionMoves, StockPart, OrderPart
  <2>2. CASE tccStatus[t] = "INIT" /\ tccStatus'[t] = "TO_CONFIRM"
    <3>1. Purchase!DecideCommit(t)
      BY <1>8, <2>1, <2>2 DEF DecisionMoves, Decision, StockPart, OrderPart, Purchase!DecideCommit
    <3> QED
      BY <3>1 DEF Purchase!PurchaseNext
  <2>3. CASE tccStatus[t] = "INIT" /\ tccStatus'[t] = "TO_CANCEL"
    <3>1. Purchase!DecideAbort(t)
      BY <2>1, <2>3 DEF Decision, Purchase!DecideAbort
    <3> QED
      BY <3>1 DEF Purchase!PurchaseNext
  <2>4. CASE ~(tccStatus[t] = "INIT" /\ tccStatus'[t] \in {"TO_CONFIRM", "TO_CANCEL"})
    <3>1. Decision(t)' = Decision(t)
      BY <1>8, <2>4 DEF DecisionMoves, Decision
    <3> QED
      BY <2>1, <3>1 DEF Purchase!purchaseVars
  <2> QED
    BY <2>2, <2>3, <2>4
<1> QED
  BY <1>1, <1>2, <1>3, <1>4, <1>5, <1>6, <1>7, <1>8 DEF OneMove

(***************************************************************************)
(* placeOrder over the two services implements the abstract purchase: one  *)
(* decision per transaction, taken only when both are prepared if it is to *)
(* commit, and followed by both.                                           *)
(***************************************************************************)
THEOREM TccImplementsPurchase == Spec => ImplementsPurchase
<1>1. Init => Purchase!PurchaseInit
  BY DEF Init, StockInit, OrderInit, NoRow, Row, Decisions, Parts, Decision, StockPart, OrderPart,
         Purchase!PurchaseInit, Purchase!Participant
<1>2. IInv /\ [Next]_vars => [Purchase!PurchaseNext]_(Purchase!purchaseVars)
  <2> SUFFICES ASSUME IInv, [Next]_vars PROVE [Purchase!PurchaseNext]_(Purchase!purchaseVars)
    OBVIOUS
  <2>1. CASE UNCHANGED vars
    <3>1. \A u \in Tcc : Unmoved(u)
      BY <2>1 DEF Unmoved, vars, stockVars, orderVars, coordVars
    <3>2. UNCHANGED <<Decisions, Parts>>
      BY <3>1, UnmovedMaps DEF Decisions, Parts
    <3> QED
      BY <3>2 DEF Purchase!purchaseVars
  <2>2. ASSUME NEW t \in Tcc, NEW reply \in Reply, PlaceOrder(t, reply)
        PROVE  [Purchase!PurchaseNext]_(Purchase!purchaseVars)
    BY <2>2, CallMoves, MoveMaps
  <2> QED
    BY <2>1, <2>2 DEF Next
<1> QED
  BY <1>1, <1>2, TccInvariant, PTL DEF Spec, ImplementsPurchase, Purchase!PurchaseSpec
=============================================================================
