-------------------------- MODULE TccStockTxProofs --------------------------
(***************************************************************************)
(* Proofs about TccStockTx, for any number of connections, transactions    *)
(* and items.                                                              *)
(***************************************************************************)
EXTENDS TccStockTx, TccStockProofs

IInv ==
  /\ TypeOK
  /\ AbsentIsNoRow
  /\ ReadsAreLocked
  /\ SeenIsCurrent
  /\ NoOversell
  /\ AnswersDurable

LEMMA InitIInv == Init => IInv
<1> SUFFICES ASSUME Init PROVE IInv
  OBVIOUS
<1> USE DEF Init, StockInit, NoRow, Row
<1>1. TypeOK
  BY InitStockAssumption DEF TypeOK, StockTypeOK, RowType, Location
<1>2. AbsentIsNoRow
  BY DEF AbsentIsNoRow
<1>3. ReadsAreLocked
  BY DEF ReadsAreLocked
<1>4. SeenIsCurrent
  BY DEF SeenIsCurrent
<1>5. NoOversell
  BY InitStockAssumption DEF NoOversell
<1>6. AnswersDurable
  BY DEF AnswersDurable
<1> QED
  BY <1>1, <1>2, <1>3, <1>4, <1>5, <1>6 DEF IInv

-----------------------------------------------------------------------------
(* Ending a transaction without writing keeps the invariant. *)
LEMMA ReleaseIInv ==
  ASSUME IInv, NEW c \in Conn, Release(c), UNCHANGED <<stock, reserve>>,
         StockTypeOK', AnswersDurable'
  PROVE  IInv'
<1> USE DEF IInv
<1>1. TypeOK'
  BY NoneAssumption DEF TypeOK, StockTypeOK, Release, Location, NoRow, Row, RowType
<1>2. AbsentIsNoRow'
  BY DEF AbsentIsNoRow
<1>3. ReadsAreLocked'
  BY NoneAssumption DEF ReadsAreLocked, Release, TypeOK, Present, Item
<1>4. SeenIsCurrent'
  BY DEF SeenIsCurrent, Release, TypeOK, Item
<1>5. NoOversell'
  BY DEF NoOversell
<1> QED
  BY <1>1, <1>2, <1>3, <1>4, <1>5

(* So does answering a repeated call. *)
LEMMA RepeatIInv ==
  ASSUME IInv, NEW c \in Conn, NEW op \in Op, tcc[c] \in Tcc,
         Done(c, op), UNCHANGED <<stock, reserve>>,
         op = "try" => reserve[tcc[c]] # NoRow,
         op = "confirm" => reserve[tcc[c]].status = "CONFIRMED",
         op = "cancel" => reserve[tcc[c]].status = "CANCELED"
  PROVE  IInv'
<1>1. StockTypeOK'
  BY DEF IInv, TypeOK, StockTypeOK, Done, Answered
<1>2. AnswersDurable'
  BY DEF IInv, TypeOK, StockTypeOK, Done, Answered, AnswersDurable
<1>3. Release(c)
  BY DEF Done
<1> QED
  BY <1>1, <1>2, <1>3, ReleaseIInv

(* The gap of an absent key holds that key and no present one. *)
LEMMA GapFacts ==
  ASSUME NEW t \in Tcc, ~Present(t)
  PROVE  t \in Gap(t) /\ Gap(t) \subseteq Tcc /\ \A u \in Gap(t) : ~Present(u)
BY TccAssumption DEF Gap, Between

LEMMA RollbackIInv ==
  ASSUME IInv, NEW c \in Conn, Rollback(c) PROVE IInv'
<1>1. /\ Release(c) /\ UNCHANGED <<stock, reserve>>
      /\ StockTypeOK' /\ AnswersDurable'
  BY DEF Rollback, stockVars, IInv, TypeOK, StockTypeOK, AnswersDurable
<1> QED
  BY <1>1, ReleaseIInv

LEMMA CallIInv ==
  ASSUME IInv, NEW c \in Conn, NEW t \in Tcc, Call(c, t)
  PROVE  IInv'
<1> USE DEF IInv, Call, locks, Goto, stockVars
<1>1. TypeOK'
  BY DEF TypeOK, StockTypeOK, Location, ReadsAreLocked
<1>2. AbsentIsNoRow'
  BY DEF AbsentIsNoRow
<1>3. ReadsAreLocked'
  BY NoneAssumption DEF ReadsAreLocked, SeenIsCurrent, TypeOK, StockTypeOK, Present, Item, NoRow, Row, AbsentIsNoRow
<1>4. SeenIsCurrent'
  BY DEF SeenIsCurrent, ReadsAreLocked, TypeOK, StockTypeOK, Item, NoRow, Row, AbsentIsNoRow
<1>5. NoOversell' /\ AnswersDurable'
  BY DEF NoOversell, AnswersDurable
<1> QED
  BY <1>1, <1>2, <1>3, <1>4, <1>5

LEMMA TrySelectItemIInv ==
  ASSUME IInv, NEW c \in Conn, TrySelectItem(c)
  PROVE  IInv'
<1> USE DEF IInv, TrySelectItem, SelectItemForUpdate, ItemUnlocked, Goto, stockVars
<1>1. TypeOK'
  BY DEF TypeOK, StockTypeOK, Location, ReadsAreLocked
<1>2. AbsentIsNoRow'
  BY DEF AbsentIsNoRow
<1>3. ReadsAreLocked'
  BY NoneAssumption DEF ReadsAreLocked, SeenIsCurrent, TypeOK, StockTypeOK, Present, Item, NoRow, Row, AbsentIsNoRow
<1>4. SeenIsCurrent'
  BY DEF SeenIsCurrent, ReadsAreLocked, TypeOK, StockTypeOK, Item, NoRow, Row, AbsentIsNoRow
<1>5. NoOversell' /\ AnswersDurable'
  BY DEF NoOversell, AnswersDurable
<1> QED
  BY <1>1, <1>2, <1>3, <1>4, <1>5

LEMMA TrySelectRowAbsentIInv ==
  ASSUME IInv, NEW c \in Conn, pc[c] = "tryRow", reserve[tcc[c]] = NoRow,
         SelectRowForUpdate(c), Goto(c, "tryInsert")
  PROVE  IInv'
<1> USE DEF IInv, SelectRowForUpdate, RowUnlocked, Goto, stockVars
<1>a. tcc[c] \in Tcc /\ (reserve[tcc[c]] = NoRow => ~Present(tcc[c]))
  BY DEF ReadsAreLocked, Present
<1>b. /\ reserve[tcc[c]] = NoRow => gapLock' = [gapLock EXCEPT ![c] = Gap(tcc[c])] /\ UNCHANGED rowLock
      /\ reserve[tcc[c]] # NoRow => rowLock' = [rowLock EXCEPT ![tcc[c]] = c] /\ UNCHANGED gapLock
  OBVIOUS
<1>c. reserve[tcc[c]] = NoRow =>
         tcc[c] \in Gap(tcc[c]) /\ Gap(tcc[c]) \subseteq Tcc /\ \A u \in Gap(tcc[c]) : ~Present(u)
  BY <1>a, GapFacts
<1>1. TypeOK'
  BY <1>a, <1>b, <1>c DEF TypeOK, StockTypeOK, Location, ReadsAreLocked
<1>2. AbsentIsNoRow'
  BY DEF AbsentIsNoRow
<1>3. ReadsAreLocked'
  BY <1>a, <1>b, <1>c , NoneAssumption DEF ReadsAreLocked, SeenIsCurrent, TypeOK, StockTypeOK, Present, Item, NoRow, Row, AbsentIsNoRow
<1>4. SeenIsCurrent'
  BY DEF SeenIsCurrent, ReadsAreLocked, TypeOK, StockTypeOK, Item, NoRow, Row, AbsentIsNoRow
<1>5. NoOversell' /\ AnswersDurable'
  BY DEF NoOversell, AnswersDurable
<1> QED
  BY <1>1, <1>2, <1>3, <1>4, <1>5

LEMMA TryInsertIInv ==
  ASSUME IInv, NEW c \in Conn, TryInsert(c)
  PROVE  IInv'
<1> USE DEF IInv, TryInsert, InsertRow, InsertBlockedBy, Goto, stockVars
<1>1. TypeOK'
  BY DEF TypeOK, StockTypeOK, Location, ReadsAreLocked
<1>2. AbsentIsNoRow'
  BY DEF AbsentIsNoRow
<1>3. ReadsAreLocked'
  BY NoneAssumption DEF ReadsAreLocked, SeenIsCurrent, TypeOK, StockTypeOK, Present, Item, NoRow, Row, AbsentIsNoRow
<1>4. SeenIsCurrent'
  BY DEF SeenIsCurrent, ReadsAreLocked, TypeOK, StockTypeOK, Item, NoRow, Row, AbsentIsNoRow
<1>5. NoOversell' /\ AnswersDurable'
  BY DEF NoOversell, AnswersDurable
<1> QED
  BY <1>1, <1>2, <1>3, <1>4, <1>5

LEMMA ConfirmSelectRowInitIInv ==
  ASSUME IInv, NEW c \in Conn, pc[c] = "confirmRow", reserve[tcc[c]].status = "INIT",
         SelectRowForUpdate(c), Goto(c, "confirmCommit")
  PROVE  IInv'
<1> USE DEF IInv, SelectRowForUpdate, RowUnlocked, Goto, stockVars
<1>a. tcc[c] \in Tcc /\ (reserve[tcc[c]] = NoRow => ~Present(tcc[c]))
  BY DEF ReadsAreLocked, Present
<1>b. /\ reserve[tcc[c]] = NoRow => gapLock' = [gapLock EXCEPT ![c] = Gap(tcc[c])] /\ UNCHANGED rowLock
      /\ reserve[tcc[c]] # NoRow => rowLock' = [rowLock EXCEPT ![tcc[c]] = c] /\ UNCHANGED gapLock
  OBVIOUS
<1>c. reserve[tcc[c]] = NoRow =>
         tcc[c] \in Gap(tcc[c]) /\ Gap(tcc[c]) \subseteq Tcc /\ \A u \in Gap(tcc[c]) : ~Present(u)
  BY <1>a, GapFacts
<1>1. TypeOK'
  BY <1>a, <1>b, <1>c DEF TypeOK, StockTypeOK, Location, ReadsAreLocked
<1>2. AbsentIsNoRow'
  BY DEF AbsentIsNoRow
<1>3. ReadsAreLocked'
  BY <1>a, <1>b, <1>c , NoneAssumption DEF ReadsAreLocked, SeenIsCurrent, TypeOK, StockTypeOK, Present, Item, NoRow, Row, AbsentIsNoRow
<1>4. SeenIsCurrent'
  BY DEF SeenIsCurrent, ReadsAreLocked, TypeOK, StockTypeOK, Item, NoRow, Row, AbsentIsNoRow
<1>5. NoOversell' /\ AnswersDurable'
  BY DEF NoOversell, AnswersDurable
<1> QED
  BY <1>1, <1>2, <1>3, <1>4, <1>5

LEMMA CancelSelectItemIInv ==
  ASSUME IInv, NEW c \in Conn, CancelSelectItem(c)
  PROVE  IInv'
<1> USE DEF IInv, CancelSelectItem, SelectItemForUpdate, ItemUnlocked, Goto, stockVars
<1>1. TypeOK'
  BY DEF TypeOK, StockTypeOK, Location, ReadsAreLocked
<1>2. AbsentIsNoRow'
  BY DEF AbsentIsNoRow
<1>3. ReadsAreLocked'
  BY NoneAssumption DEF ReadsAreLocked, SeenIsCurrent, TypeOK, StockTypeOK, Present, Item, NoRow, Row, AbsentIsNoRow
<1>4. SeenIsCurrent'
  BY DEF SeenIsCurrent, ReadsAreLocked, TypeOK, StockTypeOK, Item, NoRow, Row, AbsentIsNoRow
<1>5. NoOversell' /\ AnswersDurable'
  BY DEF NoOversell, AnswersDurable
<1> QED
  BY <1>1, <1>2, <1>3, <1>4, <1>5

LEMMA CancelSelectRowOpenIInv ==
  ASSUME IInv, NEW c \in Conn, pc[c] = "cancelRow", reserve[tcc[c]].status \in {"INIT", "NONE"},
         SelectRowForUpdate(c),
         Goto(c, IF reserve[tcc[c]] = NoRow THEN "cancelInsert" ELSE "cancelCommit")
  PROVE  IInv'
<1> USE DEF IInv, SelectRowForUpdate, RowUnlocked, Goto, stockVars
<1>a. tcc[c] \in Tcc /\ (reserve[tcc[c]] = NoRow => ~Present(tcc[c]))
  BY DEF ReadsAreLocked, Present
<1>b. /\ reserve[tcc[c]] = NoRow => gapLock' = [gapLock EXCEPT ![c] = Gap(tcc[c])] /\ UNCHANGED rowLock
      /\ reserve[tcc[c]] # NoRow => rowLock' = [rowLock EXCEPT ![tcc[c]] = c] /\ UNCHANGED gapLock
  OBVIOUS
<1>c. reserve[tcc[c]] = NoRow =>
         tcc[c] \in Gap(tcc[c]) /\ Gap(tcc[c]) \subseteq Tcc /\ \A u \in Gap(tcc[c]) : ~Present(u)
  BY <1>a, GapFacts
<1>1. TypeOK'
  BY <1>a, <1>b, <1>c DEF TypeOK, StockTypeOK, Location, ReadsAreLocked
<1>2. AbsentIsNoRow'
  BY DEF AbsentIsNoRow
<1>3. ReadsAreLocked'
  BY <1>a, <1>b, <1>c , NoneAssumption DEF ReadsAreLocked, SeenIsCurrent, TypeOK, StockTypeOK, Present, Item, NoRow, Row, AbsentIsNoRow
<1>4. SeenIsCurrent'
  BY DEF SeenIsCurrent, ReadsAreLocked, TypeOK, StockTypeOK, Item, NoRow, Row, AbsentIsNoRow
<1>5. NoOversell' /\ AnswersDurable'
  BY DEF NoOversell, AnswersDurable
<1> QED
  BY <1>1, <1>2, <1>3, <1>4, <1>5

LEMMA CancelInsertIInv ==
  ASSUME IInv, NEW c \in Conn, CancelInsert(c)
  PROVE  IInv'
<1> USE DEF IInv, CancelInsert, InsertRow, InsertBlockedBy, Goto, stockVars
<1>1. TypeOK'
  BY DEF TypeOK, StockTypeOK, Location, ReadsAreLocked
<1>2. AbsentIsNoRow'
  BY DEF AbsentIsNoRow
<1>3. ReadsAreLocked'
  BY NoneAssumption DEF ReadsAreLocked, SeenIsCurrent, TypeOK, StockTypeOK, Present, Item, NoRow, Row, AbsentIsNoRow
<1>4. SeenIsCurrent'
  BY DEF SeenIsCurrent, ReadsAreLocked, TypeOK, StockTypeOK, Item, NoRow, Row, AbsentIsNoRow
<1>5. NoOversell' /\ AnswersDurable'
  BY DEF NoOversell, AnswersDurable
<1> QED
  BY <1>1, <1>2, <1>3, <1>4, <1>5

(***************************************************************************)
(* A commit writes the one row its connection has locked, and the stock of *)
(* the one item; every other connection has read other rows.               *)
(***************************************************************************)
LEMMA CommitIInv ==
  ASSUME IInv, NEW c \in Conn, NEW op \in Op, Done(c, op),
         NEW row \in RowType, row.status # "NONE",
         NEW stk \in Int,
         tcc[c] \in Tcc, rowLock[tcc[c]] = c, SetRow(tcc[c], row),
         \/ UNCHANGED stock
         \/ /\ Item(c) \in Items /\ itemLock[Item(c)] = c
            /\ stock' = [stock EXCEPT ![Item(c)] = stk] /\ stk >= 0,
         reserve[tcc[c]].status \in {"NONE", "INIT"},
         op = "confirm" => row.status = "CONFIRMED",
         op = "cancel" => row.status = "CANCELED"
  PROVE  IInv'
<1> USE DEF IInv, Done, SetRow
<1>1. TypeOK'
  <2>1. StockTypeOK'
    BY DEF TypeOK, StockTypeOK, Answered
  <2> QED
    BY <2>1, NoneAssumption DEF TypeOK, Release, Location, NoRow, Row, RowType
<1>2. AbsentIsNoRow'
  BY DEF AbsentIsNoRow, TypeOK, StockTypeOK
<1>3. ReadsAreLocked'
  <2>1. \A d \in Conn : \A t \in gapLock[d] : t # tcc[c]
    BY NoneAssumption DEF ReadsAreLocked, Present
  <2>2. \A d \in Conn : \A t \in gapLock'[d] : ~Present(t)'
    BY <2>1, NoneAssumption DEF ReadsAreLocked, Release, TypeOK, StockTypeOK, Present
  <2>3. pc'[c] = "idle"
    BY DEF Release, TypeOK
  <2>4. \A d \in Conn \ {c} : /\ pc'[d] = pc[d] /\ tcc'[d] = tcc[d] /\ gapLock'[d] = gapLock[d]
                              /\ seenStock'[d] = seenStock[d] /\ seenRow'[d] = seenRow[d]
    BY DEF Release, TypeOK
  <2>5. \A d \in Conn \ {c} : /\ \A i \in Items : itemLock[i] = d => itemLock'[i] = d
                              /\ \A t \in Tcc : rowLock[t] = d => rowLock'[t] = d
    BY DEF Release, TypeOK
  <2> QED
    BY <2>2, <2>3, <2>4, <2>5 DEF ReadsAreLocked, Item
<1>4. SeenIsCurrent'
  <2>1. ASSUME NEW d \in Conn, d # c, pc[d] # "idle" PROVE
          /\ pc'[d] = pc[d] /\ tcc'[d] = tcc[d]
          /\ seenStock'[d] = seenStock[d] /\ seenRow'[d] = seenRow[d]
    BY <2>1 DEF Release, TypeOK
  <2>2. pc'[c] = "idle"
    BY DEF Release, TypeOK
  <2>3. ASSUME NEW d \in Conn, d # c,
               pc[d] \in {"tryRow", "tryInsert", "tryCommit",
                          "cancelRow", "cancelInsert", "cancelCommit"}
        PROVE  stock'[Item(d)] = stock[Item(d)]
    BY <2>3 DEF ReadsAreLocked, TypeOK, StockTypeOK
  <2>4. ASSUME NEW d \in Conn, d # c,
               pc[d] \in {"tryInsert", "tryCommit", "confirmCommit",
                          "cancelInsert", "cancelCommit"}
        PROVE  reserve'[tcc[d]] = reserve[tcc[d]]
    <3>1. tcc[d] # tcc[c]
      BY <2>4, NoneAssumption DEF ReadsAreLocked, Present
    <3> QED
      BY <3>1 DEF TypeOK, StockTypeOK
  <2> QED
    BY <2>1, <2>2, <2>3, <2>4 DEF SeenIsCurrent, Item, Release, TypeOK
<1>5. NoOversell'
  BY DEF NoOversell, TypeOK, StockTypeOK
<1>6. AnswersDurable'
  <2>1. <<"confirm", tcc[c]>> \notin stockAcked /\ <<"cancel", tcc[c]>> \notin stockAcked
    BY DEF AnswersDurable
  <2>2. /\ \A t \in Tcc \ {tcc[c]} : reserve'[t] = reserve[t]
        /\ reserve'[tcc[c]] = row /\ row # NoRow
    BY DEF TypeOK, StockTypeOK, NoRow, Row
  <2>3. stockAcked' \subseteq stockAcked \cup {<<op, tcc[c]>>}
    BY DEF Answered
  <2> QED
    BY <2>1, <2>2, <2>3 DEF AnswersDurable, Op
<1> QED
  BY <1>1, <1>2, <1>3, <1>4, <1>5, <1>6

LEMMA TryCommitIInv ==
  ASSUME IInv, NEW c \in Conn, TryCommit(c) PROVE IInv'
<1> USE DEF IInv, TryCommit, ReadsAreLocked
<1>1. /\ tcc[c] \in Tcc /\ rowLock[tcc[c]] = c /\ reserve[tcc[c]].status = "NONE"
      /\ Item(c) \in Items /\ itemLock[Item(c)] = c
  BY DEF SeenIsCurrent, NoRow, Row
<1>2. Row(Count[tcc[c]], "INIT") \in RowType /\ Row(Count[tcc[c]], "INIT").status = "INIT"
  BY <1>1, CountAssumption DEF Row, RowType, ReserveStatus
<1>3. seenStock[c] - Count[tcc[c]] \in Int /\ seenStock[c] - Count[tcc[c]] >= 0
  BY <1>1, CountAssumption DEF TypeOK
<1> DEFINE stk == seenStock[c] - Count[tcc[c]]
           row == Row(Count[tcc[c]], "INIT")
<1>4. stock' = [stock EXCEPT ![Item(c)] = stk] /\ Done(c, "try") /\ SetRow(tcc[c], row)
  OBVIOUS
<1>5. "try" \in Op /\ row.status # "NONE"
  BY <1>2 DEF Op
<1> HIDE DEF stk, row, TryCommit, ReadsAreLocked
<1> QED
  BY <1>1, <1>2, <1>3, <1>4, <1>5, CommitIInv DEF stk, row

LEMMA ConfirmCommitIInv ==
  ASSUME IInv, NEW c \in Conn, ConfirmCommit(c) PROVE IInv'
<1> USE DEF IInv, ConfirmCommit, ReadsAreLocked
<1>1. tcc[c] \in Tcc /\ rowLock[tcc[c]] = c /\ reserve[tcc[c]].status = "INIT"
  BY DEF SeenIsCurrent
<1>2. /\ Row(seenRow[c].amount, "CONFIRMED") \in RowType
      /\ Row(seenRow[c].amount, "CONFIRMED").status = "CONFIRMED"
  BY DEF TypeOK, Row, RowType, ReserveStatus
<1> QED
  BY <1>1, <1>2, CommitIInv DEF Op

LEMMA CancelCommitIInv ==
  ASSUME IInv, NEW c \in Conn, CancelCommit(c) PROVE IInv'
<1> USE DEF IInv, CancelCommit, ReadsAreLocked
<1>1. /\ tcc[c] \in Tcc /\ rowLock[tcc[c]] = c /\ reserve[tcc[c]].status \in {"NONE", "INIT"}
      /\ Item(c) \in Items /\ itemLock[Item(c)] = c /\ seenStock[c] = stock[Item(c)]
  BY DEF SeenIsCurrent, NoRow, Row
<1>2. /\ Row(seenRow[c].amount, "CANCELED") \in RowType
      /\ Row(seenRow[c].amount, "CANCELED").status = "CANCELED"
      /\ seenRow[c].amount \in Nat
  BY DEF TypeOK, Row, RowType, ReserveStatus
<1>3. seenStock[c] + seenRow[c].amount \in Int /\ seenStock[c] + seenRow[c].amount >= 0
  BY <1>1, <1>2 DEF TypeOK, StockTypeOK, NoOversell
<1> DEFINE stk == seenStock[c] + seenRow[c].amount
           row == Row(seenRow[c].amount, "CANCELED")
<1>4. UNCHANGED stock \/ stock' = [stock EXCEPT ![Item(c)] = stk]
  OBVIOUS
<1>5. Done(c, "cancel") /\ SetRow(tcc[c], row)
  OBVIOUS
<1>6. "cancel" \in Op /\ row.status # "NONE"
  BY <1>2 DEF Op
<1> HIDE DEF stk, row, CancelCommit, ReadsAreLocked
<1> QED
  BY <1>1, <1>2, <1>3, <1>4, <1>5, <1>6, CommitIInv DEF stk, row

LEMMA StepIInv ==
  ASSUME IInv, NEW c \in Conn, Step(c) PROVE IInv'
<1>1. CASE TrySelectItem(c)
  BY <1>1, TrySelectItemIInv
<1>2. CASE TrySelectRow(c)
  <2>1. CASE reserve[tcc[c]] = NoRow
    BY <1>2, <2>1, TrySelectRowAbsentIInv DEF TrySelectRow
  <2>2. CASE reserve[tcc[c]] # NoRow
    BY <1>2, <2>2, RepeatIInv DEF TrySelectRow, Op, IInv, ReadsAreLocked
  <2> QED
    BY <2>1, <2>2
<1>3. CASE TryInsert(c)
  BY <1>3, TryInsertIInv
<1>4. CASE TryCommit(c)
  BY <1>4, TryCommitIInv
<1>5. CASE ConfirmSelectRow(c)
  <2>1. CASE reserve[tcc[c]].status = "INIT"
    BY <1>5, <2>1, ConfirmSelectRowInitIInv DEF ConfirmSelectRow
  <2>2. CASE reserve[tcc[c]].status = "CONFIRMED"
    BY <1>5, <2>2, RepeatIInv DEF ConfirmSelectRow, Op, IInv, ReadsAreLocked
  <2> QED
    BY <1>5, <2>1, <2>2 DEF ConfirmSelectRow
<1>6. CASE ConfirmCommit(c)
  BY <1>6, ConfirmCommitIInv
<1>7. CASE CancelSelectItem(c)
  BY <1>7, CancelSelectItemIInv
<1>8. CASE CancelSelectRow(c)
  <2>1. CASE reserve[tcc[c]].status \in {"INIT", "NONE"}
    BY <1>8, <2>1, CancelSelectRowOpenIInv DEF CancelSelectRow
  <2>2. CASE reserve[tcc[c]].status = "CANCELED"
    BY <1>8, <2>2, RepeatIInv DEF CancelSelectRow, Op, IInv, ReadsAreLocked
  <2> QED
    BY <1>8, <2>1, <2>2 DEF CancelSelectRow
<1>9. CASE CancelInsert(c)
  BY <1>9, CancelInsertIInv
<1>10. CASE CancelCommit(c)
  BY <1>10, CancelCommitIInv
<1>11. CASE Refuse(c)
  BY <1>11, RollbackIInv DEF Refuse
<1> QED
  BY <1>1, <1>2, <1>3, <1>4, <1>5, <1>6, <1>7, <1>8, <1>9, <1>10, <1>11 DEF Step

LEMMA NextIInv == IInv /\ [Next]_vars => IInv'
<1> SUFFICES ASSUME IInv, [Next]_vars PROVE IInv'
  OBVIOUS
<1>1. ASSUME NEW c \in Conn, NEW t \in Tcc, Call(c, t) PROVE IInv'
  BY <1>1, CallIInv
<1>2. ASSUME NEW c \in Conn, Step(c) PROVE IInv'
  BY <1>2, StepIInv
<1>3. ASSUME NEW c \in Conn, DeadlockVictim(c) \/ Fail(c) PROVE IInv'
  BY <1>3, RollbackIInv DEF DeadlockVictim, Fail
<1>4. CASE UNCHANGED vars
  BY <1>4 DEF vars, stockVars, locks, locals, IInv, TypeOK, StockTypeOK, AbsentIsNoRow,
              ReadsAreLocked, SeenIsCurrent, NoOversell, AnswersDurable, Present, Item
<1> QED
  BY <1>1, <1>2, <1>3, <1>4 DEF Next

(***************************************************************************)
(* The inductive invariant holds in every state.                           *)
(***************************************************************************)
THEOREM StockTxInvariant == Spec => []IInv
BY InitIInv, NextIInv, PTL DEF Spec

(* No call ever computes with a stock or a reservation that has changed. *)
THEOREM NoLostUpdate == Spec => []SeenIsCurrent
<1>1. IInv => SeenIsCurrent
  BY DEF IInv
<1> QED
  BY <1>1, StockTxInvariant, PTL

(* No item is sold that is not there (the stock never falls below zero). *)
THEOREM StockNeverNegative == Spec => []NoOversell
<1>1. IInv => NoOversell
  BY DEF IInv
<1> QED
  BY <1>1, StockTxInvariant, PTL

(* What a caller of the stock service was told stays so for ever. *)
THEOREM StockAnswersDurable == Spec => []AnswersDurable
<1>1. IInv => AnswersDurable
  BY DEF IInv
<1> QED
  BY <1>1, StockTxInvariant, PTL

-----------------------------------------------------------------------------
(* Every step of a call is a step of the contract TccStock, or a stutter. *)

LEMMA RepeatImplements ==
  ASSUME NEW c \in Conn, NEW op \in Op, tcc[c] \in Tcc, Done(c, op),
         UNCHANGED <<stock, reserve>>,
         op = "try" => TryDoneBefore(tcc[c]),
         op = "confirm" => ConfirmDoneBefore(tcc[c]),
         op = "cancel" => CancelDoneBefore(tcc[c])
  PROVE  [StockNext]_stockVars
<1>1. PICK reply \in {"true", "exn"} : stockAcked' = Answered(stockAcked, op, tcc[c], reply)
  BY DEF Done
<1>2. CASE reply = "true"
  <2>1. \/ TryReserveStock(tcc[c], reply)
        \/ ConfirmReserveStock(tcc[c], reply)
        \/ CancelReserveStock(tcc[c], reply)
    BY <1>1, <1>2 DEF Op, TryReserveStock, ConfirmReserveStock, CancelReserveStock, NoEffect
  <2> QED
    BY <1>2, <2>1 DEF StockNext, Reply
<1>3. CASE reply = "exn"
  BY <1>1, <1>3 DEF Answered, stockVars
<1> QED
  BY <1>1, <1>2, <1>3

LEMMA CommitImplements ==
  ASSUME NEW c \in Conn, NEW op \in Op, tcc[c] \in Tcc, Done(c, op),
         op = "try" => TryTakesEffect(tcc[c]),
         op = "confirm" => ConfirmTakesEffect(tcc[c]),
         op = "cancel" => CancelTakesEffect(tcc[c])
  PROVE  StockNext
<1>1. PICK reply \in {"true", "exn"} : stockAcked' = Answered(stockAcked, op, tcc[c], reply)
  BY DEF Done
<1>2. \/ TryReserveStock(tcc[c], reply)
      \/ ConfirmReserveStock(tcc[c], reply)
      \/ CancelReserveStock(tcc[c], reply)
  BY <1>1 DEF Op, TryReserveStock, ConfirmReserveStock, CancelReserveStock
<1> QED
  BY <1>1, <1>2 DEF StockNext, Reply

LEMMA TryCommitTakesEffect ==
  ASSUME IInv, NEW c \in Conn, TryCommit(c)
  PROVE  tcc[c] \in Tcc /\ TryTakesEffect(tcc[c])
<1>1. /\ tcc[c] \in Tcc /\ Item(c) \in Items /\ seenStock[c] = stock[Item(c)]
      /\ seenStock[c] >= Count[tcc[c]] /\ Count[tcc[c]] >= 0 /\ reserve[tcc[c]] = NoRow
  BY DEF IInv, TryCommit, ReadsAreLocked, SeenIsCurrent
<1>2. EnoughStock(tcc[c])
  BY <1>1 DEF EnoughStock, Item
<1>3. AddStock(tcc[c], -Count[tcc[c]])
  BY <1>1, CountAssumption DEF AddStock, TryCommit, IInv, TypeOK, StockTypeOK, Item
<1> QED
  BY <1>1, <1>2, <1>3 DEF TryTakesEffect, TryCommit

LEMMA ConfirmCommitTakesEffect ==
  ASSUME IInv, NEW c \in Conn, ConfirmCommit(c)
  PROVE  tcc[c] \in Tcc /\ ConfirmTakesEffect(tcc[c])
BY DEF IInv, ConfirmCommit, ReadsAreLocked, SeenIsCurrent, ConfirmTakesEffect

LEMMA CancelCommitTakesEffect ==
  ASSUME IInv, NEW c \in Conn, CancelCommit(c)
  PROVE  tcc[c] \in Tcc /\ CancelTakesEffect(tcc[c])
<1>1. /\ tcc[c] \in Tcc /\ Item(c) \in Items
      /\ seenStock[c] = stock[Item(c)] /\ seenRow[c] = reserve[tcc[c]]
      /\ seenRow[c] = NoRow \/ seenRow[c].status = "INIT"
  BY DEF IInv, CancelCommit, ReadsAreLocked, SeenIsCurrent
<1>2. CASE seenRow[c] = NoRow
  BY <1>1, <1>2 DEF CancelCommit, CancelTakesEffect, Item, NoRow, Row
<1>3. CASE seenRow[c] # NoRow
  BY <1>1, <1>3 DEF CancelCommit, CancelTakesEffect, AddStock, Item
<1> QED
  BY <1>2, <1>3

LEMMA StepImplements ==
  ASSUME IInv, NEW c \in Conn, Step(c) PROVE [StockNext]_stockVars
<1> USE DEF IInv
<1>1. CASE TrySelectItem(c) \/ TryInsert(c) \/ CancelSelectItem(c) \/ CancelInsert(c)
  BY <1>1 DEF TrySelectItem, TryInsert, CancelSelectItem, CancelInsert,
              SelectItemForUpdate, InsertRow
<1>2. CASE TrySelectRow(c)
  <2>1. CASE reserve[tcc[c]] = NoRow
    BY <1>2, <2>1 DEF TrySelectRow, SelectRowForUpdate
  <2>2. CASE reserve[tcc[c]] # NoRow
    <3>1. tcc[c] \in Tcc /\ TryDoneBefore(tcc[c])
      BY <1>2, <2>2 DEF TrySelectRow, ReadsAreLocked, SeenIsCurrent, TryDoneBefore,
                        EnoughStock, Item
    <3>2. Done(c, "try") /\ UNCHANGED <<stock, reserve>>
      BY <1>2, <2>2 DEF TrySelectRow
    <3> QED
      BY <3>1, <3>2, RepeatImplements DEF Op
  <2> QED
    BY <2>1, <2>2
<1>3. CASE TryCommit(c)
  <2>1. Done(c, "try")
    BY <1>3 DEF TryCommit
  <2> QED
    BY <1>3, <2>1, TryCommitTakesEffect, CommitImplements DEF Op
<1>4. CASE ConfirmSelectRow(c)
  <2>1. CASE reserve[tcc[c]].status = "INIT"
    BY <1>4, <2>1 DEF ConfirmSelectRow, SelectRowForUpdate
  <2>2. CASE reserve[tcc[c]].status # "INIT"
    BY <1>4, <2>2, RepeatImplements DEF ConfirmSelectRow, ReadsAreLocked, ConfirmDoneBefore, Op
  <2> QED
    BY <2>1, <2>2
<1>5. CASE ConfirmCommit(c)
  <2>1. Done(c, "confirm")
    BY <1>5 DEF ConfirmCommit
  <2> QED
    BY <1>5, <2>1, ConfirmCommitTakesEffect, CommitImplements DEF Op
<1>6. CASE CancelSelectRow(c)
  <2>1. CASE reserve[tcc[c]].status \in {"INIT", "NONE"}
    BY <1>6, <2>1 DEF CancelSelectRow, SelectRowForUpdate
  <2>2. CASE reserve[tcc[c]].status \notin {"INIT", "NONE"}
    <3>1. tcc[c] \in Tcc /\ CancelDoneBefore(tcc[c])
      BY <1>6, <2>2 DEF CancelSelectRow, ReadsAreLocked, CancelDoneBefore, Item
    <3>2. Done(c, "cancel") /\ UNCHANGED <<stock, reserve>>
      BY <1>6, <2>2 DEF CancelSelectRow
    <3> QED
      BY <3>1, <3>2, RepeatImplements DEF Op
  <2> QED
    BY <2>1, <2>2
<1>7. CASE CancelCommit(c)
  <2>1. Done(c, "cancel")
    BY <1>7 DEF CancelCommit
  <2> QED
    BY <1>7, <2>1, CancelCommitTakesEffect, CommitImplements DEF Op
<1>8. CASE Refuse(c)
  BY <1>8 DEF Refuse, Rollback
<1> QED
  BY <1>1, <1>2, <1>3, <1>4, <1>5, <1>6, <1>7, <1>8 DEF Step

LEMMA NextImplements == IInv /\ [Next]_vars => [StockNext]_stockVars
<1> SUFFICES ASSUME IInv, [Next]_vars PROVE [StockNext]_stockVars
  OBVIOUS
<1>1. ASSUME NEW c \in Conn, Step(c) PROVE [StockNext]_stockVars
  BY <1>1, StepImplements
<1>2. ASSUME NEW c \in Conn, (\E t \in Tcc : Call(c, t)) \/ DeadlockVictim(c) \/ Fail(c)
      PROVE  UNCHANGED stockVars
  BY <1>2 DEF Call, DeadlockVictim, Fail, Rollback
<1>3. CASE UNCHANGED vars
  BY <1>3 DEF vars
<1> QED
  BY <1>1, <1>2, <1>3 DEF Next

(***************************************************************************)
(* The statements of ItemStockService, interleaved with those of any other *)
(* call, implement the three atomic operations: ItemStockService is        *)
(* linearizable, its calls taking effect at their commits.                 *)
(***************************************************************************)
THEOREM StockTxImplementsStock == Spec => StockSpec
<1>1. Init => StockInit
  BY DEF Init
<1> QED
  BY <1>1, NextImplements, StockTxInvariant, PTL DEF Spec, StockSpec

(***************************************************************************)
(* So they keep what the contract promises: no interleaving of statements, *)
(* rollback or deadlock loses an item of the stock or makes one.           *)
(***************************************************************************)
THEOREM StockTxConserves == Spec => []Conservation
BY StockTxImplementsStock, StockConserved, PTL

-----------------------------------------------------------------------------
(* Every step moves between stock and reservation what it takes of either. *)

Moves(t) ==
  /\ \A u \in Tcc \ {t} : reserve'[u] = reserve[u]
  /\ \A i \in Items : stock'[i] + (IF i = ItemOf[t] THEN Held(t)' ELSE 0)
                    = stock[i] + (IF i = ItemOf[t] THEN Held(t) ELSE 0)

LEMMA EffectMoves ==
  ASSUME IInv, NEW t \in Tcc,
         TryTakesEffect(t) \/ ConfirmTakesEffect(t) \/ CancelTakesEffect(t)
  PROVE  Moves(t) /\ reserve'[t] # reserve[t]
<1> USE DEF IInv, TypeOK, StockTypeOK, RowType, SetRow, AddStock, Moves, Held
<1>1. reserve[t] \in RowType /\ reserve[t].amount \in Int /\ Count[t] \in Int
      /\ \A i \in Items : stock[i] \in Int
  BY CountAssumption
<1>2. CASE TryTakesEffect(t)
  BY <1>1, <1>2 DEF TryTakesEffect, EnoughStock, NoRow, Row
<1>3. CASE ConfirmTakesEffect(t)
  BY <1>1, <1>3 DEF ConfirmTakesEffect, Row
<1>4. CASE CancelTakesEffect(t)
  <2>1. CASE reserve[t] = NoRow
    BY <1>1, <1>4, <2>1 DEF CancelTakesEffect, NoRow, Row
  <2>2. CASE reserve[t].status = "INIT"
    BY <1>1, <1>4, <2>2 DEF CancelTakesEffect, NoRow, Row
  <2> QED
    BY <1>4, <2>1, <2>2 DEF CancelTakesEffect
<1> QED
  BY <1>2, <1>3, <1>4

LEMMA ContractMoves ==
  ASSUME IInv, [StockNext]_stockVars
  PROVE  \/ UNCHANGED <<stock, reserve>>
         \/ \E t \in Tcc : Moves(t) /\ reserve'[t] # reserve[t]
<1>1. CASE UNCHANGED stockVars
  BY <1>1 DEF stockVars
<1>2. ASSUME NEW t \in Tcc, NEW reply \in Reply,
             \/ TryReserveStock(t, reply)
             \/ ConfirmReserveStock(t, reply)
             \/ CancelReserveStock(t, reply)
      PROVE  UNCHANGED <<stock, reserve>> \/ (Moves(t) /\ reserve'[t] # reserve[t])
  BY <1>2, EffectMoves DEF TryReserveStock, ConfirmReserveStock, CancelReserveStock, NoEffect
<1> QED
  BY <1>1, <1>2 DEF StockNext

(***************************************************************************)
(* Conservation step by step: a step that changes a reservation changes    *)
(* one, moves its amount from or to the stock of its item, and nothing     *)
(* else moves stock.                                                       *)
(***************************************************************************)
THEOREM StockMoves == Spec => StockMovesWithReservation
<1> DEFINE Step1 == /\ \A t \in Tcc : reserve'[t] # reserve[t] => Moves(t)
                    /\ UNCHANGED reserve => UNCHANGED stock
<1>1. IInv /\ [Next]_vars => Step1
  <2> SUFFICES ASSUME IInv, [Next]_vars PROVE Step1
    OBVIOUS
  <2>1. CASE UNCHANGED <<stock, reserve>>
    BY <2>1
  <2>2. ASSUME NEW t \in Tcc, Moves(t), reserve'[t] # reserve[t] PROVE Step1
    <3>1. \A u \in Tcc : reserve'[u] # reserve[u] => u = t
      BY <2>2 DEF Moves
    <3>2. ~UNCHANGED reserve
      BY <2>2
    <3> QED
      BY <2>2, <3>1, <3>2
  <2> QED
    BY <2>1, <2>2, NextImplements, ContractMoves
<1>2. IInv /\ [Next]_vars =>
        [/\ \A t \in Tcc : reserve'[t] # reserve[t] =>
              /\ \A u \in Tcc \ {t} : reserve'[u] = reserve[u]
              /\ \A i \in Items : stock'[i] + (IF i = ItemOf[t] THEN Held(t)' ELSE 0)
                                = stock[i] + (IF i = ItemOf[t] THEN Held(t) ELSE 0)
         /\ UNCHANGED reserve => UNCHANGED stock]_vars
  BY <1>1 DEF Moves
<1> QED
  BY <1>2, StockTxInvariant, PTL DEF Spec, StockMovesWithReservation

=============================================================================
