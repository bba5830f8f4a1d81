----------------------------- MODULE TccStockTx -----------------------------
(***************************************************************************)
(* com.clpsz.service.ItemStockService statement by statement: concurrent   *)
(* JDBC connections, each running one call, over the InnoDB locks taken by *)
(* its SELECT ... FOR UPDATE and INSERT statements (repeatable read).      *)
(*                                                                         *)
(* The locks are those of MySQL: a selected row is locked exclusively; a   *)
(* select that finds no row locks the gap around the absent key, which     *)
(* conflicts with nothing but the INSERT of a key into that gap.  A row    *)
(* inserted and not yet committed is locked by its inserter.  All writes   *)
(* of a call become visible at its commit, and close() without a commit    *)
(* rolls back.                                                             *)
(***************************************************************************)
EXTENDS TccStock

CONSTANTS Conn,       \* JDBC connections (threads of the program)
          None        \* no connection, no transaction

ASSUME TccAssumption  == Tcc \subseteq Nat      \* tcc_id is the key order
ASSUME NoneAssumption == None \notin Conn /\ None \notin Tcc

VARIABLES itemLock,   \* who holds the row of item_table
          rowLock,    \* who holds the row of item_reserve_stock_table
          gapLock,    \* absent keys covered by the gap locks of a connection
          pc,         \* next statement of the call the connection runs
          tcc,        \* its argument tccId
          seenStock,  \* item.getStock() as selected
          seenRow     \* itemReserveStock as selected, NoRow for null

locals == <<pc, tcc, seenStock, seenRow>>
locks  == <<itemLock, rowLock, gapLock>>
vars   == <<stockVars, locks, locals>>

Location == {"idle",
             "tryItem", "tryRow", "tryInsert", "tryCommit",
             "confirmRow", "confirmCommit",
             "cancelItem", "cancelRow", "cancelInsert", "cancelCommit"}

TypeOK ==
  /\ StockTypeOK
  /\ itemLock \in [Items -> Conn \cup {None}]
  /\ rowLock \in [Tcc -> Conn \cup {None}]
  /\ gapLock \in [Conn -> SUBSET Tcc]
  /\ pc \in [Conn -> Location]
  /\ tcc \in [Conn -> Tcc \cup {None}]
  /\ seenStock \in [Conn -> Int]
  /\ seenRow \in [Conn -> RowType]

Init ==
  /\ StockInit
  /\ itemLock = [i \in Items |-> None]
  /\ rowLock = [t \in Tcc |-> None]
  /\ gapLock = [c \in Conn |-> {}]
  /\ pc = [c \in Conn |-> "idle"]
  /\ tcc = [c \in Conn |-> None]
  /\ seenStock = [c \in Conn |-> 0]
  /\ seenRow = [c \in Conn |-> NoRow]

-----------------------------------------------------------------------------
(* The locks of InnoDB. *)

Item(c) == ItemOf[tcc[c]]

Present(t) == reserve[t] # NoRow \/ rowLock[t] # None

Between(t, v, u) == (t < v /\ v < u) \/ (u < v /\ v < t)

(* The absent keys in the gap of the index idx_tcc_id that t falls into. *)
Gap(t) == {u \in Tcc : /\ ~Present(u)
                       /\ \A v \in Tcc : Present(v) => ~Between(t, v, u)}

(* Ending the transaction, by commit() or by close(), frees every lock. *)
Release(c) ==
  /\ itemLock' = [i \in Items |-> IF itemLock[i] = c THEN None ELSE itemLock[i]]
  /\ rowLock' = [t \in Tcc |-> IF rowLock[t] = c THEN None ELSE rowLock[t]]
  /\ gapLock' = [gapLock EXCEPT ![c] = {}]
  /\ pc' = [pc EXCEPT ![c] = "idle"]
  /\ tcc' = [tcc EXCEPT ![c] = None]
  /\ seenStock' = [seenStock EXCEPT ![c] = 0]
  /\ seenRow' = [seenRow EXCEPT ![c] = NoRow]

(* The call ends having done what it promises; close() may still throw. *)
Done(c, op) ==
  /\ \E reply \in {"true", "exn"} :
       stockAcked' = Answered(stockAcked, op, tcc[c], reply)
  /\ Release(c)

Goto(c, location) == pc' = [pc EXCEPT ![c] = location]

-----------------------------------------------------------------------------
(* The statements of ItemDao and ItemReserveStockDao that lock. *)

ItemUnlocked(c) == Item(c) \in Items /\ itemLock[Item(c)] = None

(* Mutant: the select is ItemDao.selectById, without FOR UPDATE. *)
SelectItemWithoutLock(c) ==
  /\ Item(c) \in Items
  /\ seenStock' = [seenStock EXCEPT ![c] = stock[Item(c)]]
  /\ UNCHANGED <<stockVars, locks, tcc, seenRow>>

SelectItemForUpdate(c) ==
  /\ ItemUnlocked(c)
  /\ itemLock' = [itemLock EXCEPT ![Item(c)] = c]
  /\ seenStock' = [seenStock EXCEPT ![c] = stock[Item(c)]]
  /\ UNCHANGED <<stockVars, rowLock, gapLock, tcc, seenRow>>

RowUnlocked(c) == rowLock[tcc[c]] = None

SelectRowForUpdate(c) ==
  /\ RowUnlocked(c)
  /\ IF reserve[tcc[c]] = NoRow
       THEN /\ gapLock' = [gapLock EXCEPT ![c] = Gap(tcc[c])]
            /\ UNCHANGED rowLock
       ELSE /\ rowLock' = [rowLock EXCEPT ![tcc[c]] = c]
            /\ UNCHANGED gapLock
  /\ seenRow' = [seenRow EXCEPT ![c] = reserve[tcc[c]]]
  /\ UNCHANGED <<stockVars, itemLock, tcc, seenStock>>

InsertBlockedBy(c, d) == d # c /\ tcc[c] \in gapLock[d]

InsertRow(c) ==
  /\ \A d \in Conn : ~InsertBlockedBy(c, d)
  /\ rowLock' = [rowLock EXCEPT ![tcc[c]] = c]
  /\ gapLock' = [gapLock EXCEPT ![c] = @ \ {tcc[c]}]
  /\ UNCHANGED <<stockVars, itemLock, tcc, seenStock, seenRow>>

-----------------------------------------------------------------------------
Call(c, t) ==
  /\ pc[c] = "idle"
  /\ \E start \in {"tryItem", "confirmRow", "cancelItem"} : Goto(c, start)
  /\ tcc' = [tcc EXCEPT ![c] = t]
  /\ UNCHANGED <<stockVars, locks, seenStock, seenRow>>

(* Mutant: the check of the remaining stock is missing. *)
TrySelectItemUnchecked(c) ==
  /\ pc[c] = "tryItem"
  /\ SelectItemForUpdate(c)
  /\ Goto(c, "tryRow")

(* tryReserveStock *)
TrySelectItem(c) ==
  /\ pc[c] = "tryItem"
  /\ SelectItemForUpdate(c)
  /\ stock[Item(c)] >= Count[tcc[c]]
  /\ Goto(c, "tryRow")

(* Mutant: the early return leaves the connection open. *)
TrySelectRowUnclosed(c) ==
  /\ pc[c] = "tryRow"
  /\ \/ /\ reserve[tcc[c]] = NoRow
        /\ SelectRowForUpdate(c)
        /\ Goto(c, "tryInsert")
     \/ /\ RowUnlocked(c) /\ reserve[tcc[c]] # NoRow
        /\ Goto(c, "idle")
        /\ UNCHANGED <<stockVars, locks, tcc, seenStock, seenRow>>

TrySelectRow(c) ==
  /\ pc[c] = "tryRow"
  /\ \/ /\ reserve[tcc[c]] = NoRow
        /\ SelectRowForUpdate(c)
        /\ Goto(c, "tryInsert")
     \/ /\ RowUnlocked(c) /\ reserve[tcc[c]] # NoRow    \* already reserved
        /\ Done(c, "try")
        /\ UNCHANGED <<stock, reserve>>

TryInsert(c) ==
  /\ pc[c] = "tryInsert" /\ Count[tcc[c]] >= 0
  /\ InsertRow(c)
  /\ Goto(c, "tryCommit")

TryCommit(c) ==
  /\ pc[c] = "tryCommit"
  /\ SetRow(tcc[c], Row(Count[tcc[c]], "INIT"))
  /\ stock' = [stock EXCEPT ![Item(c)] = seenStock[c] - Count[tcc[c]]]
  /\ Done(c, "try")

(* confirmReserveStock *)
ConfirmSelectRow(c) ==
  /\ pc[c] = "confirmRow"
  /\ \/ /\ reserve[tcc[c]].status = "INIT"
        /\ SelectRowForUpdate(c)
        /\ Goto(c, "confirmCommit")
     \/ /\ RowUnlocked(c) /\ reserve[tcc[c]].status = "CONFIRMED"
        /\ Done(c, "confirm")
        /\ UNCHANGED <<stock, reserve>>

ConfirmCommit(c) ==
  /\ pc[c] = "confirmCommit"
  /\ SetRow(tcc[c], Row(seenRow[c].amount, "CONFIRMED"))
  /\ UNCHANGED stock
  /\ Done(c, "confirm")

(* cancelReserveStock *)
CancelSelectItem(c) ==
  /\ pc[c] = "cancelItem"
  /\ SelectItemForUpdate(c)
  /\ Goto(c, "cancelRow")

(* Mutant: a confirmed reservation can be canceled. *)
CancelSelectRowAny(c) ==
  /\ pc[c] = "cancelRow"
  /\ SelectRowForUpdate(c)
  /\ Goto(c, IF reserve[tcc[c]] = NoRow THEN "cancelInsert" ELSE "cancelCommit")

CancelSelectRow(c) ==
  /\ pc[c] = "cancelRow"
  /\ \/ /\ reserve[tcc[c]].status \in {"INIT", "NONE"}
        /\ SelectRowForUpdate(c)
        /\ Goto(c, IF reserve[tcc[c]] = NoRow THEN "cancelInsert" ELSE "cancelCommit")
     \/ /\ RowUnlocked(c) /\ reserve[tcc[c]].status = "CANCELED"
        /\ Done(c, "cancel")
        /\ UNCHANGED <<stock, reserve>>

(* Mutant: a cancel without a try returns before its commit. *)
CancelInsertUncommitted(c) ==
  /\ pc[c] = "cancelInsert"
  /\ \A d \in Conn : ~InsertBlockedBy(c, d)
  /\ Done(c, "cancel")
  /\ UNCHANGED <<stock, reserve>>

CancelInsert(c) ==
  /\ pc[c] = "cancelInsert"
  /\ InsertRow(c)
  /\ Goto(c, "cancelCommit")

(* Mutant: the stock is given back from the request, not from the reservation. *)
CancelCommitRequested(c) ==
  /\ pc[c] = "cancelCommit"
  /\ SetRow(tcc[c], Row(seenRow[c].amount, "CANCELED"))
  /\ stock' = [stock EXCEPT ![Item(c)] = seenStock[c] + Count[tcc[c]]]
  /\ Done(c, "cancel")

CancelCommit(c) ==
  /\ pc[c] = "cancelCommit"
  /\ SetRow(tcc[c], Row(seenRow[c].amount, "CANCELED"))
  /\ IF seenRow[c] = NoRow
       THEN UNCHANGED stock
       ELSE stock' = [stock EXCEPT ![Item(c)] = seenStock[c] + seenRow[c].amount]
  /\ Done(c, "cancel")

-----------------------------------------------------------------------------
(* The exceptions the code throws, or the database for an unsigned column. *)
Refused(c) ==
  \/ pc[c] \in {"tryItem", "cancelItem"} /\ Item(c) \notin Items
  \/ pc[c] = "tryItem" /\ ItemUnlocked(c) /\ stock[Item(c)] < Count[tcc[c]]
  \/ pc[c] = "tryInsert" /\ Count[tcc[c]] < 0        \* BIGINT UNSIGNED
  \/ /\ pc[c] = "confirmRow" /\ RowUnlocked(c)
     /\ reserve[tcc[c]].status \in {"NONE", "CANCELED"}
  \/ /\ pc[c] = "cancelRow" /\ RowUnlocked(c)
     /\ reserve[tcc[c]].status = "CONFIRMED"

(* Mutant: the tryReserveStock inserts and updates are not undone. *)
RollbackCommits(c) ==
  /\ Release(c)
  /\ IF pc[c] = "tryCommit"
       THEN SetRow(tcc[c], Row(Count[tcc[c]], "INIT")) /\ UNCHANGED <<stock, stockAcked>>
       ELSE UNCHANGED stockVars

(* catch (Exception e) { conn.rollback(); return false; } *)
Rollback(c) ==
  /\ Release(c)
  /\ UNCHANGED stockVars

Refuse(c) == Refused(c) /\ Rollback(c)

WaitsFor(c, d) ==
  \/ pc[c] \in {"tryItem", "cancelItem"} /\ Item(c) \in Items /\ itemLock[Item(c)] = d
  \/ pc[c] \in {"tryRow", "confirmRow", "cancelRow"} /\ rowLock[tcc[c]] = d
  \/ pc[c] \in {"tryInsert", "cancelInsert"} /\ InsertBlockedBy(c, d)

(* Everyone in S waits for someone in S. *)
Deadlocked(S) == S # {} /\ \A c \in S : \E d \in S : WaitsFor(c, d)

(* InnoDB rolls one connection of a cycle back; the service returns false. *)
DeadlockVictim(c) ==
  /\ \E S \in SUBSET Conn : /\ c \in S /\ Deadlocked(S)
                            /\ \A d \in S : \E e \in S : WaitsFor(e, d)
  /\ Rollback(c)

(* Any statement may fail: connection lost, lock wait timeout, crash. *)
Fail(c) == pc[c] # "idle" /\ Rollback(c)

Step(c) ==
  \/ TrySelectItem(c) \/ TrySelectRow(c) \/ TryInsert(c) \/ TryCommit(c)
  \/ ConfirmSelectRow(c) \/ ConfirmCommit(c)
  \/ CancelSelectItem(c) \/ CancelSelectRow(c) \/ CancelInsert(c) \/ CancelCommit(c)
  \/ Refuse(c)

Next == \E c \in Conn :
          \/ \E t \in Tcc : Call(c, t)
          \/ Step(c)
          \/ DeadlockVictim(c)
          \/ Fail(c)

Spec == Init /\ [][Next]_vars

(***************************************************************************)
(* A waiting statement gets its lock if it is free again and again (InnoDB *)
(* grants locks in the order they were asked for), and deadlocks are       *)
(* detected.  Statements may fail all the same.                            *)
(***************************************************************************)
FairSpec == Spec /\ \A c \in Conn : SF_vars(Step(c)) /\ WF_vars(DeadlockVictim(c))

-----------------------------------------------------------------------------
(* Correctness. *)

(***************************************************************************)
(* No lost update: the values a call is about to compute with, read some   *)
(* statements ago, are still the committed ones.                           *)
(***************************************************************************)
SeenIsCurrent ==
  \A c \in Conn :
    /\ pc[c] \in {"tryRow", "tryInsert", "tryCommit",
                  "cancelRow", "cancelInsert", "cancelCommit"}
         => seenStock[c] = stock[Item(c)]
    /\ pc[c] \in {"tryInsert", "tryCommit",
                  "confirmCommit", "cancelInsert", "cancelCommit"}
         => seenRow[c] = reserve[tcc[c]]

(***************************************************************************)
(* Why SeenIsCurrent holds: what a connection has read it has locked, what *)
(* it is about to insert its gap lock keeps absent, and the checks it made *)
(* on the way are still true.                                              *)
(***************************************************************************)
ReadsAreLocked ==
  \A c \in Conn :
    /\ pc[c] # "idle" => tcc[c] \in Tcc
    /\ pc[c] \in {"tryRow", "tryInsert", "tryCommit",
                  "cancelRow", "cancelInsert", "cancelCommit"}
         => Item(c) \in Items /\ itemLock[Item(c)] = c
    /\ pc[c] \in {"tryRow", "tryInsert", "tryCommit"} => seenStock[c] >= Count[tcc[c]]
    /\ pc[c] = "tryCommit" => Count[tcc[c]] >= 0
    /\ pc[c] \in {"tryInsert", "tryCommit", "cancelInsert"} => seenRow[c] = NoRow
    /\ pc[c] = "confirmCommit" => seenRow[c].status = "INIT"
    /\ pc[c] = "cancelCommit" => seenRow[c] = NoRow \/ seenRow[c].status = "INIT"
    /\ pc[c] \in {"tryInsert", "cancelInsert"} => tcc[c] \in gapLock[c]
    /\ pc[c] \in {"tryCommit", "confirmCommit", "cancelCommit"} => rowLock[tcc[c]] = c
    /\ \A t \in gapLock[c] : ~Present(t)

(* A row that is not there has no amount: NoRow is the only one of its kind. *)
AbsentIsNoRow == \A t \in Tcc : reserve[t].status = "NONE" => reserve[t] = NoRow

(***************************************************************************)
(* The step-wise form of Conservation: a step that changes the reservation *)
(* of t moves the same amount between it and the stock of its item, and    *)
(* touches no other reservation; stock moves in no other way.              *)
(***************************************************************************)
StockMovesWithReservation ==
  [][/\ \A t \in Tcc : reserve'[t] # reserve[t] =>
          /\ \A u \in Tcc \ {t} : reserve'[u] = reserve[u]
          /\ \A i \in Items : stock'[i] + (IF i = ItemOf[t] THEN Held(t)' ELSE 0)
                            = stock[i] + (IF i = ItemOf[t] THEN Held(t) ELSE 0)
     /\ UNCHANGED reserve => UNCHANGED stock]_vars

(***************************************************************************)
(* What a caller was told stays so: after true from confirmReserveStock    *)
(* the reservation is confirmed for ever, after true from                  *)
(* cancelReserveStock it is canceled for ever (a try that arrives later    *)
(* reserves nothing), after true from tryReserveStock there is a row.      *)
(***************************************************************************)
AnswersDurable ==
  \A t \in Tcc :
    /\ <<"confirm", t>> \in stockAcked => reserve[t].status = "CONFIRMED"
    /\ <<"cancel", t>> \in stockAcked => reserve[t].status = "CANCELED"
    /\ <<"try", t>> \in stockAcked => reserve[t] # NoRow

(***************************************************************************)
(* Every call returns: no path leaves a lock behind, and no connection     *)
(* starves.                                                                *)
(***************************************************************************)
CallsReturn == \A c \in Conn : pc[c] # "idle" ~> pc[c] = "idle"
=============================================================================
