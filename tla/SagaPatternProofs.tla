------------------------- MODULE SagaPatternProofs --------------------------
(***************************************************************************)
(* Proof that Saga implements SagaPattern: whatever fails, every step of   *)
(* the program starts, does or undoes at most one step of one purchase, in *)
(* the order the pattern allows.                                           *)
(***************************************************************************)
EXTENDS SagaProofs

(* The two components of SagaSteps[s]. *)
OrderStep(s) == StepOf(order[s] = "NORMAL",
                       order[s] = "CANCELED" \/ log[s]["CREATE_ORDER"] = "CANCELED",
                       log[s]["CREATE_ORDER"])
StockStep(s) == StepOf(reserve[s].status = "NORMAL", reserve[s].status = "CANCELED",
                       log[s]["DEDUCT_STOCK"])

(* What the pattern allows: the stock waits for the order, and the order is *)
(* undone when nothing is left of the stock.                                *)
OrderMoves(s) ==
  /\ StockStep(s)' = StockStep(s)
  /\ \/ OrderStep(s) = "todo" /\ OrderStep(s)' = "started"
     \/ OrderStep(s) \in {"todo", "started"} /\ OrderStep(s)' = "done"
     \/ /\ OrderStep(s) \in {"started", "done"} /\ OrderStep(s)' = "undone"
        /\ StockStep(s) \in {"todo", "undone"}

StockMoves(s) ==
  /\ OrderStep(s)' = OrderStep(s)
  /\ \/ StockStep(s) = "todo" /\ StockStep(s)' = "started" /\ OrderStep(s) = "done"
     \/ StockStep(s) \in {"todo", "started"} /\ StockStep(s)' = "done" /\ OrderStep(s) = "done"
     \/ StockStep(s) \in {"started", "done"} /\ StockStep(s)' = "undone"

Stays(s) == OrderStep(s)' = OrderStep(s) /\ StockStep(s)' = StockStep(s)

LEMMA StepsAre ==
  /\ SagaSteps \in [Sagas -> [1 .. 2 -> Pattern!StepState]]
  /\ SagaSteps' \in [Sagas -> [1 .. 2 -> Pattern!StepState]]
  /\ \A s \in Sagas : SagaSteps[s][1] = OrderStep(s) /\ SagaSteps[s][2] = StockStep(s)
  /\ \A s \in Sagas : SagaSteps'[s][1] = OrderStep(s)' /\ SagaSteps'[s][2] = StockStep(s)'
BY DEF SagaSteps, OrderStep, StockStep, StepOf, Pattern!StepState

(* A table of steps in which one step of one saga changes. *)
LEMMA StepChanged ==
  ASSUME NEW X, NEW old \in [Sagas -> [1 .. 2 -> X]], NEW new \in [Sagas -> [1 .. 2 -> X]],
         NEW s \in Sagas, NEW k \in 1 .. 2,
         \A u \in Sagas : u # s => \A j \in 1 .. 2 : new[u][j] = old[u][j],
         \A j \in 1 .. 2 : j # k => new[s][j] = old[s][j]
  PROVE  new = [old EXCEPT ![s][k] = new[s][k]]
<1>1. \A u \in Sagas : u # s => new[u] = old[u]
  <2> SUFFICES ASSUME NEW u \in Sagas, u # s PROVE new[u] = old[u]
    OBVIOUS
  <2>1. new[u] \in [1 .. 2 -> X] /\ old[u] \in [1 .. 2 -> X]
    OBVIOUS
  <2> QED
    BY <2>1
<1>2. new[s] = [old[s] EXCEPT ![k] = new[s][k]]
  <2>1. new[s] \in [1 .. 2 -> X] /\ old[s] \in [1 .. 2 -> X]
    OBVIOUS
  <2> QED
    BY <2>1
<1>3. new = [old EXCEPT ![s] = new[s]]
  BY <1>1
<1> QED
  BY <1>2, <1>3

LEMMA PatternMoves ==
  ASSUME NEW s \in Sagas, \A u \in Sagas : u # s => Stays(u),
         Stays(s) \/ OrderMoves(s) \/ StockMoves(s)
  PROVE  [Pattern!PatternNext]_SagaSteps
<1>1. PICK old, new : old = SagaSteps /\ new = SagaSteps'
  OBVIOUS
<1>2. /\ old \in [Sagas -> [1 .. 2 -> Pattern!StepState]]
      /\ new \in [Sagas -> [1 .. 2 -> Pattern!StepState]]
      /\ \A u \in Sagas : u # s => \A j \in 1 .. 2 : new[u][j] = old[u][j]
      /\ old[s][1] = OrderStep(s) /\ old[s][2] = StockStep(s)
      /\ new[s][1] = OrderStep(s)' /\ new[s][2] = StockStep(s)'
  BY <1>1, StepsAre DEF Stays
<1>3. CASE Stays(s)
  <2>1. new = [old EXCEPT ![s][1] = new[s][1]]
    BY <1>2, <1>3, StepChanged DEF Stays
  <2>2. new[s][1] = old[s][1]
    BY <1>2, <1>3 DEF Stays
  <2>3. new = old
    BY <1>2, <2>1, <2>2
  <2> QED
    BY <1>1, <2>3
<1>4. CASE OrderMoves(s)
  <2>1. new = [old EXCEPT ![s][1] = new[s][1]]
    BY <1>2, <1>4, StepChanged DEF OrderMoves
  <2>2. SagaSteps' = [SagaSteps EXCEPT ![s][1] = OrderStep(s)'] /\ SagaSteps[s][1] = OrderStep(s)
    BY <1>1, <1>2, <2>1
  <2>3. Pattern!EarlierDone(s, 1) /\ 1 \in 1 .. 2
    BY DEF Pattern!EarlierDone
  <2>4. StockStep(s) \in {"todo", "undone"} => Pattern!LaterGone(s, 1)
    BY <1>1, <1>2 DEF Pattern!LaterGone
  <2>5. Pattern!Start(s, 1) \/ Pattern!Do(s, 1) \/ Pattern!Undo(s, 1)
    BY <1>4, <2>2, <2>3, <2>4
       DEF OrderMoves, Pattern!Start, Pattern!Do, Pattern!Undo, Pattern!Advance
  <2> QED
    BY <2>3, <2>5 DEF Pattern!PatternNext
<1>5. CASE StockMoves(s)
  <2>1. new = [old EXCEPT ![s][2] = new[s][2]]
    BY <1>2, <1>5, StepChanged DEF StockMoves
  <2>2. SagaSteps' = [SagaSteps EXCEPT ![s][2] = StockStep(s)'] /\ SagaSteps[s][2] = StockStep(s)
    BY <1>1, <1>2, <2>1
  <2>3. Pattern!LaterGone(s, 2) /\ 2 \in 1 .. 2
    BY DEF Pattern!LaterGone
  <2>4. OrderStep(s) = "done" => Pattern!EarlierDone(s, 2)
    BY <1>1, <1>2 DEF Pattern!EarlierDone
  <2>5. Pattern!Start(s, 2) \/ Pattern!Do(s, 2) \/ Pattern!Undo(s, 2)
    BY <1>5, <2>2, <2>3, <2>4
       DEF StockMoves, Pattern!Start, Pattern!Do, Pattern!Undo, Pattern!Advance
  <2> QED
    BY <2>3, <2>5 DEF Pattern!PatternNext
<1> QED
  BY <1>3, <1>4, <1>5

-----------------------------------------------------------------------------
(* What the steps of the program do to a purchase. *)

Progress(s) ==
  /\ \A u \in Sagas : u # s => Stays(u)
  /\ Stays(s) \/ OrderMoves(s) \/ StockMoves(s)

LEMMA QuietStays ==
  ASSUME order' = order, reserve' = reserve, log' = log, NEW s
  PROVE  Stays(s)
BY DEF Stays, OrderStep, StockStep

LEMMA OthersStay ==
  ASSUME NEW u, order'[u] = order[u], reserve'[u] = reserve[u], log'[u] = log[u]
  PROVE  Stays(u)
BY DEF Stays, OrderStep, StockStep

(* The log of a step that succeeded: the order was normal already, and the *)
(* log of deductStock was there.                                           *)
LEMMA UpdateLogProgress ==
  ASSUME IInv, NEW c \in Sagas, NEW reply \in Reply, UpdateLog(c, reply)
  PROVE  \E s \in Sagas : Progress(s)
<1>1. loc[c] = "updateLog"
  BY DEF UpdateLog
<1>2. PICK s \in Sagas : Knows(c, s)
  BY <1>1, LoopKnows
<1>3. /\ s = hand[c].saga /\ TypeOK
      /\ hand[c].name \in Steps /\ EventOK(hand[c]) /\ hand[c].succeed
  BY <1>1, <1>2 DEF Knows, LoopShape, LoopOK, Steps
<1>4. /\ UpdateSagaLogEventStatus(s, hand[c].name, "SUCCEED", reply)
      /\ order' = order /\ reserve' = reserve
  BY <1>3 DEF UpdateLog, itemVars
<1>5. /\ \A u \in Sagas : u # s => log'[u] = log[u]
      /\ \A e \in Steps : log'[s][e] = log[s][e]
           \/ (e = hand[c].name /\ log[s][e] # "NONE" /\ log'[s][e] = "SUCCEED")
  BY <1>3, <1>4, UpdateLogEffect
<1>6. \A u \in Sagas : u # s => Stays(u)
  BY <1>4, <1>5, OthersStay
<1>7. StockStep(s)' = StockStep(s)
  BY <1>4, <1>5 DEF StockStep, StepOf, Steps
<1>8. OrderStep(s)' = OrderStep(s)
  <2>1. CASE log'[s]["CREATE_ORDER"] = log[s]["CREATE_ORDER"]
    BY <1>4, <2>1 DEF OrderStep
  <2>2. CASE hand[c].name = "CREATE_ORDER"
    <3>1. order[s] = "NORMAL"
      BY <1>3, <2>2 DEF EventOK, EventKind, UnderWay
    <3> QED
      BY <1>4, <3>1 DEF OrderStep, StepOf
  <2> QED
    BY <1>5, <2>1, <2>2 DEF Steps
<1> QED
  BY <1>6, <1>7, <1>8 DEF Progress, Stays

(* The log of the next step, which nothing has begun. *)
LEMMA InsertLogProgress ==
  ASSUME IInv, NEW c \in Sagas, NEW reply \in Reply, InsertLog(c, reply)
  PROVE  \E s \in Sagas : Progress(s)
<1>1. loc[c] = "insertLog"
  BY DEF InsertLog
<1>2. PICK s \in Sagas : Knows(c, s)
  BY <1>1, LoopKnows
<1>3. /\ s = hand[c].saga /\ TypeOK
      /\ hand[c].name \in {"INIT", "CREATE_ORDER"} /\ UnderWay(s, hand[c].name)
  BY <1>1, <1>2 DEF Knows, LoopShape, LoopOK, EventOK, EventKind
<1>4. /\ InsertSagaLog(s, NextStep(hand[c].name), reply)
      /\ order' = order /\ reserve' = reserve
  BY <1>3 DEF InsertLog, itemVars
<1>5. /\ \A u \in Sagas : u # s => log'[u] = log[u]
      /\ \A e \in Steps : log'[s][e] = log[s][e]
           \/ (e = NextStep(hand[c].name) /\ log[s][e] = "NONE" /\ log'[s][e] = "INIT")
  <2>1. NextStep(hand[c].name) \in Steps
    BY DEF NextStep, Steps
  <2> QED
    BY <1>3, <1>4, <2>1, InsertLogEffect
<1>6. \A u \in Sagas : u # s => Stays(u)
  BY <1>4, <1>5, OthersStay
<1>7. reserve[s].status = "NONE"
  BY <1>3 DEF UnderWay, NoRow, Row
<1>8. CASE log'[s]["CREATE_ORDER"] = log[s]["CREATE_ORDER"]
           /\ log'[s]["DEDUCT_STOCK"] = log[s]["DEDUCT_STOCK"]
  BY <1>4, <1>6, <1>8 DEF Progress, Stays, OrderStep, StockStep
<1>9. CASE hand[c].name = "INIT" /\ log[s]["CREATE_ORDER"] = "NONE"
           /\ log'[s]["CREATE_ORDER"] = "INIT" /\ log'[s]["DEDUCT_STOCK"] = log[s]["DEDUCT_STOCK"]
  <2>1. order[s] = "NONE"
    BY <1>3, <1>9 DEF UnderWay
  <2>2. OrderStep(s) = "todo" /\ OrderStep(s)' = "started"
    BY <1>4, <1>9, <2>1 DEF OrderStep, StepOf
  <2>3. StockStep(s)' = StockStep(s)
    BY <1>4, <1>9 DEF StockStep
  <2> QED
    BY <1>6, <2>2, <2>3 DEF Progress, OrderMoves
<1>10. CASE hand[c].name = "CREATE_ORDER" /\ log[s]["DEDUCT_STOCK"] = "NONE"
            /\ log'[s]["DEDUCT_STOCK"] = "INIT" /\ log'[s]["CREATE_ORDER"] = log[s]["CREATE_ORDER"]
  <2>1. order[s] = "NORMAL"
    BY <1>3, <1>10 DEF UnderWay
  <2>2. OrderStep(s) = "done" /\ OrderStep(s)' = "done"
    BY <1>4, <2>1 DEF OrderStep, StepOf
  <2>3. StockStep(s) = "todo" /\ StockStep(s)' = "started"
    BY <1>4, <1>7, <1>10 DEF StockStep, StepOf
  <2> QED
    BY <1>6, <2>2, <2>3 DEF Progress, StockMoves
<1>11. "CREATE_ORDER" \in Steps /\ "DEDUCT_STOCK" \in Steps
  BY DEF Steps
<1>12. \/ hand[c].name = "INIT" /\ NextStep(hand[c].name) = "CREATE_ORDER"
       \/ hand[c].name = "CREATE_ORDER" /\ NextStep(hand[c].name) = "DEDUCT_STOCK"
  BY <1>3 DEF NextStep
<1> QED
  BY <1>5, <1>8, <1>9, <1>10, <1>11, <1>12

LEMMA CreateOrderProgress ==
  ASSUME IInv, NEW c \in Sagas, NEW reply \in Reply, CreateOrder(c, reply)
  PROVE  \E s \in Sagas : Progress(s)
<1>1. loc[c] = "createOrder"
  BY DEF CreateOrder
<1>2. PICK s \in Sagas : Knows(c, s)
  BY <1>1, LoopKnows
<1>3. s = hand[c].saga /\ UnderWay(s, "INIT") /\ order \in [Sagas -> {"NONE", "NORMAL", "CANCELED"}]
  BY <1>1, <1>2 DEF Knows, LoopShape, LoopOK, EventOK, EventKind, EventShape, TypeOK, StoreTypeOK
<1>4. (InsertOrder(s) \/ order' = order) /\ reserve' = reserve /\ log' = log
  BY <1>3 DEF CreateOrder, itemVars
<1>5. CASE order' = order
  BY <1>4, <1>5, QuietStays DEF Progress
<1>6. CASE InsertOrder(s)
  <2>1. order'[s] = "NORMAL" /\ \A u \in Sagas : u # s => order'[u] = order[u]
    BY <1>3, <1>6 DEF InsertOrder
  <2>2. \A u \in Sagas : u # s => Stays(u)
    BY <1>4, <2>1, OthersStay
  <2>3. OrderStep(s) \in {"todo", "started"} /\ OrderStep(s)' = "done"
    BY <1>3, <1>4, <2>1 DEF UnderWay, OrderStep, StepOf
  <2>4. StockStep(s)' = StockStep(s)
    BY <1>4 DEF StockStep
  <2> QED
    BY <2>2, <2>3, <2>4 DEF Progress, OrderMoves
<1> QED
  BY <1>4, <1>5, <1>6

(* The stock is deducted of an order that is still normal. *)
LEMMA CommitDeductProgress ==
  ASSUME IInv, NEW c \in Sagas, NEW reply \in Reply, CommitDeduct(c, reply)
  PROVE  \E s \in Sagas : Progress(s)
<1>1. loc[c] = "commitDeduct"
  BY DEF CommitDeduct
<1>2. PICK s \in Sagas : Knows(c, s)
  BY <1>1, LoopKnows
<1>3. /\ s = hand[c].saga /\ reserve[s] = NoRow /\ order[s] = "NORMAL"
      /\ reserve \in [Sagas -> [amount : Nat, status : {"NONE", "NORMAL", "CANCELED"}]]
  BY <1>1, <1>2 DEF Knows, LoopOK, TypeOK, StoreTypeOK
<1>4. (DeductCommitted(s) \/ reserve' = reserve) /\ order' = order /\ log' = log
  BY <1>3 DEF CommitDeduct, itemVars
<1>5. CASE reserve' = reserve
  BY <1>4, <1>5, QuietStays DEF Progress
<1>6. CASE DeductCommitted(s)
  <2>1. /\ reserve'[s].status = "NORMAL" /\ reserve[s].status = "NONE"
        /\ \A u \in Sagas : u # s => reserve'[u] = reserve[u]
    BY <1>3, <1>6 DEF DeductCommitted, NoRow, Row
  <2>2. \A u \in Sagas : u # s => Stays(u)
    BY <1>4, <2>1, OthersStay
  <2>3. StockStep(s) \in {"todo", "started"} /\ StockStep(s)' = "done"
    BY <2>1 DEF StockStep, StepOf
  <2>4. OrderStep(s)' = OrderStep(s) /\ OrderStep(s) = "done"
    BY <1>3, <1>4 DEF OrderStep, StepOf
  <2> QED
    BY <2>2, <2>3, <2>4 DEF Progress, StockMoves
<1> QED
  BY <1>4, <1>5, <1>6

(* The stock is undone first; nothing of it is left for the order's turn. *)
LEMMA GoneStock ==
  ASSUME NEW s, StockGone(s)
  PROVE  StockStep(s) \in {"todo", "undone"}
BY DEF StockGone, StockStep, StepOf, NoRow, Row

LEMMA CompensateProgress ==
  ASSUME IInv, NEW c \in Sagas, NEW reply \in Reply, Compensate(c, reply)
  PROVE  \E s \in Sagas : Progress(s)
<1>1. loc[c] = "compensate"
  BY DEF Compensate
<1>2. PICK s \in Sagas : Knows(c, s)
  BY <1>1, LoopKnows
<1>3. /\ s = hand[c].saga /\ UndoOK(c)
      /\ order \in [Sagas -> {"NONE", "NORMAL", "CANCELED"}]
      /\ reserve \in [Sagas -> [amount : Nat, status : {"NONE", "NORMAL", "CANCELED"}]]
      /\ todo[c] \in {<<"DEDUCT_STOCK", "CREATE_ORDER">>, <<"CREATE_ORDER">>, <<"DEDUCT_STOCK">>}
  BY <1>1, <1>2 DEF Knows, LoopShape, LoopOK, TypeOK, StoreTypeOK
<1>4. todo[c] = <<"CREATE_ORDER">> <=> Head(todo[c]) # "DEDUCT_STOCK"
  BY <1>3
<1>5. /\ log' = log
      /\ \/ todo[c] # <<"CREATE_ORDER">> /\ order' = order /\ (GiveBack(s) \/ reserve' = reserve)
         \/ todo[c] = <<"CREATE_ORDER">> /\ reserve' = reserve /\ (OrderToCanceled(s) \/ order' = order)
  BY <1>3, <1>4 DEF Compensate, CancelDeductStock, CancelOrder, itemVars
<1>6. CASE order' = order /\ reserve' = reserve
  BY <1>5, <1>6, QuietStays DEF Progress
<1>7. CASE todo[c] # <<"CREATE_ORDER">> /\ order' = order /\ GiveBack(s)
  <2>1. reserve[s] = NoRow /\ log[s]["DEDUCT_STOCK"] # "NONE"
    BY <1>1, <1>3, <1>7 DEF UndoOK
  <2>2. /\ reserve'[s].status = "CANCELED" /\ reserve[s].status = "NONE"
        /\ \A u \in Sagas : u # s => reserve'[u] = reserve[u]
    BY <1>3, <1>7, <2>1 DEF GiveBack, NoRow, Row
  <2>3. \A u \in Sagas : u # s => Stays(u)
    BY <1>5, <1>7, <2>2, OthersStay
  <2>4. StockStep(s) = "started" /\ StockStep(s)' = "undone"
    BY <2>1, <2>2 DEF StockStep, StepOf
  <2>5. OrderStep(s)' = OrderStep(s)
    BY <1>5, <1>7 DEF OrderStep
  <2> QED
    BY <2>3, <2>4, <2>5 DEF Progress, StockMoves
<1>8. CASE todo[c] = <<"CREATE_ORDER">> /\ reserve' = reserve /\ OrderToCanceled(s)
  <2>1. StockStep(s) \in {"todo", "undone"}
    BY <1>3, <1>8, GoneStock DEF UndoOK
  <2>2. /\ order[s] = "NORMAL" /\ order'[s] = "CANCELED"
        /\ \A u \in Sagas : u # s => order'[u] = order[u]
    BY <1>3, <1>8 DEF OrderToCanceled
  <2>3. \A u \in Sagas : u # s => Stays(u)
    BY <1>5, <1>8, <2>2, OthersStay
  <2>4. OrderStep(s) = "done" /\ OrderStep(s)' = "undone"
    BY <2>2 DEF OrderStep, StepOf
  <2>5. StockStep(s)' = StockStep(s)
    BY <1>5, <1>8 DEF StockStep
  <2> QED
    BY <2>1, <2>3, <2>4, <2>5 DEF Progress, OrderMoves
<1> QED
  BY <1>5, <1>6, <1>7, <1>8

(* The log of a compensation undoes an order that was never inserted. *)
LEMMA LogCanceledProgress ==
  ASSUME IInv, NEW c \in Sagas, NEW reply \in Reply, LogCanceled(c, reply)
  PROVE  \E s \in Sagas : Progress(s)
<1>1. loc[c] = "logCanceled"
  BY DEF LogCanceled
<1>2. PICK s \in Sagas : Knows(c, s)
  BY <1>1, LoopKnows
<1>3. /\ s = hand[c].saga /\ UndoOK(c) /\ TypeOK
      /\ todo[c] \in {<<"DEDUCT_STOCK", "CREATE_ORDER">>, <<"CREATE_ORDER">>, <<"DEDUCT_STOCK">>}
  BY <1>1, <1>2 DEF Knows, LoopShape, LoopOK
<1>4. /\ Head(todo[c]) \in Steps
      /\ Head(todo[c]) = "CREATE_ORDER" <=> todo[c] = <<"CREATE_ORDER">>
  BY <1>3 DEF Steps
<1>5. PICK e \in Steps : e = Head(todo[c])
  BY <1>4
<1>6. /\ UpdateSagaLogEventStatus(s, e, "CANCELED", reply)
      /\ order' = order /\ reserve' = reserve
  BY <1>3, <1>5 DEF LogCanceled, itemVars
<1>7. /\ \A u \in Sagas : u # s => log'[u] = log[u]
      /\ \A f \in Steps : log'[s][f] = log[s][f]
           \/ (f = e /\ log[s][f] # "NONE" /\ log'[s][f] = "CANCELED")
  BY <1>3, <1>6, UpdateLogEffect
<1>8. \A u \in Sagas : u # s => Stays(u)
  BY <1>6, <1>7, OthersStay
<1>9. "CREATE_ORDER" \in Steps /\ "DEDUCT_STOCK" \in Steps /\ e \in {"CREATE_ORDER", "DEDUCT_STOCK"}
  BY DEF Steps
<1>10. CASE e = "DEDUCT_STOCK"
  <2>1. reserve[s].status = "CANCELED"
    BY <1>1, <1>3, <1>4, <1>5, <1>10 DEF UndoOK
  <2>2. StockStep(s)' = StockStep(s)
    BY <1>6, <2>1 DEF StockStep, StepOf
  <2>3. OrderStep(s)' = OrderStep(s)
    BY <1>6, <1>7, <1>9, <1>10 DEF OrderStep
  <2> QED
    BY <1>8, <2>2, <2>3 DEF Progress, Stays
<1>11. CASE e = "CREATE_ORDER"
  <2>1. StockGone(s) /\ order[s] # "NORMAL" /\ log[s]["CREATE_ORDER"] # "NONE"
    BY <1>1, <1>3, <1>4, <1>5, <1>11 DEF UndoOK
  <2>2. StockStep(s)' = StockStep(s)
    BY <1>6, <1>7, <1>9, <1>11 DEF StockStep
  <2>3. StockStep(s) \in {"todo", "undone"}
    BY <2>1, GoneStock
  <2>4. CASE log'[s]["CREATE_ORDER"] = log[s]["CREATE_ORDER"]
    BY <1>6, <1>8, <2>2, <2>4 DEF Progress, Stays, OrderStep
  <2>5. CASE log'[s]["CREATE_ORDER"] = "CANCELED"
    <3>1. OrderStep(s)' = "undone" /\ OrderStep(s) \in {"started", "undone"}
      BY <1>6, <2>1, <2>5 DEF OrderStep, StepOf
    <3> QED
      BY <1>8, <2>2, <2>3, <3>1 DEF Progress, Stays, OrderMoves
  <2> QED
    BY <1>7, <1>9, <2>4, <2>5
<1> QED
  BY <1>9, <1>10, <1>11

-----------------------------------------------------------------------------
LEMMA InitPattern == Init => Pattern!PatternInit
<1> SUFFICES ASSUME Init PROVE Pattern!PatternInit
  OBVIOUS
<1>1. \A s \in Sagas :
        /\ order[s] = "NONE" /\ reserve[s].status = "NONE"
        /\ log[s]["CREATE_ORDER"] = "NONE" /\ log[s]["DEDUCT_STOCK"] = "NONE"
  BY DEF Init, StoreInit, NoRow, Row, Steps
<1> QED
  BY <1>1 DEF SagaSteps, StepOf, Pattern!PatternInit

LEMMA NextPattern == IInv /\ [Next]_vars => [Pattern!PatternNext]_SagaSteps
<1> SUFFICES ASSUME IInv, [Next]_vars PROVE [Pattern!PatternNext]_SagaSteps
  OBVIOUS
<1>1. ASSUME order' = order, reserve' = reserve, log' = log
      PROVE  [Pattern!PatternNext]_SagaSteps
  BY <1>1 DEF SagaSteps
<1>2. CASE Crash \/ UNCHANGED vars
  BY <1>1, <1>2 DEF Crash, vars, dbVars
<1>3. ASSUME NEW s \in Sagas, PlaceOrder(s)
      PROVE  order' = order /\ reserve' = reserve /\ log' = log
  BY <1>3 DEF PlaceOrder, PlaceInsertSaga, PlaceStartLoop, PlacePutInit, dbVars, itemVars
<1>4. ASSUME NEW c \in Sagas, Take(c) \/ PutEvent(c) \/ PutDeducted(c)
      PROVE  order' = order /\ reserve' = reserve /\ log' = log
  BY <1>4 DEF Take, PutEvent, PutDeducted, dbVars
<1>5. ASSUME NEW c \in Sagas, NEW reply \in Reply,
             DeductStock(c, reply) \/ SelectLog(c, reply) \/ UpdateSaga(c, reply)
      PROVE  order' = order /\ reserve' = reserve /\ log' = log
  BY <1>5 DEF DeductStock, SelectLog, UpdateSaga, dbVars, itemVars
<1>6. ASSUME NEW s \in Sagas, Progress(s) PROVE [Pattern!PatternNext]_SagaSteps
  BY <1>6, PatternMoves DEF Progress
<1>7. ASSUME NEW c \in Sagas, NEW reply \in Reply,
             \/ UpdateLog(c, reply) \/ InsertLog(c, reply) \/ CreateOrder(c, reply)
             \/ CommitDeduct(c, reply) \/ Compensate(c, reply) \/ LogCanceled(c, reply)
      PROVE  \E s \in Sagas : Progress(s)
  BY <1>7, UpdateLogProgress, InsertLogProgress, CreateOrderProgress, CommitDeductProgress,
     CompensateProgress, LogCanceledProgress
<1> QED
  BY <1>1, <1>2, <1>3, <1>4, <1>5, <1>6, <1>7 DEF Next, Loop

(***************************************************************************)
(* processEvent and processCancel keep to the saga pattern: whatever call  *)
(* fails and whenever the program stops, the order is inserted before the  *)
(* stock is deducted, each after it was logged or at once, and they are    *)
(* undone in the opposite order, neither of them ever done again.          *)
(***************************************************************************)
THEOREM SagaImplementsPattern == Spec => ImplementsPattern
BY InitPattern, NextPattern, InvariantIInv, PTL DEF Spec, ImplementsPattern, Pattern!PatternSpec
=============================================================================
