---------------------------- MODULE SagaPattern -----------------------------
(***************************************************************************)
(* What the saga pattern promises, whatever fails: the steps of a saga are *)
(* started and done in order, each one after all the earlier ones; they    *)
(* are undone in the opposite order, none before every later step is       *)
(* undone or was never started; and nothing is done after an undo.         *)
(***************************************************************************)
EXTENDS Integers

CONSTANTS Sagas, N    \* a saga has the steps 1 .. N

VARIABLE step         \* state of each step of each saga

StepState == {"todo", "started", "done", "undone"}

PatternInit == step = [s \in Sagas |-> [k \in 1 .. N |-> "todo"]]

Advance(s, k, from, to) ==
  step[s][k] \in from /\ step' = [step EXCEPT ![s][k] = to]

EarlierDone(s, k) == \A j \in 1 .. k - 1 : step[s][j] = "done"
LaterGone(s, k) == \A j \in k + 1 .. N : step[s][j] \in {"todo", "undone"}

Start(s, k) == EarlierDone(s, k) /\ Advance(s, k, {"todo"}, "started")
Do(s, k) == EarlierDone(s, k) /\ Advance(s, k, {"todo", "started"}, "done")
Undo(s, k) == LaterGone(s, k) /\ Advance(s, k, {"started", "done"}, "undone")

PatternNext ==
  \E s \in Sagas : \E k \in 1 .. N : Start(s, k) \/ Do(s, k) \/ Undo(s, k)

PatternSpec == PatternInit /\ [][PatternNext]_step
=============================================================================
