--------------------------- MODULE AtomicPurchase ---------------------------
(***************************************************************************)
(* What a distributed purchase promises, for every transaction on its own: *)
(* the stock and the order are each prepared, one decision is taken, and   *)
(* both participants follow it.  A purchase may stop anywhere (nothing     *)
(* retries it), but never half confirmed and half canceled.                *)
(***************************************************************************)
CONSTANT Tcc

VARIABLES decision,   \* "open", "commit" or "abort" of each transaction
          part        \* what each participant has done for it

Participant == {"stock", "order"}

purchaseVars == <<decision, part>>

PurchaseInit ==
  /\ decision = [t \in Tcc |-> "open"]
  /\ part = [t \in Tcc |-> [p \in Participant |-> "working"]]

SetPart(t, p, state) == part' = [part EXCEPT ![t][p] = state]

Prepare(t, p) ==
  /\ decision[t] = "open" /\ part[t][p] = "working"
  /\ SetPart(t, p, "prepared")
  /\ UNCHANGED decision

DecideCommit(t) ==
  /\ decision[t] = "open"
  /\ \A p \in Participant : part[t][p] = "prepared"
  /\ decision' = [decision EXCEPT ![t] = "commit"]
  /\ UNCHANGED part

DecideAbort(t) ==
  /\ decision[t] = "open"
  /\ decision' = [decision EXCEPT ![t] = "abort"]
  /\ UNCHANGED part

CommitPart(t, p) ==
  /\ decision[t] = "commit" /\ part[t][p] = "prepared"
  /\ SetPart(t, p, "committed")
  /\ UNCHANGED decision

AbortPart(t, p) ==
  /\ decision[t] = "abort" /\ part[t][p] \in {"working", "prepared"}
  /\ SetPart(t, p, "aborted")
  /\ UNCHANGED decision

PurchaseNext == \E t \in Tcc :
  \/ DecideCommit(t) \/ DecideAbort(t)
  \/ \E p \in Participant : Prepare(t, p) \/ CommitPart(t, p) \/ AbortPart(t, p)

PurchaseSpec == PurchaseInit /\ [][PurchaseNext]_purchaseVars
=============================================================================
