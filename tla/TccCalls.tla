------------------------------ MODULE TccCalls ------------------------------
(***************************************************************************)
(* Shared by both participants of the TCC protocol (ItemStockService and   *)
(* OrderService): the three calls, and how a call can end.  Every call is  *)
(* one JDBC transaction inside try { ... commit(); return true; }          *)
(* catch { rollback(); return false; } finally { close(); }.               *)
(***************************************************************************)
EXTENDS Integers

CONSTANTS Tcc,        \* ids of the distributed transactions
          Count       \* how many items each one buys (a signed Long)

ASSUME CountAssumption == Count \in [Tcc -> Int]

Op == {"try", "confirm", "cancel"}

(***************************************************************************)
(* A call returns true; or returns false, after an exception that          *)
(* rollback() undid; or rollback(), close() or opening the connection      *)
(* throws too and the exception leaves the method ("exn"), the transaction *)
(* committed or not.                                                       *)
(***************************************************************************)
Reply == {"true", "false", "exn"}

(* The calls answered with true, after one more call. *)
Answered(acked, op, t, reply) ==
  IF reply = "true" THEN acked \cup {<<op, t>>} ELSE acked
=============================================================================
