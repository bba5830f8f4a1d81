---------------------------- MODULE MCTccOrders -----------------------------
(* Instance of TccOrders for TLC: two transactions, one of a bad count. *)
EXTENDS TccOrders

MCTcc   == 1..2
MCCount == <<1, -1>>
=============================================================================
