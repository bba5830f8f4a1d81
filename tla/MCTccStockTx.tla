---------------------------- MODULE MCTccStockTx ----------------------------
(* Instance of TccStockTx for TLC: two purchases compete for the last of      *)
(* item1, the third asks for a negative count of item2, so that its cancel    *)
(* can deadlock with another's insert.                                        *)
EXTENDS TccStockTx

MCTcc       == 1..3
MCItems     == {"item1", "item2"}
MCItemOf    == <<"item1", "item1", "item2">>
MCCount     == <<2, 1, -1>>
MCInitStock == [i \in MCItems |-> IF i = "item1" THEN 2 ELSE 1]
=============================================================================
