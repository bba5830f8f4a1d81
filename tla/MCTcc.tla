-------------------------------- MODULE MCTcc -------------------------------
(* Instance of Tcc for TLC: two purchases want more of item1 than there is    *)
(* for both, a third wants an item that does not exist.                        *)
EXTENDS Tcc

MCTcc       == 1..3
MCItems     == {"item1"}
MCItemOf    == <<"item1", "item1", "item9">>
MCCount     == <<2, 2, 1>>
MCInitStock == [i \in MCItems |-> 3]
=============================================================================
