------------------------------- MODULE MCSaga -------------------------------
(* Instance of Saga: two purchases of item1, of which there is enough for     *)
(* either, not for both.                                                      *)
EXTENDS Saga

CONSTANTS s1, s2, item1

MCCount == [s \in Sagas |-> IF s = s1 THEN 2 ELSE 1]
MCItemOf == [s \in Sagas |-> item1]
MCInitStock == [i \in Items |-> 2]
=============================================================================
