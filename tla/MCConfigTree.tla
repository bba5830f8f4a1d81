----------------------------- MODULE MCConfigTree ----------------------------
(***************************************************************************)
(* Instance of ConfigTree: trees of up to five settings, whose lists grow  *)
(* by two, at the first element and at the third, and again after removals,*)
(* and whose groups have up to four members, two of them with names.  Ints *)
(* have 4 bits, long longs 7; a float is exact up to 4, a double up to 32: *)
(*    3   is exact everywhere;                                             *)
(*    7   is an int, as a float 8, which no int holds;                     *)
(*   11   is no int, as a float 12;                                        *)
(*   63   is a double 64 and a float 64, which no long long holds;         *)
(*  -33   lies between two doubles and is -32 as either.                   *)
(***************************************************************************)
EXTENDS ConfigTree

CONSTANTS a, b, bad, h1,
          Inspected   \* the largest tree in which numbers are told apart

MCValid == {a, b}
MCNames == {a, b, bad}
MCTypes == {"GROUP", "ARRAY", "LIST", "FLOAT"}
MCInputs == {<<"INT", 3>>, <<"INT", 7>>, <<"INT64", 11>>, <<"INT64", 63>>, <<"INT64", -33>>}

(***************************************************************************)
(* Which address a setting has, which of the names its group has not used  *)
(* it bears, and what number an earlier setter left in it decides nothing: *)
(* a state is seen with its settings in the order their lists reach them.  *)
(* To leave room for long lists, the last number and the flag that setters *)
(* and getters of numbers obey are told apart in trees of up to Inspected  *)
(* settings, hooks in trees smaller than that; in larger ones the shape,   *)
(* the types, the names and the memory of the lists are.                   *)
(***************************************************************************)
RECURSIVE Preorder(_)
Preorder(s) == <<s>> \o FlattenSeq([i \in DOMAIN heap[s].kids |-> Preorder(heap[s].kids[i])])

Canonical ==
  LET order == Preorder(Root)
      Shape(s) == <<heap[s].type, heap[s].name = Nil, Len(heap[s].kids), heap[s].cap>>
      Number == IF last.call \in {"INT", "INT64"} /\ last.ok
                THEN <<last.call, last.value, heap[last.on].val,
                       CHOOSE i \in DOMAIN order : order[i] = last.on>>
                ELSE <<>>
      Hooked == [i \in DOMAIN order |-> heap[order[i]].hook]
  IN  <<[i \in DOMAIN order |-> Shape(order[i])], heap = <<>>, freed = <<>>,
        IF Len(order) <= Inspected THEN <<auto, Number>> ELSE <<>>,
        IF Len(order) < Inspected THEN <<Hooked, destructor, freed, given>> ELSE <<>> >>
=============================================================================
