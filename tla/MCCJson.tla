------------------------------- MODULE MCCJson -------------------------------
(* Instance of CJsonClient for TLC: two names that differ in case, and names *)
(* and strings with every kind of character that has to be escaped.          *)
EXTENDS CJsonClient

MCNames  == {<<"a", "\\", "SOH">>, <<"A", "\\", "SOH">>}
MCValues == {<<"LF", Quote>>}
MCIds    == 1 .. 40
MCStrIds == 1 .. 60

(***************************************************************************)
(* Addresses mean nothing: a state is seen with its items numbered in the  *)
(* order they are reached, and strings by what they hold; a value that a   *)
(* reference shows is seen as that of its owner.                           *)
(***************************************************************************)
RECURSIVE Preorder(_)
Preorder(p) ==
    LET kids == IF nodes[p].ref THEN <<>> ELSE Children(Now, p)
    IN  <<p>> \o FlattenSeq([i \in 1 .. Len(kids) |-> Preorder(kids[i])])

Canonical ==
    LET hs    == SetToSortSeq(roots, <)
        order == FlattenSeq([i \in 1 .. Len(hs) |-> Preorder(hs[i])])
        Place(p) == IF p \in ToSet(order) THEN CHOOSE i \in 1 .. Len(order) : order[i] = p ELSE 0
        OwnerOf(s) == {Place(q) : q \in {q \in ToSet(order) : ~nodes[q].ref /\ nodes[q].val = s}}
        Text(s) == IF s \in DOMAIN strs THEN strs[s] ELSE <<"NULL">>
        Seen(p) ==
            LET n == nodes[p]
            IN  <<n.type, n.ref, Place(n.next), Place(n.prev), Place(n.child), Text(n.string),
                  Text(n.val), IF n.ref /\ n.val # NULL THEN OwnerOf(n.val) ELSE {}>>
    IN  <<[i \in 1 .. Len(order) |-> Seen(order[i])], {Place(r) : r \in roots},
          Cardinality(DOMAIN nodes), Cardinality(DOMAIN strs), nodes = <<>>, strs = <<>>, text, fault, Cardinality(overwritten)>>
=============================================================================
