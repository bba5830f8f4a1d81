----------------------------- MODULE CJsonClient -----------------------------
(***************************************************************************)
(* A client of the cJSON library (CJson) that makes its calls one after    *)
(* the other, any one allocation of each failing, and that writes texts    *)
(* by hand to have them parsed.                                            *)
(***************************************************************************)
EXTENDS CJson

CONSTANTS
    Names,      \* the names clients give to members
    Values,     \* the contents of the strings they create
    MaxNodes,   \* how many items a client keeps, and one more in an array it has made at once
    MaxLost,    \* how many names are overwritten
    MaxRoots,   \* how many trees it keeps
    MaxText,    \* how long a text it writes by hand
    MaxFail     \* which of the allocations of a call may fail: any of the first

VARIABLES
    nodes,      \* the allocated items
    strs,       \* the allocated strings and buffers
    roots,      \* the trees the client holds
    text,       \* a text under the client's pen
    fault,      \* "none", "null" (NULL was dereferenced) or "memory" (see Memory)
    overwritten \* names lost to ReplaceItemInObject

vars == <<nodes, strs, roots, text, fault, overwritten>>

-----------------------------------------------------------------------------
(* The client.  It holds trees, changes them through their containers, and  *)
(* never frees what a reference elsewhere still shows.                      *)

Memory(k) == [nodes |-> nodes, strs |-> strs, left |-> k, bad |-> FALSE, ep |-> 0]
Now == Memory(0)
Kids(p) == ToSet(Children(Now, p))

RECURSIVE Below(_), Shown(_)
Below(p) == {p} \union IF nodes[p].ref THEN {} ELSE UNION {Below(k) : k \in Kids(p)}
Shown(p) == {p} \union UNION {Shown(k) : k \in Kids(p)}

Owned == UNION {Below(r) : r \in roots}
Changeable == {a \in Owned : nodes[a].type \in Containers /\ ~nodes[a].ref}
Objects == {a \in Changeable : nodes[a].type = "object"}

\* No reference outside of p's tree shows a child or the value of what is in it.
Unshown(p) ==
    \A r \in Owned \ Below(p) : nodes[r].ref =>
        /\ nodes[r].child \notin Below(p)
        /\ nodes[r].val # NULL => \A q \in Below(p) : nodes[q].val # nodes[r].val

\* Putting x, or a reference to it, into a makes no cycle.
Apart(a, x) == Shown(x) \intersect ({a} \union Kids(a)) = {}

\* A call that ends with memory m, holding the trees hs.
EndsAsIs(m, hs) ==
    /\ nodes' = m.nodes /\ strs' = m.strs /\ roots' = hs
    /\ fault' = IF m.bad THEN "memory" ELSE "none"

Ends(m, hs) ==
    /\ EndsAsIs(m, hs)
    /\ Cardinality(DOMAIN m.nodes) <= Max({MaxNodes, Cardinality(DOMAIN nodes)})
    /\ Cardinality(hs) <= MaxRoots

Given(r) == roots \union ({r.p} \ {NULL})

\* Calls that make an item.  The ten cJSON_Create functions but those for arrays of items:
CreateItem(type, k) ==
    LET new == NewItem(Memory(k))
    IN  /\ Ends(IF new.p = NULL THEN new.m ELSE [new.m EXCEPT !.nodes[new.p].type = type], Given(new))
        /\ UNCHANGED <<text, overwritten>>

CreateText(m, value) ==
    LET new == NewItem(m)
        val == Strdup(new.m, value)
    IN  IF new.p = NULL THEN new
        ELSE [m |-> [val.m EXCEPT !.nodes[new.p].type = "string", !.nodes[new.p].val = val.p],
              p |-> new.p]

CreateString(value, k) ==
    LET r == CreateText(Memory(k), value)
    IN  Ends(r.m, Given(r)) /\ UNCHANGED <<text, overwritten>>

\* cJSON_CreateStringArray (the number arrays alike) links the items it
\* creates without a look at them: a NULL among several ends the program.
CreateStringArray(value, count, k) ==
    LET a == NewItem(Memory(k))
        Link(acc, i) ==
            LET x == CreateText(acc.m, value)
            IN  IF acc.null \/ x.p = NULL THEN [acc EXCEPT !.null = TRUE]
                ELSE [m |-> IF i = 1 THEN [x.m EXCEPT !.nodes[a.p].child = x.p]
                            ELSE Append1(x.m, acc.p, x.p),
                      p |-> x.p, null |-> FALSE]
        typed == [a.m EXCEPT !.nodes[a.p].type = "array"]
        all   == FoldLeft(Link, [m |-> typed, p |-> NULL, null |-> FALSE], [i \in 1 .. count |-> i])
    IN  /\ roots = {} /\ UNCHANGED <<text, overwritten>>
        /\ IF a.p = NULL THEN EndsAsIs(a.m, roots)
           ELSE IF all.null THEN fault' = "null" /\ UNCHANGED <<nodes, strs, roots>>
           ELSE EndsAsIs(all.m, {a.p})

\* cJSON_AddItemToArray.
AddTo(m, a, x) ==
    LET kids == Children(m, a)
    IN  IF x = NULL THEN m
        ELSE IF kids = <<>> THEN [m EXCEPT !.nodes[a].child = x]
        ELSE Append1(m, Last(kids), x)

\* cJSON_AddItemToObject: the old name goes before there is a new one.
AddNamed(m, a, name, x) ==
    LET old == IF m.nodes[x].string = NULL THEN m ELSE Release(m, m.nodes[x].string)
        new == Strdup(old, name)
    IN  IF x = NULL THEN m ELSE AddTo([new.m EXCEPT !.nodes[x].string = new.p], a, x)

AddItemToArray(a, x) ==
    /\ a \notin Below(x) /\ Apart(a, x)
    /\ Ends(AddTo(Now, a, x), roots \ {x})
    /\ UNCHANGED <<text, overwritten>>

AddItemToObject(a, name, x, k) ==
    /\ a \notin Below(x) /\ Apart(a, x)
    /\ Ends(AddNamed(Memory(k), a, name, x), roots \ {x})
    /\ UNCHANGED <<text, overwritten>>

\* create_reference: an item that shows the child and the value of x.
Reference(m, x) ==
    LET new == NewItem(m)
    IN  IF new.p = NULL THEN new
        ELSE [m |-> [new.m EXCEPT !.nodes[new.p] =
                       [m.nodes[x] EXCEPT !.string = NULL, !.ref = TRUE, !.next = NULL, !.prev = NULL]],
              p |-> new.p]

AddItemReferenceToArray(a, x, k) ==
    LET r == Reference(Memory(k), x)
    IN  /\ x # a /\ Apart(a, x)
        /\ Ends(AddTo(r.m, a, r.p), roots)
        /\ UNCHANGED <<text, overwritten>>

AddItemReferenceToObject(a, name, x, k) ==
    LET r == Reference(Memory(k), x)
    IN  /\ x # a /\ Apart(a, x)
        /\ Ends(AddNamed(r.m, a, name, r.p), roots)
        /\ UNCHANGED <<text, overwritten>>

\* GetArrayItem: an index below 0 finds the first.
GetArrayItem(m, a, which) ==
    LET kids == Children(m, a)
        i    == IF which > 0 THEN which + 1 ELSE 1
    IN  IF i <= Len(kids) THEN kids[i] ELSE NULL

\* cJSON_strcasecmp: letters in any case, a missing name unlike any.
LowerCase(name) == [i \in 1 .. Len(name) |-> IF name[i] = "A" THEN "a" ELSE name[i]]
SameName(m, p, name) ==
    m.nodes[p].string # NULL /\ LowerCase(m.strs[m.nodes[p].string]) = LowerCase(name)

\* Where the first member of that name is, counted from 0, or where none is.
IndexOf(m, a, name) ==
    LET kids == Children(m, a)
        hits == {i \in 1 .. Len(kids) : SameName(m, kids[i], name)}
    IN  IF hits = {} THEN Len(kids) ELSE Min(hits) - 1

GetObjectItem(m, a, name) == GetArrayItem(m, a, IndexOf(m, a, name))

\* The middle of cJSON_DetachItemFromArray.
Unlink(m, a, c) ==
    LET n  == m.nodes[c]
        m1 == IF n.prev = NULL THEN m ELSE [m EXCEPT !.nodes[n.prev].next = n.next]
        m2 == IF n.next = NULL THEN m1 ELSE [m1 EXCEPT !.nodes[n.next].prev = n.prev]
        m3 == IF m2.nodes[a].child # c THEN m2 ELSE [m2 EXCEPT !.nodes[a].child = n.next]
    IN  [m3 EXCEPT !.nodes[c].next = NULL, !.nodes[c].prev = NULL]

Detach(a, which) ==
    LET c == GetArrayItem(Now, a, which)
    IN  /\ IF c = NULL THEN Ends(Now, roots) ELSE Ends(Unlink(Now, a, c), roots \union {c})
        /\ UNCHANGED <<text, overwritten>>

DetachItemFromArray(a, which) == Detach(a, which)
DetachItemFromObject(a, name) == Detach(a, IndexOf(Now, a, name))

DeleteIn(a, which) ==
    LET c == GetArrayItem(Now, a, which)
    IN  /\ c # NULL => Unshown(c)
        /\ Ends(IF c = NULL THEN Now ELSE Delete(Unlink(Now, a, c), c), roots)
        /\ UNCHANGED <<text, overwritten>>

DeleteItemFromArray(a, which) == DeleteIn(a, which)
DeleteItemFromObject(a, name) == DeleteIn(a, IndexOf(Now, a, name))

\* cJSON_ReplaceItemInArray, c there.
Substitute(m, a, c, x) ==
    LET n  == m.nodes[c]
        m1 == [m EXCEPT !.nodes[x].next = n.next, !.nodes[x].prev = n.prev]
        m2 == IF n.next = NULL THEN m1 ELSE [m1 EXCEPT !.nodes[n.next].prev = x]
        m3 == IF m2.nodes[a].child = c THEN [m2 EXCEPT !.nodes[a].child = x]
              ELSE [m2 EXCEPT !.nodes[n.prev].next = x]
    IN  Delete([m3 EXCEPT !.nodes[c].next = NULL, !.nodes[c].prev = NULL], c)

Replaceable(a, c, x) == a \notin Below(x) /\ Apart(a, x) /\ (c # NULL => Unshown(c))

ReplaceItemInArray(a, which, x) ==
    LET c == GetArrayItem(Now, a, which)
    IN  /\ Replaceable(a, c, x)
        /\ IF c = NULL THEN Ends(Now, roots) ELSE Ends(Substitute(Now, a, c, x), roots \ {x})
        /\ UNCHANGED <<text, overwritten>>

\* The name x had is overwritten, not freed.
ReplaceItemInObject(a, name, x, k) ==
    LET c   == GetObjectItem(Now, a, name)
        new == Strdup(Memory(k), name)
        named == [new.m EXCEPT !.nodes[x].string = new.p]
    IN  /\ Replaceable(a, c, x)
        /\ IF c = NULL THEN Ends(Now, roots) /\ UNCHANGED overwritten
           ELSE /\ Ends(Substitute(named, a, c, x), roots \ {x})
                /\ overwritten' = overwritten \union ({nodes[x].string} \ {NULL})
                /\ Cardinality(overwritten') <= MaxLost
        /\ UNCHANGED text

DeleteTree(r) ==
    /\ Unshown(r)
    /\ Ends(Delete(Now, r), roots \ {r})
    /\ UNCHANGED <<text, overwritten>>

DuplicateItem(p, recurse, k) ==
    LET d == Duplicate(Memory(k), p, recurse)
    IN  Ends(d.m, Given(d)) /\ UNCHANGED <<text, overwritten>>

\* cJSON_Print or PrintUnformatted, cJSON_Parse of the result, free.
Reread(r, out) == [m |-> Release(r.m, out), p |-> r.p]
ReadBack(out) == IF out.p = NULL THEN out ELSE Reread(ParseWithOpts(out.m, out.m.strs[out.p], FALSE), out.p)
PrintAndParse(m, p, fmt) == ReadBack(PrintValue(m, p, 0, fmt))

CopyByText(p, fmt, k) ==
    LET r == PrintAndParse(Memory(k), p, fmt)
    IN  Ends(r.m, Given(r)) /\ UNCHANGED <<text, overwritten>>

-----------------------------------------------------------------------------
(* Writing a text by hand, one symbol at a time.                           *)

\* Whether a string, or an escape in it, is open at the end of t.
Inside(t) ==
    FoldLeft(LAMBDA q, c : IF q = "escape" THEN "string"
                           ELSE IF c = Quote THEN (IF q = "out" THEN "string" ELSE "out")
                           ELSE IF c = "\\" /\ q = "string" THEN "escape" ELSE q,
             "out", t)

\* What may follow: anything between strings, and in them a few letters.
Symbols(t) ==
    CASE Inside(t) = "out" -> {"{", "}", "[", "]", ",", ":", Quote, " ", "null"}
      [] Inside(t) = "string" -> {Quote, "\\", "a"}
      [] Inside(t) = "escape" -> Units \union {Quote, "\\", "n"}

\* The lexemes of t, blanks left out, a string that is still open counted
\* as a string, each with the place where it begins.
Lexemes(t) ==
    LET Starts == {i \in 1 .. Len(t) : t[i] # " " /\ Inside(SubSeq(t, 1, i - 1)) = "out"}
    IN  [k \in 1 .. Cardinality(Starts) |->
           LET i == CHOOSE i \in Starts : Cardinality({j \in Starts : j <= i}) = k
           IN  [sym |-> IF t[i] = Quote THEN "string" ELSE t[i], at |-> i]]

\* The values that the lexemes i .. j of w are the text of: none, or one.
RECURSIVE ValuesOf(_, _, _), Lists(_, _, _, _)
ValuesOf(w, i, j) ==
    IF i > j THEN {}
    ELSE IF i = j THEN IF w[i] \in Leaves \union {"string"} THEN {<<w[i]>>} ELSE {}
    ELSE IF w[i] = "[" /\ w[j] = "]" THEN {<<"array">> \o l : l \in Lists(w, i + 1, j - 1, FALSE)}
    ELSE IF w[i] = "{" /\ w[j] = "}" THEN {<<"object">> \o l : l \in Lists(w, i + 1, j - 1, TRUE)}
    ELSE {}

\* Those of a list of values, or of members, apart by commas.
Lists(w, i, j, named) ==
    LET Part(a, b) == IF named
                      THEN IF a + 1 < b /\ w[a] = "string" /\ w[a + 1] = ":" THEN ValuesOf(w, a + 2, b) ELSE {}
                      ELSE ValuesOf(w, a, b)
        Splits == {k \in i + 1 .. j - 1 : w[k] = "," /\ Part(i, k - 1) # {}}
    IN  IF i > j THEN {<<>>}
        ELSE {<<v>> : v \in Part(i, j)}
             \union UNION {{<<v>> \o l : v \in Part(i, k - 1), l \in Lists(w, k + 1, j, named) \ {<<>>}}
                             : k \in Splits}

Symbol(t) == LET w == Lexemes(t) IN [k \in 1 .. Len(w) |-> w[k].sym]

\* Some text of JSON begins with the lexemes w.
Viable(w) ==
    LET open    == FoldLeft(LAMBDA st, c : IF c = "[" THEN <<"]">> \o st
                                           ELSE IF c = "{" THEN <<"}">> \o st
                                           ELSE IF c \in {"]", "}"} /\ st # <<>> THEN Tail(st) ELSE st,
                            <<>>, w)
        missing == {<<>>, <<"null">>, <<":", "null">>, <<"string", ":", "null">>}
    IN  \E x \in missing : LET all == w \o x \o open IN ValuesOf(all, 1, Len(all)) # {}

\* Where the text goes wrong: at the first lexeme no text of JSON goes on
\* with, or at its end.
WrongAt(t) ==
    LET w   == Lexemes(t)
        bad == {k \in 1 .. Len(w) : ~Viable(SubSeq(Symbol(t), 1, k))}
    IN  IF bad = {} THEN Len(t) + 1 ELSE w[Min(bad)].at

Write(c) ==
    /\ roots = {} /\ Len(text) < MaxText
    /\ text # <<>> => Viable(Symbol(text))
    /\ c \in Symbols(text)
    /\ text' = Append(text, c)
    /\ UNCHANGED <<nodes, strs, roots, fault, overwritten>>

\* The text is parsed and the tree deleted.  A text that ends in the middle
\* of an escape would be read past its end.
ParseText(wholeText, k) ==
    LET r == ParseWithOpts(Memory(k), text, wholeText)
    IN  /\ text # <<>> /\ Inside(text) # "escape"
        /\ Ends(Delete(r.m, r.p), roots)
        /\ text' = <<>> /\ UNCHANGED overwritten

-----------------------------------------------------------------------------
Init ==
    /\ nodes = <<>> /\ strs = <<>> /\ roots = {} /\ text = <<>>
    /\ fault = "none" /\ overwritten = {}

\* Calls that allocate nothing.
Relink ==
    \/ \E a \in Changeable, x \in roots : AddItemToArray(a, x)
    \/ \E a \in Changeable, i \in 0 .. 2 : DetachItemFromArray(a, i) \/ DeleteItemFromArray(a, i)
    \/ \E a \in Objects, n \in Names : DetachItemFromObject(a, n) \/ DeleteItemFromObject(a, n)
    \/ \E a \in Changeable, i \in 0 .. 2, x \in roots : ReplaceItemInArray(a, i, x)
    \/ \E r \in roots : DeleteTree(r)

\* Those whose k-th allocation fails: one or two, or as many as there are items.
AllocateFew(k) ==
    \/ \E type \in {"null"} \union Containers : CreateItem(type, k)
    \/ \E v \in Values : CreateString(v, k)
    \/ \E a \in Objects, x \in roots, n \in Names : AddItemToObject(a, n, x, k)
    \/ \E a \in Changeable, x \in Owned : AddItemReferenceToArray(a, x, k)
    \/ \E a \in Objects, x \in Owned, n \in Names : AddItemReferenceToObject(a, n, x, k)
    \/ \E a \in Objects, n \in Names, x \in roots : ReplaceItemInObject(a, n, x, k)

AllocateMany(k) ==
    \/ \E v \in Values : CreateStringArray(v, MaxNodes, k)
    \/ \E p \in Owned, recurse \in BOOLEAN : DuplicateItem(p, recurse, k)
    \/ \E p \in Owned, fmt \in BOOLEAN : CopyByText(p, fmt, k)

Next ==
    /\ fault = "none"
    /\ \/ text = <<>> /\ (Relink \/ (\E k \in 0 .. 2 : AllocateFew(k)) \/ (\E k \in 0 .. MaxFail : AllocateMany(k)))
       \/ \E c \in Units \union Literals \union {"{", "}", "[", "]", ",", ":", Quote, "\\", " ", "a", "n"} : Write(c)
       \/ \E whole \in BOOLEAN, k \in 0 .. MaxFail : ParseText(whole, k)

Spec == Init /\ [][Next]_vars

-----------------------------------------------------------------------------
(* Correctness.                                                            *)

\* What points at item p: the trees held, lists, and the first of a list.
HoldersOf(p) ==
    {<<"root", p>> : r \in roots \intersect {p}}
    \union {<<"next", q>> : q \in {q \in DOMAIN nodes : nodes[q].next = p}}
    \union {<<"child", q>> : q \in {q \in DOMAIN nodes : ~nodes[q].ref /\ nodes[q].child = p}}

UsersOf(s) ==
    {<<"val", q>> : q \in {q \in DOMAIN nodes : ~nodes[q].ref /\ nodes[q].val = s}}
    \union {<<"string", q>> : q \in {q \in DOMAIN nodes : nodes[q].string = s}}

(***************************************************************************)
(* Whatever calls were made and whichever of their allocations failed,     *)
(* every item has one owner and every string one user, or is a name that   *)
(* ReplaceItemInObject overwrote; the lists are linked in both ways, what  *)
(* references show is there, and no call freed a block twice, used a freed *)
(* one or wrote past the end of a buffer.  (cJSON_Delete, the failure      *)
(* paths of the parser, the printer and cJSON_Duplicate, the lengths they  *)
(* count and allocate (161, 220, 348-398, 453-479), and the relinking of   *)
(* 515-535.)                                                               *)
(***************************************************************************)
MemoryIsAccounted ==
    /\ fault # "memory"
    /\ fault = "none" => \A p \in Owned, fmt \in BOOLEAN : ~PrintAndParse(Now, p, fmt).m.bad
    /\ \A p \in DOMAIN nodes :
          LET n == nodes[p]
          IN  /\ Cardinality(HoldersOf(p)) = 1
              /\ {n.next, n.prev, n.child} \subseteq DOMAIN nodes \union {NULL}
              /\ {n.val, n.string} \subseteq DOMAIN strs \union {NULL}
              /\ n.next # NULL => nodes[n.next].prev = p
              /\ n.prev # NULL => nodes[n.prev].next = p
    /\ \A s \in DOMAIN strs :
          Cardinality(UsersOf(s)) = IF s \in overwritten THEN 0 ELSE 1

RECURSIVE Shape(_, _, _)
Shape(m, p, named) ==
    LET n    == m.nodes[p]
        kids == Children(m, p)
        Chars0(s) == IF s = NULL THEN <<"NULL">> ELSE m.strs[s]
    IN  [type |-> n.type, val |-> IF n.val = NULL THEN <<>> ELSE m.strs[n.val],
         string |-> IF named THEN Chars0(n.string) ELSE <<>>,
         kids |-> [i \in 1 .. Len(kids) |-> Shape(m, kids[i], n.type = "object")]]

\* No string or name in the tree is missing for want of memory, and what is
\* in an object came there with a name.
Whole(p) ==
    \A q \in Shown(p) :
        /\ nodes[q].type = "string" => nodes[q].val # NULL
        /\ nodes[q].type = "object" => \A k \in Kids(q) : nodes[k].string # NULL

(***************************************************************************)
(* A tree printed, formatted or not, and parsed again is the tree it was,  *)
(* and so is its duplicate, references in it followed: names, strings with *)
(* their escapes and the order of lists come back.  (print_value and       *)
(* parse_value as inverses, cJSON_Duplicate 554-579.)                      *)
(***************************************************************************)
CopiesAreEqual ==
    fault = "none" =>
    \A p \in Owned :
        LET d == Duplicate(Now, p, TRUE)
            Same(c) == c.p # NULL /\ Shape(c.m, c.p, FALSE) = Shape(Now, p, FALSE)
        IN  /\ Same(d) /\ Shape(d.m, d.p, TRUE) = Shape(Now, p, TRUE)
            /\ Whole(p) => \A fmt \in BOOLEAN : Same(PrintAndParse(Now, p, fmt))

\* The structure of a parsed item, as ValuesOf gives it.
RECURSIVE Structure(_, _)
Structure(m, p) ==
    LET kids == Children(m, p)
    IN  <<m.nodes[p].type>> \o [i \in 1 .. Len(kids) |-> Structure(m, kids[i])]

(***************************************************************************)
(* cJSON_ParseWithOpts, told to read to the end, accepts what the grammar  *)
(* of JSON gives, and strings that the text ends in, with the structure of *)
(* the grammar; else its error pointer is where the text goes wrong.       *)
(* (parse_value 287-299, parse_array 320-345, parse_object 406-439.)       *)
(***************************************************************************)
ReadsJson ==
    (text # <<>> /\ Inside(text) # "escape") =>
    LET r == ParseWithOpts(Now, text, TRUE)
        w == Symbol(text)
        values == ValuesOf(w, 1, Len(w))
    IN  /\ ~r.m.bad
        /\ (r.p # NULL) = (values # {})
        /\ r.p # NULL => Structure(r.m, r.p) \in values
        /\ r.p = NULL => r.m.ep = WrongAt(text)
=============================================================================
