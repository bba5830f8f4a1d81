--------------------------- MODULE ConfigTreeProofs --------------------------
(***************************************************************************)
(* Proofs about ConfigTree, for any number of settings, any CHUNK_SIZE and *)
(* any calls.                                                              *)
(***************************************************************************)
EXTENDS ConfigTree, FiniteSetTheorems, SequenceTheorems, TLAPS

Fields == {"type", "name", "parent", "val", "hex", "hook", "kids", "cap"}

(* The settings of h are one tree below the root. *)
WellFormed(h) ==
  /\ DOMAIN h \subseteq Ids /\ Root \in DOMAIN h
  /\ h[Root].parent = Nil /\ h[Root].type = "GROUP"
  /\ \A s \in DOMAIN h : /\ DOMAIN h[s] = Fields
                         /\ h[s].type \in Types
                         /\ h[s].kids \in Seq(DOMAIN h)
                         /\ IsInjective(h[s].kids)
                         /\ \A i \in DOMAIN h[s].kids : h[h[s].kids[i]].parent = s
  /\ Below(h, Root) = DOMAIN h

(* Every list has room for a whole chunk past each chunk it has begun. *)
HasRoom(len, cap) ==
  /\ cap \in Nat /\ len <= cap
  /\ \A q \in Nat : q * Chunk < len => (q + 1) * Chunk <= cap
Room(h) == \A s \in DOMAIN h : HasRoom(Len(h[s].kids), h[s].cap)

(* Every hook handed over hangs on one setting at most. *)
HooksApart(h, over) ==
  /\ \A s \in DOMAIN h : h[s].hook \in over \cup {Nil}
  /\ \A s, t \in DOMAIN h : h[s].hook = h[t].hook /\ h[s].hook # Nil => s = t

(* A call that only fills in settings leaves the tree as it is. *)
SameTree(h, g) ==
  /\ DOMAIN g = DOMAIN h
  /\ \A x \in DOMAIN h : /\ DOMAIN g[x] = Fields
                         /\ g[x].parent = h[x].parent /\ g[x].kids = h[x].kids /\ g[x].cap = h[x].cap
                         /\ g[x].name = h[x].name
                         /\ g[x].type \in Types /\ (h[x].type # "NONE" => g[x].type = h[x].type)

LEMMA SameTreeKeeps ==
  ASSUME NEW h, NEW g, WellFormed(h), SameTree(h, g)
  PROVE  WellFormed(g) /\ (Room(h) => Room(g))
<1>1. WellFormed(g)
  <2>1. Below(g, Root) = DOMAIN g
    <3>1. ASSUME NEW S \in SUBSET DOMAIN h PROVE Closed(g, S) <=> Closed(h, S)
      BY DEF SameTree, Closed
    <3> QED
      BY <3>1 DEF SameTree, WellFormed, Below
  <2>2. ASSUME NEW s \in DOMAIN g
        PROVE  /\ DOMAIN g[s] = Fields /\ g[s].type \in Types
               /\ g[s].kids \in Seq(DOMAIN g) /\ IsInjective(g[s].kids)
               /\ \A i \in DOMAIN g[s].kids : g[g[s].kids[i]].parent = s
    <3>1. g[s].kids = h[s].kids /\ DOMAIN g = DOMAIN h
      BY <2>2 DEF SameTree
    <3>2. ASSUME NEW i \in DOMAIN h[s].kids PROVE h[s].kids[i] \in DOMAIN h
      BY <2>2, <3>1 DEF WellFormed
    <3> QED
      BY <2>2, <3>1, <3>2 DEF SameTree, WellFormed
  <2> QED
    BY <2>1, <2>2 DEF SameTree, WellFormed
<1>2. ASSUME Room(h) PROVE Room(g)
  BY <1>2 DEF SameTree, Room
<1> QED
  BY <1>1, <1>2

LEMMA SetScalarTree ==
  ASSUME NEW h, WellFormed(h), NEW au \in BOOLEAN, NEW s \in DOMAIN h, NEW v,
         NEW kind \in Types \ (Aggregates \cup {"NONE"})
  PROVE  LET g == SetScalar(h, au, s, kind, v)[1]
         IN  SameTree(h, g) /\ \A x \in DOMAIN h : g[x].hook = h[x].hook
<1> DEFINE t == IF h[s].type = "NONE" THEN kind ELSE h[s].type
           g == [h EXCEPT ![s].type = t, ![s].val = Stored(kind, t, v)]
<1>1. t \in Types
  BY DEF WellFormed
<1>2. SameTree(h, g) /\ \A x \in DOMAIN h : g[x].hook = h[x].hook
  BY <1>1 DEF SameTree, WellFormed, Fields
<1>3. SameTree(h, h)
  BY DEF SameTree, WellFormed
<1> QED
  BY <1>2, <1>3 DEF SetScalar

(* No member of the group p has the name n. *)
NewMember(h, p, n) == n # Nil => \A y \in ToSet(h[p].kids) : h[y].name # n

(* s is a new leaf at the end of p's list. *)
Grown(h, g, p, s, t) ==
  /\ s \in Ids \ DOMAIN h /\ p \in DOMAIN h /\ DOMAIN g = DOMAIN h \cup {s}
  /\ \A x \in DOMAIN h \ {p} : g[x] = h[x]
  /\ DOMAIN g[p] = Fields
  /\ g[p].type = h[p].type /\ g[p].parent = h[p].parent /\ g[p].hook = h[p].hook
  /\ g[p].name = h[p].name
  /\ g[p].kids = Append(h[p].kids, s)
  /\ g[p].cap = IF Len(h[p].kids) % Chunk = 0 THEN Len(h[p].kids) + Chunk ELSE h[p].cap
  /\ DOMAIN g[s] = Fields /\ g[s].type = t /\ g[s].parent = p
  /\ g[s].kids = <<>> /\ g[s].cap = 0 /\ g[s].hook = Nil
  /\ h[p].type \in Aggregates /\ (h[p].type = "GROUP" => NewMember(h, p, g[s].name))

LEMMA CreateGrows ==
  ASSUME NEW h, WellFormed(h), NEW p \in DOMAIN h, NEW n, NEW t, FreeIds(h) # {},
         h[p].type = "GROUP" => NewMember(h, p, n)
  PROVE  \/ Create(h, p, n, t) = <<h, Nil>>
         \/ /\ Create(h, p, n, t)[2] = Fresh(h)
            /\ Grown(h, Create(h, p, n, t)[1], p, Fresh(h), t)
<1> DEFINE s == Fresh(h)
           h1 == [x \in DOMAIN h \cup {s} |-> IF x = s THEN Blank(t, n, p) ELSE h[x]]
           len == Len(h[p].kids)
           cap1 == IF Len(h1[p].kids) % Chunk = 0 THEN Len(h1[p].kids) + Chunk ELSE h1[p].cap
           g == ListAdd(h1, p, s)
<1>1. s \in Ids \ DOMAIN h
  BY DEF Fresh, FreeIds
<1>2. h1[p] = h[p] /\ DOMAIN h1 = DOMAIN h \cup {s} /\ DOMAIN h1[p] = Fields /\ h1[s] = Blank(t, n, p)
  BY <1>1 DEF WellFormed
<1>3. \A x \in DOMAIN h : h1[x] = h[x]
  BY <1>1
<1>4. /\ DOMAIN g = DOMAIN h1 /\ \A x \in DOMAIN h1 \ {p} : g[x] = h1[x]
      /\ DOMAIN g[p] = Fields
      /\ g[p].type = h1[p].type /\ g[p].parent = h1[p].parent /\ g[p].hook = h1[p].hook
      /\ g[p].name = h1[p].name
      /\ g[p].kids = Append(h1[p].kids, s) /\ g[p].cap = cap1
  <2> HIDE DEF h1
  <2> QED
    BY <1>2 DEF ListAdd, Fields
<1>5. /\ DOMAIN g[s] = Fields /\ g[s].type = t /\ g[s].parent = p /\ g[s].name = n
      /\ g[s].kids = <<>> /\ g[s].cap = 0 /\ g[s].hook = Nil
  <2>1. g[s] = Blank(t, n, p)
    BY <1>1, <1>2, <1>4
  <2> HIDE DEF g, h1, s
  <2> QED
    BY <2>1 DEF Blank, Fields
<1>6. h[p].type \in Aggregates => Grown(h, g, p, s, t)
  <2> HIDE DEF s, h1, g
  <2> QED
    BY <1>1, <1>2, <1>3, <1>4, <1>5 DEF Grown
<1> QED
  BY <1>6 DEF Create

(* A list that had room has room after __config_list_add. *)
LEMMA RoomForOneMore ==
  ASSUME NEW len \in Nat, NEW cap, HasRoom(len, cap)
  PROVE  HasRoom(len + 1, IF len % Chunk = 0 THEN len + Chunk ELSE cap)
<1>1. Chunk \in Nat /\ Chunk > 0
  BY WidthAssumption
<1> DEFINE b == len \div Chunk
<1>2. b \in Nat /\ len % Chunk \in Nat /\ len % Chunk < Chunk /\ len = b * Chunk + (len % Chunk)
  BY <1>1, Z3
<1>3. CASE len % Chunk = 0
  <2>1. ASSUME NEW q \in Nat, q * Chunk < len + 1 PROVE (q + 1) * Chunk <= len + Chunk
    <3>1. (q + 1) * Chunk = q * Chunk + Chunk /\ q * Chunk \in Nat
      BY <1>1, Z3
    <3> HIDE DEF b
    <3> QED
      BY <1>1, <2>1, <3>1
  <2> QED
    BY <1>1, <1>3, <2>1 DEF HasRoom
<1>4. CASE len % Chunk # 0
  <2>1. (b + 1) * Chunk <= cap /\ (b + 1) * Chunk = b * Chunk + Chunk /\ b * Chunk \in Nat
    <3>1. b * Chunk \in Nat /\ b * Chunk < len
      BY <1>1, <1>2, <1>4, Z3
    <3>2. (b + 1) * Chunk = b * Chunk + Chunk
      BY <1>1, <1>2, Z3
    <3> HIDE DEF b
    <3> QED
      BY <1>2, <3>1, <3>2 DEF HasRoom
  <2>2. len + 1 <= cap
    <3> HIDE DEF b
    <3> QED
      BY <1>1, <1>2, <2>1 DEF HasRoom
  <2>3. ASSUME NEW q \in Nat, q * Chunk < len + 1 PROVE (q + 1) * Chunk <= cap
    <3>1. CASE q * Chunk < len
      BY <3>1 DEF HasRoom
    <3>2. CASE q * Chunk = len
      <4>1. q <= b => q * Chunk <= b * Chunk
        BY <1>1, <1>2, Z3
      <4>2. q >= b + 1 => q * Chunk >= (b + 1) * Chunk
        BY <1>1, <1>2, Z3
      <4>3. b * Chunk \in Nat /\ q * Chunk \in Nat /\ (b + 1) * Chunk = b * Chunk + Chunk
        BY <1>1, <1>2, Z3
      <4> HIDE DEF b
      <4> QED
        BY <1>1, <1>2, <1>4, <3>2, <4>1, <4>2, <4>3
    <3>3. q * Chunk \in Nat
      BY <1>1, Z3
    <3> QED
      BY <2>3, <3>1, <3>2, <3>3
  <2> QED
    BY <1>4, <2>2, <2>3 DEF HasRoom
<1> QED
  BY <1>3, <1>4

LEMMA GrownKeeps ==
  ASSUME NEW h, NEW g, NEW p, NEW s, NEW t \in Types, WellFormed(h), Grown(h, g, p, s, t)
  PROVE  WellFormed(g) /\ (Room(h) => Room(g))
<1>1. h[p].kids \in Seq(DOMAIN h) /\ p \in Ids /\ s \notin DOMAIN h
  BY DEF WellFormed, Grown
<1>2. \A i \in DOMAIN h[p].kids : h[p].kids[i] \in DOMAIN h
  BY <1>1
<1>3. /\ DOMAIN g[p].kids = 1 .. Len(h[p].kids) + 1
      /\ \A i \in DOMAIN h[p].kids : g[p].kids[i] = h[p].kids[i]
      /\ g[p].kids[Len(h[p].kids) + 1] = s
      /\ g[p].kids \in Seq(DOMAIN g) /\ Len(g[p].kids) = Len(h[p].kids) + 1
      /\ DOMAIN h[p].kids = 1 .. Len(h[p].kids) /\ Len(h[p].kids) \in Nat
  BY <1>1 DEF Grown
<1>4. \A y \in DOMAIN h : y # s /\ g[y].parent = h[y].parent
  BY <1>1 DEF Grown
<1>5. ASSUME NEW x \in DOMAIN g
      PROVE  /\ DOMAIN g[x] = Fields /\ g[x].type \in Types
             /\ g[x].kids \in Seq(DOMAIN g) /\ IsInjective(g[x].kids)
             /\ \A i \in DOMAIN g[x].kids : g[g[x].kids[i]].parent = x
  <2>1. CASE x \in DOMAIN h \ {p}
    <3>1. h[x].kids \in Seq(DOMAIN h) /\ g[x] = h[x]
      BY <2>1 DEF WellFormed, Grown
    <3>2. \A i \in DOMAIN h[x].kids : h[x].kids[i] \in DOMAIN h
      BY <3>1
    <3>3. g[x].kids \in Seq(DOMAIN g)
      BY <3>1 DEF Grown
    <3>4. IsInjective(g[x].kids) /\ DOMAIN g[x] = Fields /\ g[x].type \in Types
      BY <2>1, <3>1 DEF WellFormed
    <3>5. \A i \in DOMAIN g[x].kids : g[g[x].kids[i]].parent = x
      BY <1>4, <2>1, <3>1, <3>2 DEF WellFormed
    <3> QED
      BY <3>3, <3>4, <3>5
  <2>2. CASE x = p
    <3>1. IsInjective(g[p].kids)
      <4>1. PICK n \in Nat : n = Len(h[p].kids)
        BY <1>3
      <4>2. \A i \in 1 .. n : h[p].kids[i] # s
        BY <1>1, <1>2, <1>3, <4>1
      <4>3. \A i, j \in 1 .. n : h[p].kids[i] = h[p].kids[j] => i = j
        <5>1. IsInjective(h[p].kids)
          BY DEF WellFormed, Grown
        <5> QED
          BY <1>3, <4>1, <5>1 DEF IsInjective
      <4>4. \A i \in 1 .. n + 1 : i \in 1 .. n \/ i = n + 1
        BY <4>1
      <4>5. \A i \in 1 .. n : g[p].kids[i] = h[p].kids[i]
        BY <1>3, <4>1
      <4>6. ASSUME NEW i \in 1 .. n + 1, NEW j \in 1 .. n + 1, g[p].kids[i] = g[p].kids[j]
            PROVE  i = j
        <5>1. g[p].kids[n + 1] = s
          BY <1>3, <4>1
        <5>2. CASE i \in 1 .. n /\ j \in 1 .. n
          BY <4>3, <4>5, <4>6, <5>2
        <5>3. CASE i \in 1 .. n /\ j = n + 1
          BY <4>2, <4>5, <4>6, <5>1, <5>3
        <5>4. CASE i = n + 1 /\ j \in 1 .. n
          BY <4>2, <4>5, <4>6, <5>1, <5>4
        <5> QED
          BY <4>4, <5>2, <5>3, <5>4
      <4> QED
        BY <1>3, <4>1, <4>6 DEF IsInjective
    <3>2. ASSUME NEW i \in DOMAIN g[p].kids PROVE g[g[p].kids[i]].parent = p
      <4>1. CASE i \in DOMAIN h[p].kids
        BY <1>4, <1>2, <1>3, <4>1 DEF WellFormed, Grown
      <4>2. CASE i = Len(h[p].kids) + 1
        BY <1>3, <4>2 DEF Grown
      <4> QED
        BY <1>3, <4>1, <4>2
    <3> QED
      BY <1>3, <2>2, <3>1, <3>2 DEF WellFormed, Grown
  <2>3. CASE x = s
    <3>1. g[s].kids = <<>> /\ DOMAIN g[s] = Fields /\ g[s].type \in Types
      BY DEF Grown
    <3>2. <<>> \in Seq(DOMAIN g) /\ DOMAIN <<>> = {}
      OBVIOUS
    <3>3. IsInjective(g[s].kids)
      BY <3>1, <3>2 DEF IsInjective
    <3> QED
      BY <2>3, <3>1, <3>2, <3>3
  <2> QED
    BY <2>1, <2>2, <2>3 DEF Grown
<1>6. Below(g, Root) = DOMAIN g
  <2> SUFFICES ASSUME NEW S \in SUBSET DOMAIN g, Root \in S, Closed(g, S)
               PROVE  DOMAIN g \subseteq S
    BY DEF Below
  <2>1. Closed(h, S \cap DOMAIN h)
    <3> SUFFICES ASSUME NEW x \in S, x \in DOMAIN h, NEW i \in DOMAIN h[x].kids
                 PROVE  h[x].kids[i] \in S \cap DOMAIN h
      BY DEF Closed, ToSet, Range
    <3>1. h[x].kids[i] \in DOMAIN h
      BY DEF WellFormed
    <3>2. i \in DOMAIN g[x].kids /\ g[x].kids[i] = h[x].kids[i]
      <4>1. CASE x = p
        BY <1>3, <4>1
      <4>2. CASE x # p
        <5>1. g[x] = h[x]
          BY <4>2 DEF Grown
        <5> QED
          BY <5>1
      <4> QED
        BY <4>1, <4>2
    <3>3. g[x].kids[i] \in ToSet(g[x].kids)
      BY <3>2 DEF ToSet, Range
    <3> QED
      BY <3>1, <3>2, <3>3 DEF Closed
  <2>2. DOMAIN h \subseteq S
    BY <2>1 DEF WellFormed, Below
  <2>3. s \in ToSet(g[p].kids)
    BY <1>3 DEF ToSet, Range
  <2> QED
    BY <2>2, <2>3 DEF Closed, Grown
<1>7. ASSUME Room(h) PROVE Room(g)
  <2> SUFFICES ASSUME NEW x \in DOMAIN g PROVE HasRoom(Len(g[x].kids), g[x].cap)
    BY DEF Room
  <2>1. CASE x \in DOMAIN h \ {p}
    BY <1>7, <2>1 DEF Room, Grown
  <2>2. CASE x = p
    <3>1. HasRoom(Len(h[p].kids), h[p].cap)
      BY <1>7 DEF Room, Grown
    <3> QED
      BY <1>3, <2>2, <3>1, RoomForOneMore DEF Grown
  <2>3. CASE x = s
    <3>1. Chunk \in Nat
      BY WidthAssumption
    <3>2. \A q \in Nat : q * Chunk \in Nat
      BY <3>1, Z3
    <3>3. Len(g[s].kids) = 0 /\ g[s].cap = 0
      BY DEF Grown
    <3> QED
      BY <2>3, <3>2, <3>3 DEF HasRoom
  <2> QED
    BY <2>1, <2>2, <2>3 DEF Grown
<1> QED
  BY <1>5, <1>6, <1>7 DEF WellFormed, Grown

LEMMA RemoveAtElements ==
  ASSUME NEW T, NEW q \in Seq(T), NEW i \in 1 .. Len(q)
  PROVE  /\ RemoveAt(q, i) \in Seq(T) /\ Len(RemoveAt(q, i)) = Len(q) - 1
         /\ \A j \in 1 .. Len(q) - 1 : RemoveAt(q, i)[j] = IF j < i THEN q[j] ELSE q[j + 1]
<1> DEFINE front == SubSeq(q, 1, i - 1)
           back == SubSeq(q, i + 1, Len(q))
<1>1. Len(q) \in Nat /\ i \in Nat /\ 1 <= i /\ i <= Len(q)
  OBVIOUS
<1>2. front \in Seq(T) /\ Len(front) = i - 1 /\ \A j \in 1 .. i - 1 : front[j] = q[j]
  BY <1>1
<1>3. back \in Seq(T) /\ Len(back) = Len(q) - i /\ \A j \in 1 .. Len(q) - i : back[j] = q[i + j]
  BY <1>1
<1>4. RemoveAt(q, i) = front \o back
  BY DEF RemoveAt
<1> HIDE DEF front, back
<1>5. /\ front \o back \in Seq(T) /\ Len(front \o back) = Len(q) - 1
      /\ \A j \in 1 .. Len(q) - 1 :
           (front \o back)[j] = IF j <= i - 1 THEN front[j] ELSE back[j - (i - 1)]
  <2>1. Len(front) + Len(back) = Len(q) - 1
    BY <1>1, <1>2, <1>3
  <2>2. front \o back \in Seq(T) /\ Len(front \o back) = Len(front) + Len(back)
    BY <1>2, <1>3, ConcatProperties
  <2>3. ASSUME NEW j \in 1 .. Len(front) + Len(back)
        PROVE  (front \o back)[j] = IF j <= Len(front) THEN front[j] ELSE back[j - Len(front)]
    BY <1>2, <1>3, ConcatProperties
  <2>4. Len(front) = i - 1
    BY <1>2
  <2> QED
    BY <2>1, <2>2, <2>3, <2>4
<1>6. ASSUME NEW j \in 1 .. Len(q) - 1
      PROVE  (front \o back)[j] = IF j < i THEN q[j] ELSE q[j + 1]
  <2>1. CASE j < i
    BY <1>1, <1>2, <1>5, <2>1
  <2>2. CASE ~(j < i)
    <3>1. j - (i - 1) \in 1 .. Len(q) - i /\ i + (j - (i - 1)) = j + 1
      BY <1>1, <2>2
    <3> QED
      BY <1>1, <1>3, <1>5, <2>2, <3>1
  <2> QED
    BY <2>1, <2>2
<1> QED
  BY <1>4, <1>5, <1>6

(* Below is closed, and what hangs below s hangs there through its parent. *)
LEMMA BelowByParents ==
  ASSUME NEW h, WellFormed(h), NEW s \in DOMAIN h
  PROVE  /\ s \in Below(h, s) /\ Below(h, s) \subseteq DOMAIN h /\ Closed(h, Below(h, s))
         /\ \A x \in Below(h, s) : x = s \/ h[x].parent \in Below(h, s)
<1> DEFINE B == Below(h, s)
<1>1. s \in B /\ B \subseteq DOMAIN h
  BY DEF Below
<1>2. Closed(h, B)
  <2> SUFFICES ASSUME NEW x \in B, NEW y \in ToSet(h[x].kids) PROVE y \in B
    BY DEF Closed
  <2>1. y \in DOMAIN h
    <3>1. h[x].kids \in Seq(DOMAIN h)
      BY <1>1 DEF WellFormed
    <3> QED
      BY <3>1 DEF ToSet
  <2>2. ASSUME NEW S \in SUBSET DOMAIN h, s \in S, Closed(h, S) PROVE y \in S
    <3>1. x \in S
      BY <2>2 DEF Below
    <3> QED
      BY <2>2, <3>1 DEF Closed
  <2> QED
    BY <2>1, <2>2 DEF Below
<1>3. ASSUME NEW x \in B PROVE x = s \/ h[x].parent \in B
  <2> DEFINE S == {y \in B : y = s \/ h[y].parent \in B}
  <2>1. Closed(h, S)
    <3> SUFFICES ASSUME NEW y \in S, NEW i \in DOMAIN h[y].kids PROVE h[y].kids[i] \in S
      BY DEF Closed, ToSet
    <3>1. h[y].kids[i] \in B
      BY <1>2 DEF Closed, ToSet
    <3>2. h[h[y].kids[i]].parent = y
      BY <1>1 DEF WellFormed
    <3> QED
      BY <3>1, <3>2
  <2>2. s \in S /\ S \subseteq DOMAIN h
    BY <1>1
  <2>3. x \in S
    <3> HIDE DEF S
    <3> QED
      BY <2>1, <2>2 DEF Below
  <2> QED
    BY <2>3
<1> QED
  BY <1>1, <1>2, <1>3

(* Cut takes out s and what is below it, and s out of p's list. *)
LEMMA CutKeeps ==
  ASSUME NEW h, NEW p \in DOMAIN h, NEW s \in ToSet(h[p].kids), WellFormed(h)
  PROVE  LET g == Cut(h, p, s)
         IN  /\ WellFormed(g) /\ (Room(h) => Room(g))
             /\ DOMAIN g = DOMAIN h \ Below(h, s)
             /\ \A x \in DOMAIN g : /\ g[x].type = h[x].type /\ g[x].hook = h[x].hook
                                    /\ g[x].name = h[x].name
                                    /\ ToSet(g[x].kids) \subseteq ToSet(h[x].kids)
<1> DEFINE B == Below(h, s)
           i == CHOOSE i \in DOMAIN h[p].kids : h[p].kids[i] = s
           list == RemoveAt(h[p].kids, i)
           g == Cut(h, p, s)
           D == DOMAIN h \ B
<1>1. /\ h[p].kids \in Seq(DOMAIN h) /\ s \in DOMAIN h /\ h[s].parent = p
      /\ i \in DOMAIN h[p].kids /\ h[p].kids[i] = s
  <2>1. PICK j \in DOMAIN h[p].kids : h[p].kids[j] = s
    BY DEF ToSet
  <2>2. h[p].kids \in Seq(DOMAIN h)
    BY DEF WellFormed
  <2> QED
    BY <2>1, <2>2 DEF WellFormed
<1>2. /\ s \in B /\ B \subseteq DOMAIN h /\ Closed(h, B)
      /\ \A x \in B : x = s \/ h[x].parent \in B
  BY <1>1, BelowByParents
<1> HIDE DEF B
<1>3. Root \in D
  <2>1. Nil \notin DOMAIN h /\ h[Root].parent = Nil /\ Root \in DOMAIN h
    BY IdsAssumption DEF WellFormed
  <2>2. Root # s
    BY <1>1, <2>1
  <2> QED
    BY <1>2, <2>1, <2>2
<1>4. \A x \in DOMAIN h, y \in DOMAIN h : y \in ToSet(h[x].kids) => h[y].parent = x
  BY DEF WellFormed, ToSet
<1>5. p \in D
  <2> SUFFICES ASSUME p \in B PROVE FALSE
    OBVIOUS
  <2>1. Closed(h, D)
    <3> SUFFICES ASSUME NEW x \in D, NEW y \in ToSet(h[x].kids) PROVE y \in D
      BY DEF Closed
    <3>1. y \in DOMAIN h
      BY DEF WellFormed, ToSet
    <3> QED
      BY <1>1, <1>2, <1>4, <3>1
  <2>2. Below(h, Root) \subseteq D
    BY <1>3, <2>1 DEF Below
  <2> QED
    BY <1>1, <1>2, <2>2 DEF WellFormed
<1>6. /\ list \in Seq(DOMAIN h) /\ Len(list) = Len(h[p].kids) - 1 /\ Len(h[p].kids) \in Nat
      /\ \A j \in 1 .. Len(h[p].kids) - 1 : list[j] = IF j < i THEN h[p].kids[j] ELSE h[p].kids[j + 1]
      /\ i \in Nat /\ 1 <= i /\ i <= Len(h[p].kids)
      /\ DOMAIN h[p].kids = 1 .. Len(h[p].kids)
  <2> HIDE DEF i
  <2>1. /\ DOMAIN h[p].kids = 1 .. Len(h[p].kids) /\ Len(h[p].kids) \in Nat
        /\ i \in 1 .. Len(h[p].kids)
    BY <1>1
  <2>2. /\ RemoveAt(h[p].kids, i) \in Seq(DOMAIN h)
        /\ Len(RemoveAt(h[p].kids, i)) = Len(h[p].kids) - 1
        /\ \A j \in 1 .. Len(h[p].kids) - 1 :
             RemoveAt(h[p].kids, i)[j] = IF j < i THEN h[p].kids[j] ELSE h[p].kids[j + 1]
    BY <1>1, <2>1, RemoveAtElements
  <2> QED
    BY <2>1, <2>2
<1>7. IsInjective(h[p].kids) /\ DOMAIN list = 1 .. Len(h[p].kids) - 1
  <2> HIDE DEF i, list
  <2>1. DOMAIN list = 1 .. Len(list)
    BY <1>6
  <2> QED
    BY <1>6, <2>1 DEF WellFormed
<1>8. ASSUME NEW j \in DOMAIN list PROVE list[j] # s /\ \E k \in DOMAIN h[p].kids : list[j] = h[p].kids[k]
  <2> HIDE DEF i, list
  <2>1. CASE j < i
    <3>1. j \in DOMAIN h[p].kids /\ j # i /\ list[j] = h[p].kids[j]
      BY <1>6, <1>7, <2>1
    <3> QED
      BY <1>1, <1>7, <3>1 DEF IsInjective
  <2>2. CASE ~(j < i)
    <3>1. j + 1 \in DOMAIN h[p].kids /\ j + 1 # i /\ list[j] = h[p].kids[j + 1]
      BY <1>6, <1>7, <2>2
    <3> QED
      BY <1>1, <1>7, <3>1 DEF IsInjective
  <2> QED
    BY <2>1, <2>2
<1>9. IsInjective(list)
  <2> SUFFICES ASSUME NEW j \in DOMAIN list, NEW k \in DOMAIN list, list[j] = list[k] PROVE j = k
    BY DEF IsInjective
  <2> DEFINE at(m) == IF m < i THEN m ELSE m + 1
  <2> HIDE DEF i, list
  <2>1. at(j) \in DOMAIN h[p].kids /\ at(k) \in DOMAIN h[p].kids
    BY <1>6, <1>7
  <2>2. list[j] = h[p].kids[at(j)] /\ list[k] = h[p].kids[at(k)]
    BY <1>6, <1>7
  <2>3. at(j) = at(k)
    BY <1>7, <2>1, <2>2 DEF IsInjective
  <2> QED
    BY <1>6, <1>7, <2>3
<1>10. /\ DOMAIN g = D /\ \A x \in D \ {p} : g[x] = h[x]
       /\ DOMAIN g[p] = Fields /\ g[p].type = h[p].type /\ g[p].parent = h[p].parent
       /\ g[p].hook = h[p].hook /\ g[p].cap = h[p].cap /\ g[p].kids = list
       /\ g[p].name = h[p].name
  <2>1. g = [x \in D |-> IF x = p THEN [h[p] EXCEPT !.kids = list] ELSE h[x]]
    BY DEF Cut, B
  <2>2. DOMAIN h[p] = Fields
    BY DEF WellFormed
  <2> HIDE DEF g, D, list
  <2>3. DOMAIN g = D /\ (\A x \in D \ {p} : g[x] = h[x]) /\ g[p] = [h[p] EXCEPT !.kids = list]
    BY <1>5, <2>1
  <2> QED
    BY <2>2, <2>3 DEF Fields
<1> HIDE DEF i, list, g
<1>11. ASSUME NEW x \in D, NEW j \in DOMAIN g[x].kids
       PROVE  g[x].kids[j] \in D /\ g[x].kids[j] \in ToSet(h[x].kids)
  <2>1. g[x].kids[j] \in ToSet(h[x].kids)
    <3>1. CASE x = p
      BY <1>8, <1>10, <3>1 DEF ToSet
    <3>2. CASE x # p
      BY <1>10, <3>2 DEF ToSet
    <3> QED
      BY <3>1, <3>2
  <2>2. g[x].kids[j] \in DOMAIN h /\ h[g[x].kids[j]].parent = x
    <3>1. ToSet(h[x].kids) \subseteq DOMAIN h
      BY DEF WellFormed, ToSet
    <3> QED
      BY <1>4, <2>1, <3>1
  <2>3. g[x].kids[j] # s
    <3>1. CASE x = p
      BY <1>8, <1>10, <3>1
    <3>2. CASE x # p
      BY <1>1, <2>2, <3>2
    <3> QED
      BY <3>1, <3>2
  <2> QED
    BY <1>2, <2>1, <2>2, <2>3
<1>12. ASSUME NEW x \in D
       PROVE  /\ DOMAIN g[x] = Fields /\ g[x].type \in Types
              /\ g[x].kids \in Seq(DOMAIN g) /\ IsInjective(g[x].kids)
              /\ \A j \in DOMAIN g[x].kids : g[g[x].kids[j]].parent = x
              /\ Len(g[x].kids) <= Len(h[x].kids) /\ Len(g[x].kids) \in Nat /\ Len(h[x].kids) \in Nat
              /\ g[x].cap = h[x].cap /\ g[x].type = h[x].type /\ g[x].hook = h[x].hook
              /\ g[x].name = h[x].name
  <2>1. \A y \in D : g[y].parent = h[y].parent
    BY <1>10
  <2>2. \A j \in DOMAIN g[x].kids : g[g[x].kids[j]].parent = x
    <3>1. ToSet(h[x].kids) \subseteq DOMAIN h
      BY DEF WellFormed, ToSet
    <3> QED
      BY <1>4, <1>11, <2>1, <3>1
  <2>3. \E T : g[x].kids \in Seq(T)
    BY <1>6, <1>10 DEF WellFormed
  <2>4. g[x].kids \in Seq(DOMAIN g)
    BY <1>10, <1>11, <2>3
  <2>5. CASE x = p
    <3>1. DOMAIN g[p] = Fields /\ g[p].type \in Types /\ IsInjective(g[p].kids)
      BY <1>9, <1>10 DEF WellFormed
    <3>2. Len(g[p].kids) <= Len(h[p].kids) /\ Len(g[p].kids) \in Nat /\ Len(h[p].kids) \in Nat
      BY <1>6, <1>10, <1>8, <1>1
    <3> QED
      BY <1>10, <2>2, <2>4, <2>5, <3>1, <3>2
  <2>6. CASE x # p
    <3>1. g[x] = h[x] /\ x \in DOMAIN h
      BY <1>10, <2>6
    <3>2. DOMAIN h[x] = Fields /\ h[x].type \in Types /\ IsInjective(h[x].kids) /\ h[x].kids \in Seq(DOMAIN h)
      BY <3>1 DEF WellFormed
    <3> QED
      BY <2>2, <2>4, <3>1, <3>2
  <2> QED
    BY <2>5, <2>6
<1>13. Below(g, Root) = DOMAIN g
  <2> SUFFICES ASSUME NEW S \in SUBSET D, Root \in S, Closed(g, S)
               PROVE  D \subseteq S
    BY <1>10 DEF Below
  <2>1. Closed(h, S \cup B)
    <3> SUFFICES ASSUME NEW x \in S \cup B, NEW y \in ToSet(h[x].kids) PROVE y \in S \cup B
      BY DEF Closed
    <3>1. CASE x \in B
      BY <1>2, <3>1 DEF Closed
    <3>2. CASE x \in S /\ x # p
      BY <1>10, <3>2 DEF Closed
    <3>3. CASE x = p /\ p \in S
      <4>1. PICK k \in DOMAIN h[p].kids : h[p].kids[k] = y
        BY <3>3 DEF ToSet
      <4>2. CASE y = s
        BY <1>2, <4>2
      <4>3. CASE y # s
        <5>1. \E j \in DOMAIN list : list[j] = y
          <6>1. CASE k < i
            BY <1>6, <1>7, <4>1, <6>1
          <6>2. CASE k > i
            <7>1. k - 1 \in DOMAIN list /\ ~(k - 1 < i) /\ k - 1 + 1 = k
              BY <1>6, <1>7, <4>1, <6>2
            <7> QED
              BY <1>6, <1>7, <4>1, <7>1
          <6> QED
            BY <1>1, <1>6, <1>7, <4>1, <4>3, <6>1, <6>2
        <5>2. y \in ToSet(g[p].kids)
          BY <1>10, <5>1 DEF ToSet
        <5> QED
          BY <3>3, <5>2 DEF Closed
      <4> QED
        BY <4>2, <4>3
    <3> QED
      BY <3>1, <3>2, <3>3
  <2>2. S \cup B \subseteq DOMAIN h
    BY <1>2
  <2>3. DOMAIN h \subseteq S \cup B
    BY <2>1, <2>2 DEF WellFormed, Below
  <2> QED
    BY <2>3
<1>14. WellFormed(g)
  BY <1>3, <1>5, <1>10, <1>12, <1>13 DEF WellFormed
<1>15. ASSUME Room(h) PROVE Room(g)
  <2> SUFFICES ASSUME NEW x \in D PROVE HasRoom(Len(g[x].kids), g[x].cap)
    BY <1>10 DEF Room
  <2>1. HasRoom(Len(h[x].kids), h[x].cap)
    BY <1>15 DEF Room
  <2>2. Chunk \in Nat
    BY WidthAssumption
  <2>3. \A q \in Nat : q * Chunk \in Nat
    BY <2>2, Z3
  <2>4. Len(g[x].kids) <= Len(h[x].kids) /\ Len(g[x].kids) \in Nat /\ Len(h[x].kids) \in Nat
    BY <1>12
  <2>5. g[x].cap = h[x].cap
    BY <1>12
  <2>6. h[x].cap \in Nat /\ Len(g[x].kids) <= h[x].cap
    BY <2>1, <2>4 DEF HasRoom
  <2>7. ASSUME NEW q \in Nat, q * Chunk < Len(g[x].kids) PROVE (q + 1) * Chunk <= h[x].cap
    <3>1. q * Chunk < Len(h[x].kids)
      <4> DEFINE n == q * Chunk
      <4>1. n \in Nat /\ n < Len(g[x].kids)
        BY <2>3, <2>7
      <4> HIDE DEF n
      <4>2. n < Len(h[x].kids)
        BY <2>4, <4>1
      <4> QED
        BY <4>2 DEF n
    <3> QED
      BY <2>1, <3>1 DEF HasRoom
  <2> QED
    BY <2>5, <2>6, <2>7 DEF HasRoom
<1>16. \A x \in D : ToSet(g[x].kids) \subseteq ToSet(h[x].kids)
  BY <1>11 DEF ToSet
<1> QED
  BY <1>10, <1>12, <1>14, <1>15, <1>16 DEF B, g

LEMMA LeastElement ==
  ASSUME NEW S \in SUBSET Nat, S # {}
  PROVE  Min(S) \in S /\ \A y \in S : Min(S) <= y
<1> DEFINE R == OpToRel(<, Nat)
<1>1. \A x, y \in Nat : <<y, x>> \in R <=> y < x
  BY DEF OpToRel
<1>2. IsWellFoundedOn(R, Nat)
  BY NatLessThanWellFounded
<1> HIDE DEF R
<1>3. PICK x \in S : \A y \in S : ~ (<<y, x>> \in R)
  BY <1>2, WFMin
<1>4. ASSUME NEW y \in S PROVE x <= y
  <2>1. x \in Nat /\ y \in Nat /\ ~ (y < x)
    BY <1>1, <1>3
  <2> QED
    BY <2>1
<1> QED
  BY <1>4 DEF Min

LEMMA GetElemInList ==
  ASSUME NEW h, WellFormed(h), NEW p \in DOMAIN h, NEW i \in Int, GetElem(h, p, i) # Nil
  PROVE  GetElem(h, p, i) \in ToSet(h[p].kids) /\ GetElem(h, p, i) \in DOMAIN h
<1>1. h[p].kids \in Seq(DOMAIN h)
  BY DEF WellFormed
<1>2. i \in 0 .. Length(h, p) - 1 /\ GetElem(h, p, i) = h[p].kids[i + 1]
  BY DEF GetElem
<1>3. i + 1 \in DOMAIN h[p].kids
  BY <1>1, <1>2 DEF Length
<1> QED
  BY <1>1, <1>2, <1>3 DEF ToSet

LEMMA GetMemberInList ==
  ASSUME NEW h, WellFormed(h), NEW p \in DOMAIN h, NEW n, GetMember(h, p, n) # Nil
  PROVE  GetMember(h, p, n) \in ToSet(h[p].kids) /\ GetMember(h, p, n) \in DOMAIN h
<1> DEFINE hits == {i \in DOMAIN h[p].kids : h[h[p].kids[i]].name = n /\ n # Nil}
<1>1. h[p].kids \in Seq(DOMAIN h)
  BY DEF WellFormed
<1>2. hits # {} /\ GetMember(h, p, n) = h[p].kids[Min(hits)]
  BY DEF GetMember, ListSearch
<1>3. hits \in SUBSET Nat /\ hits \subseteq DOMAIN h[p].kids
  BY <1>1
<1> HIDE DEF hits
<1>4. Min(hits) \in DOMAIN h[p].kids
  BY <1>2, <1>3, LeastElement
<1> QED
  BY <1>1, <1>2, <1>4 DEF ToSet

(* What a call may do to the tree: fill in settings, add a leaf, or cut. *)
Filled(h, g) == SameTree(h, g) /\ \A x \in DOMAIN h : g[x].hook = h[x].hook

LEMMA SetElemSteps ==
  ASSUME NEW h, WellFormed(h), FreeIds(h) # {}, NEW au \in BOOLEAN, NEW p \in DOMAIN h,
         NEW i \in Int, NEW kind \in Types \ (Aggregates \cup {"NONE"}), NEW v
  PROVE  LET res == SetElem(h, au, p, i, kind, v)
         IN  /\ res[2] = Nil => res[1] = h
             /\ \/ Filled(h, res[1])
                \/ \E g, s : /\ CheckType(h, p, kind) /\ res[2] # Nil
                             /\ Grown(h, g, p, s, kind) /\ Filled(g, res[1])
<1> DEFINE made == IF i < 0 THEN Create(h, p, Nil, kind) ELSE <<h, GetElem(h, p, i)>>
           set == SetScalar(made[1], au, made[2], kind, v)
           res == SetElem(h, au, p, i, kind, v)
<1>1. Filled(h, h)
  BY DEF Filled, SameTree, WellFormed
<1>2. CASE res = <<h, Nil>>
  BY <1>1, <1>2
<1>3. CASE res # <<h, Nil>>
  <2>1. made[2] # Nil /\ res = <<set[1], IF set[2] THEN made[2] ELSE Nil>>
    BY <1>3 DEF SetElem
  <2>2. CASE i < 0
    <3>1. made = Create(h, p, Nil, kind)
      BY <2>2
    <3>2. made[2] = Fresh(h) /\ Grown(h, made[1], p, Fresh(h), kind)
      <4>1. h[p].type # "GROUP"
        BY <1>3 DEF SetElem, Vectors
      <4> HIDE DEF made
      <4> QED
        BY <2>1, <3>1, <4>1, CreateGrows
    <3>3. CheckType(h, p, kind)
      BY <1>3, <2>2 DEF SetElem
    <3> HIDE DEF made
    <3>4. WellFormed(made[1]) /\ made[2] \in DOMAIN made[1] /\ made[1][made[2]].type = kind
      <4>1. WellFormed(made[1])
        BY <3>2, GrownKeeps
      <4> QED
        BY <3>2, <4>1 DEF Grown
    <3>5. Filled(made[1], set[1])
      BY <3>4, SetScalarTree DEF Filled
    <3>6. set[2] = TRUE
      BY <3>4 DEF SetScalar, Settable
    <3> HIDE DEF set, res
    <3>7. res[1] = set[1] /\ res[2] # Nil
      BY <2>1, <3>6
    <3> QED
      BY <3>2, <3>5, <3>7, <3>3 DEF res
  <2>3. CASE ~(i < 0)
    <3>1. made[1] = h /\ made[2] = GetElem(h, p, i)
      BY <2>3
    <3>2. made[2] \in DOMAIN h
      BY <2>1, <3>1, GetElemInList
    <3> HIDE DEF made
    <3>3. Filled(h, set[1])
      BY <3>1, <3>2, SetScalarTree DEF Filled
    <3>4. set[2] = FALSE => set[1] = h
      BY <3>1 DEF SetScalar
    <3>5. set[2] \in BOOLEAN
      BY DEF SetScalar
    <3> HIDE DEF set, res
    <3>6. res[1] = set[1] /\ (res[2] = Nil => ~set[2])
      BY <2>1
    <3> QED
      BY <3>3, <3>4, <3>5, <3>6 DEF res
  <2> QED
    BY <2>2, <2>3
<1> QED
  BY <1>2, <1>3

(* The inductive invariant. *)
TreeInv ==
  /\ WellFormed(heap) /\ Room(heap) /\ HooksApart(heap, given)
  /\ auto \in BOOLEAN /\ destructor \in BOOLEAN
  /\ given \subseteq Hooks /\ freed \in [Hooks -> Nat]

LEMMA FilledKeeps ==
  ASSUME NEW h, NEW g, NEW over, WellFormed(h), Filled(h, g)
  PROVE  WellFormed(g) /\ (Room(h) => Room(g)) /\ (HooksApart(h, over) => HooksApart(g, over))
<1>1. WellFormed(g) /\ (Room(h) => Room(g))
  BY SameTreeKeeps DEF Filled
<1> QED
  BY <1>1 DEF Filled, SameTree, HooksApart

LEMMA GrownKeepsHooks ==
  ASSUME NEW h, NEW g, NEW p, NEW s, NEW t, NEW over, Grown(h, g, p, s, t), HooksApart(h, over)
  PROVE  HooksApart(g, over)
<1>1. \A x \in DOMAIN h : g[x].hook = h[x].hook /\ x \in DOMAIN g
  BY DEF Grown
<1>2. g[s].hook = Nil /\ DOMAIN g = DOMAIN h \cup {s}
  BY DEF Grown
<1> QED
  BY <1>1, <1>2 DEF HooksApart

LEMMA InitialHeapFacts ==
  WellFormed(InitialHeap) /\ Room(InitialHeap) /\ \A over : HooksApart(InitialHeap, over)
<1> DEFINE g == InitialHeap
<1>1. DOMAIN g = {Root} /\ g[Root] = Blank("GROUP", Nil, Nil)
  BY DEF InitialHeap
<1>2. /\ DOMAIN g[Root] = Fields /\ g[Root].type = "GROUP" /\ g[Root].parent = Nil
      /\ g[Root].kids = <<>> /\ g[Root].cap = 0 /\ g[Root].hook = Nil
  <2> HIDE DEF g
  <2> QED
    BY <1>1 DEF Blank, Fields
<1> HIDE DEF g
<1>3. WellFormed(g)
  <2>1. Below(g, Root) = DOMAIN g
    BY <1>1 DEF Below
  <2>2. <<>> \in Seq(DOMAIN g) /\ DOMAIN <<>> = {}
    OBVIOUS
  <2>3. IsInjective(g[Root].kids)
    BY <1>2, <2>2 DEF IsInjective
  <2>4. "GROUP" \in Types
    BY DEF Types, Aggregates
  <2>5. Root \in Ids
    BY IdsAssumption DEF Root
  <2> QED
    BY <1>1, <1>2, <2>1, <2>2, <2>3, <2>4, <2>5 DEF WellFormed
<1>4. Room(g)
  <2>1. \A q \in Nat : q * Chunk \in Nat
    BY WidthAssumption, Z3
  <2>2. Len(g[Root].kids) = 0 /\ g[Root].cap = 0
    BY <1>2
  <2>3. \A q \in Nat : ~(q * Chunk < 0)
    BY <2>1
  <2>4. HasRoom(0, 0)
    BY <2>3 DEF HasRoom
  <2> QED
    BY <1>1, <2>2, <2>4 DEF Room
<1>5. \A over : HooksApart(g, over)
  BY <1>1, <1>2 DEF HooksApart
<1> QED
  BY <1>3, <1>4, <1>5 DEF g

LEMMA InitTree == Init => TreeInv
<1> SUFFICES ASSUME Init PROVE TreeInv
  OBVIOUS
<1>1. WellFormed(heap) /\ Room(heap) /\ HooksApart(heap, given)
  BY InitialHeapFacts DEF Init
<1>2. /\ auto \in BOOLEAN /\ destructor \in BOOLEAN
      /\ given \subseteq Hooks /\ freed \in [Hooks -> Nat]
  BY DEF Init
<1> QED
  BY <1>1, <1>2 DEF TreeInv

LEMMA SetFormatFills ==
  ASSUME NEW h, WellFormed(h), NEW s \in DOMAIN h, NEW hex
  PROVE  Filled(h, SetFormat(h, s, hex)[1]) /\ SetFormat(h, s, hex)[2] \in BOOLEAN
<1> DEFINE g == [h EXCEPT ![s].hex = hex]
<1>1. Filled(h, g)
  <2>1. DOMAIN h[s] = Fields
    BY DEF WellFormed
  <2>2. DOMAIN g = DOMAIN h /\ (\A x \in DOMAIN h \ {s} : g[x] = h[x]) /\ g[s] = [h[s] EXCEPT !.hex = hex]
    OBVIOUS
  <2> HIDE DEF g
  <2>3. /\ DOMAIN g[s] = Fields /\ g[s].parent = h[s].parent /\ g[s].kids = h[s].kids
        /\ g[s].cap = h[s].cap /\ g[s].type = h[s].type /\ g[s].hook = h[s].hook
        /\ g[s].name = h[s].name
    BY <2>1, <2>2 DEF Fields
  <2>4. \A x \in DOMAIN h : DOMAIN h[x] = Fields /\ h[x].type \in Types
    BY DEF WellFormed
  <2> QED
    BY <2>2, <2>3, <2>4 DEF Filled, SameTree
<1>2. Filled(h, h)
  BY DEF Filled, SameTree, WellFormed
<1> HIDE DEF g
<1> QED
  BY <1>1, <1>2 DEF SetFormat, g

LEMMA SetHookFacts ==
  ASSUME NEW h, WellFormed(h), NEW s \in DOMAIN h, NEW k, NEW over, HooksApart(h, over), k \notin over
  PROVE  LET g == [h EXCEPT ![s].hook = k]
         IN  SameTree(h, g) /\ HooksApart(g, over \cup {k}) /\ \A x \in DOMAIN h : g[x].type = h[x].type
<1> DEFINE g == [h EXCEPT ![s].hook = k]
<1>1. DOMAIN h[s] = Fields /\ \A x \in DOMAIN h : DOMAIN h[x] = Fields /\ h[x].type \in Types
  BY DEF WellFormed
<1>2. DOMAIN g = DOMAIN h /\ (\A x \in DOMAIN h \ {s} : g[x] = h[x]) /\ g[s] = [h[s] EXCEPT !.hook = k]
  OBVIOUS
<1> HIDE DEF g
<1>3. /\ DOMAIN g[s] = Fields /\ g[s].parent = h[s].parent /\ g[s].kids = h[s].kids
      /\ g[s].cap = h[s].cap /\ g[s].type = h[s].type /\ g[s].hook = k /\ g[s].name = h[s].name
  BY <1>1, <1>2 DEF Fields
<1>4. SameTree(h, g)
  BY <1>1, <1>2, <1>3 DEF SameTree
<1>5. HooksApart(g, over \cup {k})
  <2>1. \A x \in DOMAIN g : g[x].hook = IF x = s THEN k ELSE h[x].hook
    BY <1>2, <1>3
  <2>2. \A x \in DOMAIN h : h[x].hook \in over \cup {Nil} /\ (h[x].hook = k => k = Nil)
    BY DEF HooksApart
  <2> QED
    BY <1>2, <2>1, <2>2 DEF HooksApart
<1>6. \A x \in DOMAIN h : g[x].type = h[x].type
  BY <1>2, <1>3
<1> QED
  BY <1>4, <1>5, <1>6 DEF g

LEMMA NoMemberIsNew ==
  ASSUME NEW h, WellFormed(h), NEW p \in DOMAIN h, h[p].type = "GROUP",
         NEW n, GetMember(h, p, n) = Nil
  PROVE  NewMember(h, p, n)
<1> SUFFICES ASSUME n # Nil, NEW j \in DOMAIN h[p].kids, h[h[p].kids[j]].name = n PROVE FALSE
  BY DEF NewMember, ToSet
<1> DEFINE hits == {i \in DOMAIN h[p].kids : h[h[p].kids[i]].name = n /\ n # Nil}
<1>1. h[p].kids \in Seq(DOMAIN h) /\ Nil \notin DOMAIN h
  BY IdsAssumption DEF WellFormed
<1>2. hits \in SUBSET Nat /\ hits \subseteq DOMAIN h[p].kids /\ hits # {}
  BY <1>1
<1>3. GetMember(h, p, n) = h[p].kids[Min(hits)]
  <2>1. GetMember(h, p, n) = ListSearch(h, p, n)
    BY DEF GetMember
  <2>2. ListSearch(h, p, n) = IF hits = {} THEN Nil ELSE h[p].kids[Min(hits)]
    BY DEF ListSearch
  <2> HIDE DEF hits
  <2> QED
    BY <1>2, <2>1, <2>2
<1> HIDE DEF hits
<1>4. h[p].kids[Min(hits)] \in DOMAIN h
  <2>1. Min(hits) \in DOMAIN h[p].kids
    BY <1>2, LeastElement
  <2> QED
    BY <1>1, <2>1
<1> QED
  BY <1>1, <1>3, <1>4

LEMMA AddSettingSteps ==
  ASSUME NEW h, WellFormed(h), FreeIds(h) # {}, NEW p \in DOMAIN h, NEW n, NEW t
  PROVE  LET res == AddSetting(h, p, n, t)
         IN  \/ res = <<h, Nil>>
             \/ res[2] # Nil /\ \E s : Grown(h, res[1], p, s, t)
<1> DEFINE res == AddSetting(h, p, n, t)
<1>1. res = <<h, Nil>> \/ \E m : /\ res = Create(h, p, m, t)
                                 /\ h[p].type = "GROUP" => NewMember(h, p, m)
  <2>1. CASE h[p].type \in Vectors
    BY <2>1 DEF AddSetting, Vectors
  <2>2. CASE h[p].type \notin Vectors
    <3>1. CASE (n # Nil /\ n \notin ValidNames) \/ GetMember(h, p, n) # Nil
      BY <2>2, <3>1 DEF AddSetting
    <3>2. CASE ~(n # Nil /\ n \notin ValidNames) /\ GetMember(h, p, n) = Nil
      <4>1. res = Create(h, p, n, t)
        BY <2>2, <3>2 DEF AddSetting
      <4>2. h[p].type = "GROUP" => NewMember(h, p, n)
        BY <3>2, NoMemberIsNew
      <4> QED
        BY <4>1, <4>2
    <3> QED
      BY <3>1, <3>2
  <2> QED
    BY <2>1, <2>2
<1>2. ASSUME NEW m, h[p].type = "GROUP" => NewMember(h, p, m)
      PROVE  \/ Create(h, p, m, t) = <<h, Nil>>
                         \/ /\ Create(h, p, m, t)[2] # Nil
                            /\ \E s : Grown(h, Create(h, p, m, t)[1], p, s, t)
  <2>1. Fresh(h) \in Ids
    BY DEF Fresh, FreeIds
  <2> QED
    BY <1>2, <2>1, CreateGrows, IdsAssumption
<1> HIDE DEF res
<1>3. res = <<h, Nil>> \/ (res[2] # Nil /\ \E s : Grown(h, res[1], p, s, t))
  BY <1>1, <1>2
<1> QED
  BY <1>3 DEF res

LEMMA NextTree == TreeInv /\ [Next]_vars => TreeInv'
<1> SUFFICES ASSUME TreeInv, [Next]_vars PROVE TreeInv'
  OBVIOUS
<1> DEFINE Tree(h, over) == WellFormed(h) /\ Room(h) /\ HooksApart(h, over)
           Rest == /\ auto \in BOOLEAN /\ destructor \in BOOLEAN
                   /\ given \subseteq Hooks /\ freed \in [Hooks -> Nat]
<1>1. Tree(heap, given) /\ Rest /\ WellFormed(heap)
  BY DEF TreeInv
<1>2. ASSUME NEW g, Filled(heap, g) PROVE Tree(g, given)
  BY <1>1, <1>2, FilledKeeps
<1>3. ASSUME NEW g, NEW p, NEW s, NEW t \in Types, Grown(heap, g, p, s, t) PROVE Tree(g, given)
  BY <1>1, <1>3, GrownKeeps, GrownKeepsHooks
<1>4. ASSUME NEW p \in DOMAIN heap, NEW s \in ToSet(heap[p].kids) PROVE Tree(Cut(heap, p, s), given)
  <2> DEFINE g == Cut(heap, p, s)
  <2> HIDE DEF g
  <2>1. /\ WellFormed(g) /\ (Room(heap) => Room(g)) /\ DOMAIN g = DOMAIN heap \ Below(heap, s)
        /\ \A x \in DOMAIN g : g[x].hook = heap[x].hook
    BY <1>1, CutKeeps DEF g
  <2>2. HooksApart(g, given)
    BY <1>1, <2>1 DEF HooksApart
  <2>3. Room(g)
    BY <1>1, <2>1
  <2> QED
    BY <2>1, <2>2, <2>3 DEF g
<1>5. \A s : FreeHooks(s) => freed' \in [Hooks -> Nat]
  BY DEF FreeHooks, TreeInv
<1> HIDE DEF Tree, Rest
<1>6. ASSUME NEW p \in DOMAIN heap, NEW n \in Names \cup {Nil}, NEW t \in AddTypes, config_setting_add(p, n, t)
      PROVE  Tree(heap', given') /\ Rest'
  <2>1. t \in Types
    BY CallsAssumption
  <2>2. heap' = heap \/ \E s : Grown(heap, heap', p, s, t)
    BY <1>1, <1>6, AddSettingSteps DEF config_setting_add
  <2>3. UNCHANGED <<auto, destructor, freed, given>>
    BY <1>6 DEF config_setting_add
  <2> QED
    BY <1>1, <1>3, <2>1, <2>2, <2>3 DEF Rest
<1>7. ASSUME NEW s \in DOMAIN heap, NEW in \in Inputs, config_setting_set(s, in[1], in[2])
      PROVE  Tree(heap', given') /\ Rest'
  <2>1. in[1] \in Types \ (Aggregates \cup {"NONE"}) /\ auto \in BOOLEAN
    BY <1>1, CallsAssumption DEF Rest
  <2>2. Filled(heap, heap')
    BY <1>1, <1>7, <2>1, SetScalarTree DEF config_setting_set, Filled
  <2>3. UNCHANGED <<auto, destructor, freed, given>>
    BY <1>7 DEF config_setting_set
  <2> QED
    BY <1>1, <1>2, <2>2, <2>3 DEF Rest
<1>8. ASSUME NEW p \in DOMAIN heap, NEW i \in Int, NEW in \in Inputs,
             config_setting_set_elem(p, i, in[1], in[2])
      PROVE  Tree(heap', given') /\ Rest'
  <2>1. in[1] \in Types \ (Aggregates \cup {"NONE"}) /\ auto \in BOOLEAN /\ i \in Int
    BY <1>1, CallsAssumption DEF Rest
  <2>2. heap' = SetElem(heap, auto, p, i, in[1], in[2])[1] /\ FreeIds(heap) # {}
    BY <1>8 DEF config_setting_set_elem
  <2>3. Filled(heap, heap') \/ \E g, s : Grown(heap, g, p, s, in[1]) /\ Filled(g, heap')
    BY <1>1, <2>1, <2>2, SetElemSteps
  <2>4. ASSUME NEW g, NEW s, Grown(heap, g, p, s, in[1]), Filled(g, heap') PROVE Tree(heap', given)
    <3>1. Tree(g, given)
      BY <1>3, <2>1, <2>4
    <3> QED
      BY <2>4, <3>1, FilledKeeps DEF Tree
  <2>5. UNCHANGED <<auto, destructor, freed, given>>
    BY <1>8 DEF config_setting_set_elem
  <2> QED
    BY <1>1, <1>2, <2>3, <2>4, <2>5 DEF Rest
<1>9. ASSUME NEW s \in DOMAIN heap, NEW hex \in BOOLEAN, config_setting_set_format(s, hex)
      PROVE  Tree(heap', given') /\ Rest'
  <2>1. Filled(heap, heap')
    BY <1>1, <1>9, SetFormatFills DEF config_setting_set_format
  <2>2. UNCHANGED <<auto, destructor, freed, given>>
    BY <1>9 DEF config_setting_set_format
  <2> QED
    BY <1>1, <1>2, <2>1, <2>2 DEF Rest
<1>10. ASSUME NEW s \in DOMAIN heap, NEW k \in Hooks, config_setting_set_hook(s, k)
       PROVE  Tree(heap', given') /\ Rest'
  <2>1. /\ heap' = [heap EXCEPT ![s].hook = k] /\ given' = given \cup {k} /\ k \notin given
        /\ UNCHANGED <<auto, destructor, freed>>
    BY <1>10 DEF config_setting_set_hook
  <2>2. SameTree(heap, heap') /\ HooksApart(heap', given')
    BY <1>1, <2>1, SetHookFacts DEF Tree
  <2>3. WellFormed(heap') /\ Room(heap')
    BY <1>1, <2>2, SameTreeKeeps DEF Tree
  <2> QED
    BY <1>1, <2>1, <2>2, <2>3 DEF Rest, Tree
<1>11. ASSUME NEW call, NEW p \in DOMAIN heap, NEW s, s = Nil \/ s \in ToSet(heap[p].kids), Prune(call, p, s)
       PROVE  Tree(heap', given') /\ Rest'
  <2>1. CASE s = Nil
    BY <1>1, <1>11, <2>1 DEF Prune, Rest
  <2>2. CASE s # Nil
    <3>1. heap' = Cut(heap, p, s) /\ FreeHooks(s) /\ UNCHANGED <<auto, destructor, given>>
      BY <1>11, <2>2 DEF Prune
    <3> QED
      BY <1>1, <1>4, <1>5, <1>11, <2>2, <3>1 DEF Rest
  <2> QED
    BY <2>1, <2>2
<1>12. ASSUME NEW p \in DOMAIN heap, NEW n \in Names, config_setting_remove(p, n)
       PROVE  Tree(heap', given') /\ Rest'
  BY <1>1, <1>11, <1>12, GetMemberInList DEF config_setting_remove, RemovedMember
<1>13. ASSUME NEW p \in DOMAIN heap, NEW i \in Int, config_setting_remove_elem(p, i)
       PROVE  Tree(heap', given') /\ Rest'
  BY <1>1, <1>11, <1>13, GetElemInList DEF config_setting_remove_elem, RemovedElem
<1>14. ASSUME NEW flag \in BOOLEAN, config_set_auto_convert(flag)
       PROVE  Tree(heap', given') /\ Rest'
  BY <1>1, <1>14 DEF config_set_auto_convert, Rest
<1>15. ASSUME config_set_destructor
       PROVE  Tree(heap', given') /\ Rest'
  BY <1>1, <1>15 DEF config_set_destructor, Rest
<1>16. ASSUME config_destroy
       PROVE  Tree(heap', given') /\ Rest'
  BY <1>1, <1>5, <1>16, InitialHeapFacts DEF config_destroy, Rest, Tree
<1>17. ASSUME UNCHANGED vars
       PROVE  Tree(heap', given') /\ Rest'
  BY <1>1, <1>17 DEF vars, Rest
<1>18. Tree(heap', given') /\ Rest'
  BY <1>6, <1>7, <1>8, <1>9, <1>10, <1>12, <1>13, <1>14, <1>15, <1>16, <1>17 DEF Next
<1> QED
  BY <1>18 DEF TreeInv, Tree, Rest

(* Whatever the calls and their order, the settings stay one tree and no list *)
(* outgrows its memory (libconfig.c:401-508).                                 *)
THEOREM TreeStaysATree == Spec => [](TreeShape /\ ListsWithinMemory)
<1>1. Spec => []TreeInv
  BY InitTree, NextTree, PTL DEF Spec
<1>2. TreeInv => TreeShape /\ ListsWithinMemory
  BY DEF TreeInv, TreeShape, ListsWithinMemory, WellFormed, Room, HasRoom
<1> QED
  BY <1>1, <1>2, PTL

(* What a call does to the tree, as far as the action properties tell apart. *)
Same == SameTree(heap, heap') /\ freed' = freed /\ last'.call # "config_destroy"

Growth ==
  /\ \E g, p, s : \E t \in Types :
       /\ Grown(heap, g, p, s, t) /\ Filled(g, heap')
       /\ last'.call = "config_setting_add" \/ CheckType(heap, p, t)
       /\ "NONE" \notin AddTypes => t # "NONE"
  /\ last'.ok /\ freed' = freed /\ last'.call # "config_destroy"

Pruning ==
  /\ \E p \in DOMAIN heap : \E s \in ToSet(heap[p].kids) : heap' = Cut(heap, p, s) /\ FreeHooks(s)
  /\ last'.ok /\ last'.call # "config_destroy"

LEMMA StepKinds ==
  ASSUME TreeInv, Next
  PROVE  /\ Same \/ Growth \/ Pruning \/ config_destroy
         /\ last'.ok \/ heap' = heap
<1> DEFINE Goal == /\ Same \/ Growth \/ Pruning \/ config_destroy
                   /\ last'.ok \/ heap' = heap
<1>1. WellFormed(heap) /\ auto \in BOOLEAN
  BY DEF TreeInv
<1>2. Filled(heap, heap)
  BY <1>1 DEF Filled, SameTree, WellFormed
<1>3. ASSUME NEW p \in DOMAIN heap, NEW n \in Names \cup {Nil}, NEW t \in AddTypes, config_setting_add(p, n, t)
      PROVE  Goal
  <2> DEFINE res == AddSetting(heap, p, n, t)
  <2>1. /\ heap' = res[1] /\ last'.call = "config_setting_add" /\ last'.ok = (res[2] # Nil)
        /\ freed' = freed /\ FreeIds(heap) # {}
    BY <1>3 DEF config_setting_add, Called
  <2>2. t \in Types
    BY CallsAssumption
  <2>3. res = <<heap, Nil>> \/ (res[2] # Nil /\ \E s : Grown(heap, res[1], p, s, t))
    BY <1>1, <2>1, AddSettingSteps
  <2> HIDE DEF res
  <2>4. CASE res = <<heap, Nil>>
    BY <1>2, <2>1, <2>4 DEF Same, Filled
  <2>5. CASE res[2] # Nil /\ \E s : Grown(heap, res[1], p, s, t)
    <3>1. Filled(heap', heap')
      <4>1. PICK s : Grown(heap, heap', p, s, t)
        BY <2>1, <2>5
      <4>2. WellFormed(heap')
        BY <1>1, <2>2, <4>1, GrownKeeps
      <4> QED
        BY <4>2 DEF Filled, SameTree, WellFormed
    <3>2. Growth
      BY <2>1, <2>2, <2>5, <3>1 DEF Growth
    <3> QED
      BY <2>1, <2>5, <3>2
  <2> QED
    BY <2>3, <2>4, <2>5
<1>4. ASSUME NEW s \in DOMAIN heap, NEW in \in Inputs, config_setting_set(s, in[1], in[2])
      PROVE  Goal
  <2>1. in[1] \in Types \ (Aggregates \cup {"NONE"})
    BY CallsAssumption
  <2> DEFINE res == SetScalar(heap, auto, s, in[1], in[2])
  <2>2. SameTree(heap, res[1]) /\ (res[2] \/ res[1] = heap)
    <3>1. res[2] \/ res[1] = heap
      BY DEF SetScalar
    <3> QED
      BY <1>1, <2>1, <3>1, SetScalarTree
  <2>3. heap' = res[1] /\ last'.call = in[1] /\ last'.ok = res[2] /\ freed' = freed
    BY <1>4 DEF config_setting_set
  <2>4. in[1] # "config_destroy"
    BY <2>1 DEF Types, Aggregates, Vectors
  <2> HIDE DEF res
  <2> QED
    BY <2>2, <2>3, <2>4 DEF Same
<1>5. ASSUME NEW p \in DOMAIN heap, NEW i \in Int, NEW in \in Inputs,
             config_setting_set_elem(p, i, in[1], in[2])
      PROVE  Goal
  <2>1. in[1] \in Types \ (Aggregates \cup {"NONE"}) /\ i \in Int
    BY CallsAssumption
  <2> DEFINE res == SetElem(heap, auto, p, i, in[1], in[2])
  <2>2. /\ heap' = res[1] /\ last'.call = "config_setting_set_elem" /\ last'.ok = (res[2] # Nil)
        /\ freed' = freed /\ FreeIds(heap) # {}
    BY <1>5 DEF config_setting_set_elem, Called
  <2>3. /\ res[2] = Nil => res[1] = heap
        /\ \/ Filled(heap, res[1])
           \/ \E g, s : /\ CheckType(heap, p, in[1]) /\ res[2] # Nil
                        /\ Grown(heap, g, p, s, in[1]) /\ Filled(g, res[1])
    BY <1>1, <2>1, <2>2, SetElemSteps
  <2> HIDE DEF res
  <2>4. CASE Filled(heap, res[1])
    BY <2>2, <2>3, <2>4 DEF Same, Filled
  <2>5. CASE \E g, s : /\ CheckType(heap, p, in[1]) /\ res[2] # Nil
                       /\ Grown(heap, g, p, s, in[1]) /\ Filled(g, res[1])
    BY <2>1, <2>2, <2>5 DEF Growth
  <2> QED
    BY <2>3, <2>4, <2>5
<1>6. ASSUME NEW s \in DOMAIN heap, NEW hex \in BOOLEAN, config_setting_set_format(s, hex)
      PROVE  Goal
  <2> DEFINE res == SetFormat(heap, s, hex)
  <2>1. SameTree(heap, res[1]) /\ (res[2] \/ res[1] = heap)
    <3>1. res[2] \/ res[1] = heap
      BY DEF SetFormat
    <3> QED
      BY <1>1, <3>1, SetFormatFills DEF Filled
  <2>2. heap' = res[1] /\ last'.call = "config_setting_set_format" /\ last'.ok = res[2] /\ freed' = freed
    BY <1>6 DEF config_setting_set_format, Called
  <2> HIDE DEF res
  <2> QED
    BY <2>1, <2>2 DEF Same
<1>7. ASSUME NEW s \in DOMAIN heap, NEW k \in Hooks, config_setting_set_hook(s, k)
      PROVE  Goal
  <2>1. /\ heap' = [heap EXCEPT ![s].hook = k] /\ freed' = freed /\ k \notin given
        /\ last'.call = "config_setting_set_hook" /\ last'.ok
    BY <1>7 DEF config_setting_set_hook, Called
  <2>2. SameTree(heap, heap')
    BY <1>1, <2>1, SetHookFacts DEF TreeInv
  <2> QED
    BY <2>1, <2>2 DEF Same
<1>8. ASSUME NEW call, call # "config_destroy", NEW p \in DOMAIN heap,
             NEW s, s = Nil \/ s \in ToSet(heap[p].kids), Prune(call, p, s)
      PROVE  Goal
  <2>1. last'.call = call /\ last'.ok = (s # Nil)
    BY <1>8 DEF Prune, Called
  <2>2. CASE s = Nil
    BY <1>2, <1>8, <2>1, <2>2 DEF Prune, Same, Filled
  <2>3. CASE s # Nil
    <3>1. heap' = Cut(heap, p, s) /\ FreeHooks(s)
      BY <1>8, <2>3 DEF Prune
    <3> QED
      BY <1>8, <2>1, <2>3, <3>1 DEF Pruning
  <2> QED
    BY <2>2, <2>3
<1>9. ASSUME NEW p \in DOMAIN heap, NEW n \in Names, config_setting_remove(p, n)
      PROVE  Goal
  BY <1>1, <1>8, <1>9, GetMemberInList DEF config_setting_remove, RemovedMember
<1>10. ASSUME NEW p \in DOMAIN heap, NEW i \in Int, config_setting_remove_elem(p, i)
       PROVE  Goal
  BY <1>1, <1>8, <1>10, GetElemInList DEF config_setting_remove_elem, RemovedElem
<1>11. ASSUME NEW flag \in BOOLEAN, config_set_auto_convert(flag)
       PROVE  Goal
  BY <1>2, <1>11 DEF config_set_auto_convert, Called, Same, Filled
<1>12. ASSUME config_set_destructor
       PROVE  Goal
  BY <1>2, <1>12 DEF config_set_destructor, Called, Same, Filled
<1>13. ASSUME config_destroy
       PROVE  Goal
  BY <1>13 DEF config_destroy, Called
<1> HIDE DEF Goal
<1>14. Goal
  BY <1>3, <1>4, <1>5, <1>6, <1>7, <1>9, <1>10, <1>11, <1>12, <1>13 DEF Next
<1> QED
  BY <1>14 DEF Goal

(* A call that fails leaves the tree alone: above all, an array that refuses  *)
(* an element does not keep it (libconfig.c:1306-1336, 1571-1593).            *)
THEOREM FailuresChangeNothing == Spec => FailedCallsChangeNothing
<1>1. TreeInv /\ [Next]_vars => [~last'.ok => heap' = heap]_vars
  BY StepKinds
<1>2. Spec => []TreeInv
  BY InitTree, NextTree, PTL DEF Spec
<1> QED
  BY <1>1, <1>2, PTL DEF Spec, FailedCallsChangeNothing

(* The hooks that a step hands to the destructor are those of the settings    *)
(* that go, each one once (libconfig.c:464-508, 738-752).                     *)
Going(k) == {s \in DOMAIN heap : /\ heap[s].hook = k /\ destructor
                                 /\ \/ s \notin DOMAIN heap'
                                    \/ last'.call = "config_destroy"}

LEMMA GoingCounts ==
  ASSUME TreeInv, NEW k \in Hooks, NEW B, B \subseteq DOMAIN heap,
         Going(k) = {s \in B : heap[s].hook = k /\ destructor},
         freed'[k] = IF destructor /\ k \in {heap[x].hook : x \in B} \ {Nil} THEN freed[k] + 1 ELSE freed[k]
  PROVE  freed'[k] - freed[k] = Cardinality(Going(k))
<1>1. freed[k] \in Nat /\ k # Nil
  BY CallsAssumption DEF TreeInv
<1>2. CASE destructor /\ \E x \in B : heap[x].hook = k
  <2>1. PICK x \in B : heap[x].hook = k
    BY <1>2
  <2>2. Going(k) = {x}
    BY <1>1, <1>2, <2>1 DEF TreeInv, HooksApart
  <2>3. Cardinality(Going(k)) = 1
    BY <2>2, FS_Singleton
  <2>4. freed'[k] = freed[k] + 1
    BY <1>1, <1>2, <2>1
  <2> QED
    BY <1>1, <2>3, <2>4
<1>3. CASE ~(destructor /\ \E x \in B : heap[x].hook = k)
  <2>1. Going(k) = {}
    BY <1>3
  <2>2. freed'[k] = freed[k]
    BY <1>3
  <2> QED
    <3>1. Cardinality(Going(k)) = 0
      BY <2>1, FS_EmptySet
    <3>2. freed[k] - freed[k] = 0
      BY <1>1
    <3> QED
      BY <2>2, <3>1, <3>2
<1> QED
  BY <1>2, <1>3

THEOREM HooksAreFreedOnce == Spec => HooksGoWithTheirSettings
<1> DEFINE Goal == \A k \in Hooks : freed'[k] - freed[k] = Cardinality(Going(k))
<1>1. ASSUME TreeInv, Next PROVE Goal
  <2> SUFFICES ASSUME NEW k \in Hooks PROVE freed'[k] - freed[k] = Cardinality(Going(k))
    OBVIOUS
  <2>1. CASE Same
    <3>1. Going(k) = {s \in {} : heap[s].hook = k /\ destructor} /\ freed'[k] = freed[k]
      BY <2>1 DEF Same, SameTree, Going
    <3> QED
      BY <1>1, <3>1, GoingCounts
  <2>2. CASE Growth
    <3>1. DOMAIN heap \subseteq DOMAIN heap'
      BY <2>2 DEF Growth, Grown, Filled, SameTree
    <3>2. Going(k) = {s \in {} : heap[s].hook = k /\ destructor} /\ freed'[k] = freed[k]
      BY <2>2, <3>1 DEF Growth, Going
    <3> QED
      BY <1>1, <3>2, GoingCounts
  <2>3. CASE Pruning
    <3>1. PICK p \in DOMAIN heap : \E s \in ToSet(heap[p].kids) : heap' = Cut(heap, p, s) /\ FreeHooks(s)
      BY <2>3 DEF Pruning
    <3>2. PICK s \in ToSet(heap[p].kids) : heap' = Cut(heap, p, s) /\ FreeHooks(s)
      BY <3>1
    <3>3. DOMAIN heap' = DOMAIN heap \ Below(heap, s) /\ Below(heap, s) \subseteq DOMAIN heap
      <4>1. DOMAIN Cut(heap, p, s) = DOMAIN heap \ Below(heap, s)
        BY <1>1, CutKeeps DEF TreeInv
      <4> QED
        BY <3>2, <4>1 DEF Below
    <3>4. Going(k) = {x \in Below(heap, s) : heap[x].hook = k /\ destructor}
      BY <2>3, <3>3 DEF Pruning, Going
    <3>5. freed'[k] = IF destructor /\ k \in {heap[x].hook : x \in Below(heap, s)} \ {Nil}
                      THEN freed[k] + 1 ELSE freed[k]
      BY <3>2 DEF FreeHooks, HooksBelow
    <3> QED
      BY <1>1, <3>3, <3>4, <3>5, GoingCounts
  <2>4. CASE config_destroy
    <3>1. Below(heap, Root) = DOMAIN heap
      BY <1>1 DEF TreeInv, WellFormed
    <3>2. last'.call = "config_destroy" /\ FreeHooks(Root)
      BY <2>4 DEF config_destroy, Called
    <3>3. Going(k) = {x \in Below(heap, Root) : heap[x].hook = k /\ destructor}
      BY <3>1, <3>2 DEF Going
    <3>4. freed'[k] = IF destructor /\ k \in {heap[x].hook : x \in Below(heap, Root)} \ {Nil}
                      THEN freed[k] + 1 ELSE freed[k]
      BY <3>2 DEF FreeHooks, HooksBelow
    <3> QED
      BY <1>1, <3>1, <3>3, <3>4, GoingCounts
  <2> QED
    BY <1>1, <2>1, <2>2, <2>3, <2>4, StepKinds
<1>2. TreeInv /\ [Next]_vars => [Goal]_vars
  BY <1>1
<1>3. Spec => []TreeInv
  BY InitTree, NextTree, PTL DEF Spec
<1> QED
  BY <1>2, <1>3, PTL DEF Spec, HooksGoWithTheirSettings, Going

(* No setting waits for its type: only a program that adds settings of type   *)
(* NONE makes one.                                                            *)
AllTyped == \A s \in DOMAIN heap : heap[s].type # "NONE"

LEMMA UniformElements ==
  ASSUME NEW h, WellFormed(h), NEW s \in DOMAIN h
  PROVE  Uniform(h, s) <=> \A x, y \in ToSet(h[s].kids) : h[x].type = h[y].type
BY DEF Uniform, ToSet

LEMMA NextTyped ==
  ASSUME "NONE" \notin AddTypes, TreeInv, TreeInv', AllTyped, [Next]_vars
  PROVE  /\ AllTyped'
         /\ last'.call # "config_setting_add" =>
              \A s \in DOMAIN heap \cap DOMAIN heap' :
                heap'[s].type = "ARRAY" /\ Uniform(heap, s) => Uniform(heap', s)
<1> DEFINE Keeps == \A s \in DOMAIN heap \cap DOMAIN heap' :
                      heap'[s].type = "ARRAY" /\ Uniform(heap, s) => Uniform(heap', s)
<1>1. WellFormed(heap) /\ WellFormed(heap')
  BY DEF TreeInv
<1>2. \A s \in DOMAIN heap : \A x \in ToSet(heap[s].kids) : x \in DOMAIN heap
  BY <1>1 DEF WellFormed, ToSet
<1>3. CASE Same \/ UNCHANGED vars
  <2>1. DOMAIN heap' = DOMAIN heap
    BY <1>3 DEF Same, SameTree, vars
  <2>2. \A x \in DOMAIN heap : heap'[x].type = heap[x].type /\ heap'[x].kids = heap[x].kids
    BY <1>3 DEF Same, SameTree, AllTyped, vars
  <2>3. AllTyped'
    BY <2>1, <2>2 DEF AllTyped
  <2>4. Keeps
    BY <1>1, <1>2, <2>1, <2>2, UniformElements
  <2> QED
    BY <2>3, <2>4
<1>4. CASE Growth
  <2> DEFINE Made(g, p, s, t) ==
               /\ Grown(heap, g, p, s, t) /\ Filled(g, heap')
               /\ last'.call = "config_setting_add" \/ CheckType(heap, p, t)
               /\ t # "NONE"
  <2>1. PICK g, p, s : \E t \in Types : Made(g, p, s, t)
    BY <1>4 DEF Growth
  <2>2. PICK t \in Types : Made(g, p, s, t)
    BY <2>1
  <2>3. /\ Grown(heap, g, p, s, t) /\ Filled(g, heap')
        /\ last'.call = "config_setting_add" \/ CheckType(heap, p, t)
        /\ t # "NONE"
    BY <2>2
  <2>4. /\ DOMAIN heap' = DOMAIN heap \cup {s} /\ s \notin DOMAIN heap /\ p \in DOMAIN heap
        /\ \A x \in DOMAIN heap : g[x].type = heap[x].type
        /\ g[s].type = t /\ DOMAIN g = DOMAIN heap'
    BY <2>3 DEF Grown, Filled, SameTree
  <2>5. /\ \A x \in DOMAIN heap : heap'[x].type = heap[x].type
        /\ heap'[s].type = t
    BY <2>3, <2>4 DEF AllTyped, Filled, SameTree
  <2>6. AllTyped'
    BY <2>3, <2>4, <2>5 DEF AllTyped
  <2>7. ASSUME last'.call # "config_setting_add", NEW x \in DOMAIN heap \cap DOMAIN heap',
               heap'[x].type = "ARRAY", Uniform(heap, x)
        PROVE  Uniform(heap', x)
    <3>1. CASE x # p
      <4>1. heap'[x].kids = heap[x].kids
        BY <2>3, <2>4, <3>1 DEF Grown, Filled, SameTree
      <4> QED
        BY <1>1, <1>2, <2>4, <2>5, <2>7, <4>1, UniformElements
    <3>2. CASE x = p
      <4>1. heap'[p].kids = Append(heap[p].kids, s) /\ heap[p].kids \in Seq(DOMAIN heap)
        BY <1>1, <2>3, <2>4 DEF Grown, Filled, SameTree, WellFormed
      <4>2. ToSet(heap'[p].kids) = ToSet(heap[p].kids) \cup {s}
        BY <4>1 DEF ToSet
      <4>3. heap[p].kids = <<>> \/ heap[Head(heap[p].kids)].type = t
        BY <2>3, <2>4, <2>5, <2>7, <3>2 DEF CheckType
      <4>4. \A y \in ToSet(heap[p].kids) : heap[y].type = t
        <5>1. CASE heap[p].kids = <<>>
          BY <5>1 DEF ToSet
        <5>2. CASE heap[p].kids # <<>>
          <6>1. Head(heap[p].kids) \in ToSet(heap[p].kids)
            BY <4>1, <5>2 DEF ToSet
          <6> QED
            BY <1>1, <2>7, <3>2, <4>3, <5>2, <6>1, UniformElements
        <5> QED
          BY <5>1, <5>2
      <4>5. \A y \in ToSet(heap'[p].kids) : heap'[y].type = t
        BY <1>2, <2>4, <2>5, <4>2, <4>4
      <4> QED
        BY <1>1, <2>7, <3>2, <4>5, UniformElements
    <3> QED
      BY <3>1, <3>2
  <2> QED
    BY <2>6, <2>7
<1>5. CASE Pruning
  <2>1. PICK p \in DOMAIN heap : \E s \in ToSet(heap[p].kids) : heap' = Cut(heap, p, s)
    BY <1>5 DEF Pruning
  <2>2. PICK s \in ToSet(heap[p].kids) : heap' = Cut(heap, p, s)
    BY <2>1
  <2>3. /\ DOMAIN heap' \subseteq DOMAIN heap
        /\ \A x \in DOMAIN heap' : /\ heap'[x].type = heap[x].type
                                   /\ ToSet(heap'[x].kids) \subseteq ToSet(heap[x].kids)
    <3> DEFINE g == Cut(heap, p, s)
    <3> HIDE DEF g
    <3>1. /\ DOMAIN g = DOMAIN heap \ Below(heap, s)
          /\ \A x \in DOMAIN g : /\ g[x].type = heap[x].type
                                 /\ ToSet(g[x].kids) \subseteq ToSet(heap[x].kids)
      BY <1>1, CutKeeps DEF g
    <3>2. heap' = g
      BY <2>2 DEF g
    <3> QED
      BY <3>1, <3>2
  <2>4. AllTyped'
    BY <2>3 DEF AllTyped
  <2>5. Keeps
    <3>1. \A x \in DOMAIN heap' : \A y \in ToSet(heap'[x].kids) : y \in DOMAIN heap'
      BY <1>1 DEF WellFormed, ToSet
    <3>2. ASSUME NEW x \in DOMAIN heap \cap DOMAIN heap', Uniform(heap, x)
          PROVE  Uniform(heap', x)
      <4>1. SUFFICES ASSUME NEW y \in ToSet(heap'[x].kids), NEW z \in ToSet(heap'[x].kids)
                     PROVE  heap'[y].type = heap'[z].type
        BY <1>1, UniformElements
      <4>2. y \in ToSet(heap[x].kids) /\ z \in ToSet(heap[x].kids)
        BY <2>3
      <4>3. heap[y].type = heap[z].type
        BY <1>1, <3>2, <4>2, UniformElements
      <4> QED
        BY <2>3, <3>1, <4>3
    <3> QED
      BY <3>2
  <2> QED
    BY <2>4, <2>5
<1>6. CASE config_destroy
  <2>1. heap' = InitialHeap
    BY <1>6 DEF config_destroy
  <2>2. DOMAIN heap' = {Root} /\ heap'[Root].type = "GROUP"
    BY <2>1 DEF InitialHeap, Blank
  <2>3. \A x \in DOMAIN heap' : heap'[x].type = "GROUP"
    BY <2>2
  <2> QED
    BY <2>3 DEF AllTyped
<1> QED
  BY <1>3, <1>4, <1>5, <1>6, StepKinds

(* A program that adds no setting of type NONE mixes the types of an array    *)
(* through no call but config_setting_add (libconfig.c:512-531).              *)
THEOREM ArraysStayUniform ==
  ASSUME "NONE" \notin AddTypes PROVE Spec => OnlyAddMixesArrays
<1>1. Init => AllTyped
  BY DEF Init, InitialHeap, Blank, AllTyped
<1>2. TreeInv /\ AllTyped /\ [Next]_vars => (TreeInv /\ AllTyped)'
  BY NextTree, NextTyped
<1>3. TreeInv /\ AllTyped /\ [Next]_vars =>
        [last'.call # "config_setting_add" =>
           \A s \in DOMAIN heap \cap DOMAIN heap' :
             heap'[s].type = "ARRAY" /\ Uniform(heap, s) => Uniform(heap', s)]_vars
  BY NextTree, NextTyped
<1>4. Spec => [](TreeInv /\ AllTyped)
  BY InitTree, <1>1, <1>2, PTL DEF Spec
<1> QED
  BY <1>3, <1>4, PTL DEF Spec, OnlyAddMixesArrays

-----------------------------------------------------------------------------
(* What leads from a list to its settings: only aggregates have one, and the *)
(* members of a group that have names each have their own.                   *)
NamesTell(h) ==
  \A p \in DOMAIN h :
    /\ h[p].kids # <<>> => h[p].type \in Aggregates
    /\ h[p].type = "GROUP" =>
         \A x, y \in ToSet(h[p].kids) : h[x].name = h[y].name /\ h[x].name # Nil => x = y

LEMMA KidsAreSettings ==
  ASSUME NEW h, WellFormed(h), NEW p \in DOMAIN h
  PROVE  ToSet(h[p].kids) \subseteq DOMAIN h /\ (h[p].kids = <<>> <=> ToSet(h[p].kids) = {})
<1>1. h[p].kids \in Seq(DOMAIN h)
  BY DEF WellFormed
<1> DEFINE q == h[p].kids
<1>2. DOMAIN q = 1 .. Len(q) /\ Len(q) \in Nat
  BY <1>1
<1>3. q = <<>> <=> DOMAIN q = {}
  <2>1. q # <<>> => Len(q) > 0 /\ 1 \in DOMAIN q
    BY <1>1, <1>2
  <2> QED
    BY <2>1
<1>4. \A i \in DOMAIN q : q[i] \in DOMAIN h
  BY <1>1, <1>2
<1> HIDE DEF q
<1>5. ToSet(q) \subseteq DOMAIN h /\ (q = <<>> <=> ToSet(q) = {})
  BY <1>3, <1>4 DEF ToSet
<1> QED
  BY <1>5 DEF q

LEMMA SameTreeKeepsNames ==
  ASSUME NEW h, NEW g, WellFormed(h), SameTree(h, g), NamesTell(h)
  PROVE  NamesTell(g)
<1> SUFFICES ASSUME NEW p \in DOMAIN h
             PROVE  /\ g[p].kids # <<>> => g[p].type \in Aggregates
                    /\ g[p].type = "GROUP" =>
                         \A x, y \in ToSet(g[p].kids) :
                           g[x].name = g[y].name /\ g[x].name # Nil => x = y
  BY DEF NamesTell, SameTree
<1>1. g[p].kids = h[p].kids
  BY DEF SameTree
<1>2. \A x \in ToSet(h[p].kids) : g[x].name = h[x].name
  BY KidsAreSettings DEF SameTree
<1>3. CASE h[p].kids = <<>>
  BY <1>1, <1>3, KidsAreSettings
<1>4. CASE h[p].kids # <<>>
  <2>1. h[p].type \in Aggregates
    BY <1>4 DEF NamesTell
  <2>2. g[p].type = h[p].type
    BY <2>1 DEF SameTree, Aggregates, Vectors
  <2> QED
    BY <1>1, <1>2, <2>1, <2>2 DEF NamesTell
<1> QED
  BY <1>3, <1>4

LEMMA GrownKeepsNames ==
  ASSUME NEW h, NEW g, NEW p, NEW s, NEW t \in Types, WellFormed(h), Grown(h, g, p, s, t),
         NamesTell(h)
  PROVE  NamesTell(g)
<1>1. /\ s \notin DOMAIN h /\ p \in DOMAIN h /\ p # s /\ DOMAIN g = DOMAIN h \cup {s}
      /\ g[s].kids = <<>> /\ g[p].type = h[p].type /\ g[p].kids = Append(h[p].kids, s)
      /\ h[p].type \in Aggregates
      /\ h[p].type = "GROUP" => NewMember(h, p, g[s].name)
  BY DEF Grown
<1>2. \A x \in DOMAIN h : g[x].name = h[x].name
  BY DEF Grown
<1>3. ASSUME NEW x \in DOMAIN g
      PROVE  /\ g[x].kids # <<>> => g[x].type \in Aggregates
             /\ g[x].type = "GROUP" =>
                  \A y, z \in ToSet(g[x].kids) :
                    g[y].name = g[z].name /\ g[y].name # Nil => y = z
  <2>1. CASE x = s
    <3>1. ToSet(g[s].kids) = {}
      BY <1>1 DEF ToSet
    <3> QED
      BY <1>1, <2>1, <3>1
  <2>2. CASE x = p
    <3>1. h[p].kids \in Seq(DOMAIN h)
      BY <1>1 DEF WellFormed
    <3>2. ToSet(g[p].kids) = ToSet(h[p].kids) \cup {s}
      BY <1>1, <3>1 DEF ToSet
    <3>3. ToSet(h[p].kids) \subseteq DOMAIN h
      BY <1>1, KidsAreSettings
    <3>4. ASSUME h[p].type = "GROUP", NEW y \in ToSet(h[p].kids) \cup {s}
          PROVE  \A z \in ToSet(h[p].kids) \cup {s} : g[y].name = g[z].name /\ g[y].name # Nil => y = z
      <4>1. g[s].name # Nil => \A z \in ToSet(h[p].kids) : g[z].name # g[s].name
        BY <1>1, <1>2, <3>3, <3>4 DEF NewMember
      <4>2. ASSUME NEW z \in ToSet(h[p].kids)
            PROVE  \A w \in ToSet(h[p].kids) : g[z].name = g[w].name /\ g[z].name # Nil => z = w
        BY <1>1, <1>2, <3>3, <3>4 DEF NamesTell
      <4> QED
        BY <3>4, <4>1, <4>2
    <3> QED
      BY <1>1, <2>2, <3>2, <3>4
  <2>3. CASE x # s /\ x # p
    <3>1. g[x] = h[x] /\ x \in DOMAIN h
      BY <1>1, <2>3 DEF Grown
    <3>2. ToSet(h[x].kids) \subseteq DOMAIN h
      BY <3>1, KidsAreSettings
    <3> QED
      BY <1>2, <3>1, <3>2 DEF NamesTell
  <2> QED
    BY <2>1, <2>2, <2>3
<1> QED
  BY <1>3 DEF NamesTell

LEMMA CutKeepsNames ==
  ASSUME NEW h, NEW p \in DOMAIN h, NEW s \in ToSet(h[p].kids), WellFormed(h), NamesTell(h)
  PROVE  NamesTell(Cut(h, p, s))
<1> DEFINE g == Cut(h, p, s)
<1> HIDE DEF g
<1>1. /\ WellFormed(g) /\ DOMAIN g = DOMAIN h \ Below(h, s)
      /\ \A x \in DOMAIN g : /\ g[x].type = h[x].type /\ g[x].name = h[x].name
                             /\ ToSet(g[x].kids) \subseteq ToSet(h[x].kids)
  BY CutKeeps DEF g
<1>2. ASSUME NEW x \in DOMAIN g
      PROVE  /\ g[x].kids # <<>> => g[x].type \in Aggregates
             /\ g[x].type = "GROUP" =>
                  \A y, z \in ToSet(g[x].kids) :
                    g[y].name = g[z].name /\ g[y].name # Nil => y = z
  <2>1. ToSet(g[x].kids) \subseteq DOMAIN g /\ (g[x].kids = <<>> <=> ToSet(g[x].kids) = {})
    BY <1>1, KidsAreSettings
  <2>2. x \in DOMAIN h /\ (h[x].kids = <<>> <=> ToSet(h[x].kids) = {})
    BY <1>1, KidsAreSettings
  <2>3. g[x].kids # <<>> => g[x].type \in Aggregates
    BY <1>1, <2>1, <2>2 DEF NamesTell
  <2>4. ASSUME g[x].type = "GROUP", NEW y \in ToSet(g[x].kids), NEW z \in ToSet(g[x].kids)
        PROVE  g[y].name = g[z].name /\ g[y].name # Nil => y = z
    <3>1. y \in ToSet(h[x].kids) /\ z \in ToSet(h[x].kids) /\ h[x].type = "GROUP"
      BY <1>1, <2>4
    <3>2. g[y].name = h[y].name /\ g[z].name = h[z].name
      BY <1>1, <2>1
    <3> QED
      BY <2>2, <3>1, <3>2 DEF NamesTell
  <2> QED
    BY <2>3, <2>4
<1>3. NamesTell(g)
  BY <1>2 DEF NamesTell
<1> QED
  BY <1>3 DEF g

LEMMA InitialNames == NamesTell(InitialHeap)
<1> DEFINE g == InitialHeap
<1>1. DOMAIN g = {Root} /\ g[Root] = Blank("GROUP", Nil, Nil)
  BY DEF InitialHeap
<1>2. g[Root].kids = <<>>
  <2> HIDE DEF g
  <2> QED
    BY <1>1 DEF Blank
<1>3. ToSet(g[Root].kids) = {}
  BY <1>2 DEF ToSet
<1> HIDE DEF g
<1>4. NamesTell(g)
  BY <1>1, <1>2, <1>3 DEF NamesTell
<1> QED
  BY <1>4 DEF g

LEMMA NextNames == TreeInv /\ NamesTell(heap) /\ [Next]_vars => NamesTell(heap')
<1> SUFFICES ASSUME TreeInv, NamesTell(heap), [Next]_vars PROVE NamesTell(heap')
  OBVIOUS
<1>1. WellFormed(heap)
  BY DEF TreeInv
<1>2. CASE UNCHANGED vars
  BY <1>2 DEF vars
<1>3. CASE Same
  BY <1>1, <1>3, SameTreeKeepsNames DEF Same
<1>4. CASE Growth
  <2>1. PICK g, p, s : \E t \in Types : Grown(heap, g, p, s, t) /\ Filled(g, heap')
    BY <1>4 DEF Growth
  <2>2. NamesTell(g) /\ WellFormed(g)
    BY <1>1, <2>1, GrownKeepsNames, GrownKeeps
  <2> QED
    BY <2>1, <2>2, SameTreeKeepsNames DEF Filled
<1>5. CASE Pruning
  <2>1. PICK p \in DOMAIN heap : \E s \in ToSet(heap[p].kids) : heap' = Cut(heap, p, s)
    BY <1>5 DEF Pruning
  <2>2. PICK s \in ToSet(heap[p].kids) : heap' = Cut(heap, p, s)
    BY <2>1
  <2>3. NamesTell(Cut(heap, p, s))
    BY <1>1, CutKeepsNames
  <2> QED
    BY <2>2, <2>3
<1>6. CASE config_destroy
  BY <1>6, InitialNames DEF config_destroy
<1> QED
  BY <1>2, <1>3, <1>4, <1>5, <1>6, StepKinds

(* Every setting but the root hangs in the list of its parent. *)
LEMMA HangsFromParent ==
  ASSUME NEW h, WellFormed(h), NEW s \in DOMAIN h \ {Root}
  PROVE  h[s].parent \in DOMAIN h /\ s \in ToSet(h[h[s].parent].kids)
<1> DEFINE S == DOMAIN h \ {s}
<1>1. ~Closed(h, S)
  BY DEF WellFormed, Below
<1>2. PICK x \in S : ~(ToSet(h[x].kids) \subseteq S)
  BY <1>1 DEF Closed
<1>3. s \in ToSet(h[x].kids)
  BY <1>2, KidsAreSettings
<1>4. h[s].parent = x
  BY <1>3 DEF WellFormed, ToSet
<1> QED
  BY <1>2, <1>3, <1>4

LEMMA NamesLead ==
  ASSUME TreeInv, NamesTell(heap), NEW s \in DOMAIN heap \ {Root}
  PROVE  LET up == heap[s].parent
         IN  /\ GetElem(heap, up, SettingIndex(heap, s)) = s
             /\ HasName(s) => GetMember(heap, up, heap[s].name) = s
<1>1. WellFormed(heap)
  BY DEF TreeInv
<1>2. PICK up \in DOMAIN heap : up = heap[s].parent /\ s \in ToSet(heap[up].kids)
  BY <1>1, HangsFromParent
<1>3. heap[up].kids \in Seq(DOMAIN heap) /\ IsInjective(heap[up].kids) /\ up # Nil
  BY <1>1, IdsAssumption DEF WellFormed
<1> DEFINE q == heap[up].kids
<1>4. PICK k \in DOMAIN q : q[k] = s
  BY <1>2 DEF ToSet
<1>5. /\ DOMAIN q = 1 .. Len(q) /\ Len(q) \in Nat
      /\ \A i \in DOMAIN q : q[i] = s => i = k
  BY <1>3, <1>4 DEF IsInjective
<1>6. heap[up].type \in Aggregates
  <2>1. heap[up].kids # <<>>
    BY <1>4, <1>5
  <2> QED
    BY <2>1 DEF NamesTell
<1>7. ASSUME heap[up].type = "GROUP", heap[s].name # Nil PROVE GetMember(heap, up, heap[s].name) = s
  <2> DEFINE hits == {i \in DOMAIN q : heap[q[i]].name = heap[s].name /\ heap[s].name # Nil}
  <2>1. \A y \in ToSet(q) : heap[s].name = heap[y].name => s = y
    BY <1>2, <1>7 DEF NamesTell
  <2>2. heap[s].name # Nil
    BY <1>7
  <2>3. \A i \in DOMAIN q : q[i] \in ToSet(q)
    BY DEF ToSet
  <2>4. hits = {k}
    BY <1>4, <1>5, <2>1, <2>2, <2>3
  <2>5. GetMember(heap, up, heap[s].name) = ListSearch(heap, up, heap[s].name)
    BY <1>7 DEF GetMember
  <2>6. ListSearch(heap, up, heap[s].name) = IF hits = {} THEN Nil ELSE q[Min(hits)]
    BY DEF ListSearch
  <2> HIDE DEF hits
  <2>7. Min(hits) = k
    BY <1>5, <2>4, LeastElement
  <2> QED
    BY <1>4, <2>4, <2>5, <2>6, <2>7
<1>8. GetElem(heap, up, SettingIndex(heap, s)) = s
  <2> DEFINE hits == {i \in DOMAIN q : q[i] = s}
  <2>1. hits = {k}
    BY <1>4, <1>5
  <2>2. SettingIndex(heap, s) = IF hits = {} THEN -1 ELSE Min(hits) - 1
    BY <1>2, <1>3 DEF SettingIndex
  <2> HIDE DEF hits
  <2>3. Min(hits) = k
    BY <1>5, <2>1, LeastElement
  <2>4. SettingIndex(heap, s) = k - 1
    BY <2>1, <2>2, <2>3
  <2>5. k - 1 \in 0 .. Len(q) - 1 /\ (k - 1) + 1 = k
    BY <1>5
  <2> QED
    BY <1>4, <1>6, <2>4, <2>5 DEF GetElem, Length
<1> QED
  BY <1>2, <1>7, <1>8 DEF HasName

(* A getter finds every setting where it hangs: by the index that             *)
(* config_setting_index answers, and a member of a group that has a name by   *)
(* it: config_setting_add gives it to no other one, whatever was added, removed and  *)
(* set before (libconfig.c:417-440, 1505-1533, 1571-1593, 1645-1663).         *)
THEOREM SettingsStayFound == Spec => []FoundFromParent
<1>1. Init => TreeInv /\ NamesTell(heap)
  BY InitTree, InitialNames DEF Init
<1>2. (TreeInv /\ NamesTell(heap)) /\ [Next]_vars => (TreeInv /\ NamesTell(heap))'
  BY NextTree, NextNames
<1>3. TreeInv /\ NamesTell(heap) => FoundFromParent
  BY NamesLead DEF FoundFromParent
<1> QED
  BY <1>1, <1>2, <1>3, PTL DEF Spec

-----------------------------------------------------------------------------
(* Recursion over the naturals, and powers of two. *)

LEMMA Induction ==
  ASSUME NEW S \in SUBSET Nat, 0 \in S, \A n \in S : n + 1 \in S
  PROVE  \A n \in Nat : n \in S
<1> SUFFICES ASSUME NEW m \in Nat, m \notin S PROVE FALSE
  OBVIOUS
<1> DEFINE k == Min(Nat \ S)
<1>1. k \in Nat \ S /\ \A y \in Nat \ S : k <= y
  BY LeastElement
<1> HIDE DEF k
<1>2. k - 1 \in S
  BY <1>1
<1> QED
  BY <1>1, <1>2

(* The first n values of a recursion. *)
Begun(b, G, n) == {p \in [0 .. n -> DOMAIN G] : p[0] = b /\ \A m \in 1 .. n : p[m] = G[p[m - 1]][m]}
BegunOnce(b, G, n) == \E p : Begun(b, G, n) = {p}
Chosen(S) == CHOOSE v : v \in S

LEMMA RecursionBegins ==
  ASSUME NEW D, NEW b \in D, NEW G \in [D -> [Nat \ {0} -> D]], NEW n \in Nat
  PROVE  BegunOnce(b, G, n)
<1> DEFINE S == {k \in Nat : BegunOnce(b, G, k)}
<1>1. 0 \in S
  <2> DEFINE q == [i \in 0 .. 0 |-> b]
  <2>1. q \in Begun(b, G, 0)
    BY DEF Begun
  <2>2. ASSUME NEW p \in Begun(b, G, 0) PROVE p = q
    BY DEF Begun
  <2> HIDE DEF q
  <2>3. Begun(b, G, 0) = {q}
    BY <2>1, <2>2
  <2> QED
    BY <2>3 DEF BegunOnce
<1>2. ASSUME NEW k \in S PROVE k + 1 \in S
  <2>1. PICK p : Begun(b, G, k) = {p}
    BY DEF BegunOnce
  <2>2. p \in [0 .. k -> D] /\ p[0] = b /\ \A m \in 1 .. k : p[m] = G[p[m - 1]][m]
    BY <2>1 DEF Begun
  <2> DEFINE q == [i \in 0 .. k + 1 |-> IF i = k + 1 THEN G[p[k]][k + 1] ELSE p[i]]
  <2>3. q \in [0 .. k + 1 -> D]
    BY <2>2
  <2>4. \A m \in 1 .. k + 1 : q[m] = G[q[m - 1]][m]
    <3> SUFFICES ASSUME NEW m \in 1 .. k + 1 PROVE q[m] = G[q[m - 1]][m]
      OBVIOUS
    <3>1. m - 1 \in 0 .. k /\ m - 1 # k + 1 /\ q[m - 1] = p[m - 1]
      OBVIOUS
    <3>2. CASE m = k + 1
      BY <3>1, <3>2
    <3>3. CASE m # k + 1
      <4>1. m \in 1 .. k /\ q[m] = p[m]
        BY <3>3
      <4> QED
        BY <2>2, <3>1, <4>1
    <3> QED
      BY <3>2, <3>3
  <2>5. q[0] = b
    BY <2>2
  <2> HIDE DEF q
  <2>6. q \in Begun(b, G, k + 1)
    BY <2>3, <2>4, <2>5 DEF Begun
  <2>7. ASSUME NEW r \in Begun(b, G, k + 1) PROVE r = q
    <3>1. r \in [0 .. k + 1 -> D] /\ r[0] = b /\ \A m \in 1 .. k + 1 : r[m] = G[r[m - 1]][m]
      BY DEF Begun
    <3> DEFINE short == [i \in 0 .. k |-> r[i]]
    <3>0. \A m \in 1 .. k : m \in 1 .. k + 1 /\ m - 1 \in 0 .. k /\ m \in 0 .. k
      OBVIOUS
    <3>2. short \in Begun(b, G, k)
      <4>1. short \in [0 .. k -> D] /\ short[0] = b
        BY <3>1
      <4>2. \A m \in 1 .. k : short[m] = G[short[m - 1]][m]
        BY <3>0, <3>1
      <4> HIDE DEF short
      <4> QED
        BY <4>1, <4>2 DEF Begun
    <3>3. short = p
      BY <2>1, <3>2
    <3>4. \A i \in 0 .. k : r[i] = p[i]
      BY <3>3
    <3>5. r[k + 1] = G[p[k]][k + 1]
      BY <3>1, <3>4
    <3>6. \A i \in 0 .. k + 1 : r[i] = q[i]
      BY <3>4, <3>5 DEF q
    <3> QED
      BY <2>3, <3>1, <3>6
  <2>8. Begun(b, G, k + 1) = {q}
    BY <2>6, <2>7
  <2>9. BegunOnce(b, G, k + 1)
    BY <2>8 DEF BegunOnce
  <2> QED
    BY <2>9
<1> HIDE DEF S
<1>3. S \in SUBSET Nat
  BY DEF S
<1>4. n \in S
  BY <1>1, <1>2, <1>3, Induction
<1> QED
  BY <1>4 DEF S

Recurs(D, b, G) == \E f \in [Nat -> D] : f = [n \in Nat |-> IF n = 0 THEN b ELSE G[f[n - 1]][n]]
LEMMA Recursion ==
  ASSUME NEW D, NEW b \in D, NEW G \in [D -> [Nat \ {0} -> D]]
  PROVE  Recurs(D, b, G)
<1> DEFINE first(n) == Chosen(Begun(b, G, n))
           f == [n \in Nat |-> first(n)[n]]
<1>1. ASSUME NEW n \in Nat
      PROVE  /\ first(n) \in [0 .. n -> D] /\ first(n)[0] = b
             /\ \A m \in 1 .. n : first(n)[m] = G[first(n)[m - 1]][m]
  <2>1. PICK p : Begun(b, G, n) = {p}
    <3>1. BegunOnce(b, G, n)
      BY RecursionBegins
    <3> QED
      BY <3>1 DEF BegunOnce
  <2>2. first(n) \in Begun(b, G, n)
    BY <2>1 DEF Chosen
  <2> HIDE DEF first
  <2> QED
    BY <2>2 DEF Begun
<1> HIDE DEF first
<1>2. ASSUME NEW n \in Nat \ {0} PROVE first(n)[n - 1] = first(n - 1)[n - 1]
  <2> DEFINE short == [i \in 0 .. n - 1 |-> first(n)[i]]
  <2>1. n - 1 \in Nat
    OBVIOUS
  <2>2. short \in Begun(b, G, n - 1)
    <3>1. short \in [0 .. n - 1 -> D] /\ short[0] = b
      BY <1>1
    <3>2. \A m \in 1 .. n - 1 : short[m] = G[short[m - 1]][m]
      <4>1. \A m \in 1 .. n - 1 : m \in 1 .. n /\ m - 1 \in 0 .. n - 1 /\ m \in 0 .. n - 1
        OBVIOUS
      <4> QED
        BY <1>1, <4>1
    <3> HIDE DEF short
    <3> QED
      BY <3>1, <3>2 DEF Begun
  <2> HIDE DEF short
  <2>3. first(n - 1) = short
    <3>1. PICK p : Begun(b, G, n - 1) = {p}
      <4>1. BegunOnce(b, G, n - 1)
        BY <2>1, RecursionBegins
      <4> QED
        BY <4>1 DEF BegunOnce
    <3> QED
      BY <2>2, <3>1 DEF Chosen, first
  <2>4. short[n - 1] = first(n)[n - 1]
    BY <2>1 DEF short
  <2> QED
    BY <2>3, <2>4
<1>3. f \in [Nat -> D]
  BY <1>1
<1>4. ASSUME NEW n \in Nat PROVE f[n] = IF n = 0 THEN b ELSE G[f[n - 1]][n]
  <2>1. CASE n = 0
    BY <1>1, <2>1
  <2>2. CASE n # 0
    <3>1. n - 1 \in Nat /\ n \in 1 .. n /\ f[n] = first(n)[n] /\ f[n - 1] = first(n - 1)[n - 1]
      BY <2>2
    <3> QED
      BY <1>1, <1>2, <2>2, <3>1
  <2> QED
    BY <2>1, <2>2
<1> HIDE DEF f
<1>5. f = [n \in Nat |-> IF n = 0 THEN b ELSE G[f[n - 1]][n]]
  BY <1>3, <1>4
<1> QED
  BY <1>3, <1>5 DEF Recurs

LEMMA PowersOfTwo ==
  /\ Pow2 \in [Nat -> Nat \ {0}] /\ Pow2[0] = 1
  /\ \A n \in Nat : Pow2[n + 1] = 2 * Pow2[n]
<1> DEFINE D == Nat \ {0}
           G == [x \in D |-> [n \in Nat \ {0} |-> 2 * x]]
           Step(g) == [n \in Nat |-> IF n = 0 THEN 1 ELSE 2 * g[n - 1]]
<1>1. G \in [D -> [Nat \ {0} -> D]] /\ 1 \in D
  OBVIOUS
<1>2. PICK f \in [Nat -> D] : f = [n \in Nat |-> IF n = 0 THEN 1 ELSE G[f[n - 1]][n]]
  <2> HIDE DEF G, D
  <2>1. Recurs(D, 1, G)
    BY <1>1, Recursion
  <2> QED
    BY <2>1 DEF Recurs
<1>3. f = Step(f)
  BY <1>2
<1>4. Pow2 = CHOOSE g : g = Step(g)
  BY DEF Pow2
<1>5. Pow2 = Step(Pow2)
  BY <1>3, <1>4
<1>6. Pow2[0] = 1 /\ \A n \in Nat : Pow2[n + 1] = 2 * Pow2[n]
  <2>1. \A n \in Nat : Pow2[n] = IF n = 0 THEN 1 ELSE 2 * Pow2[n - 1]
    BY <1>5
  <2> QED
    BY <2>1
<1> DEFINE S == {n \in Nat : Pow2[n] \in D}
<1>7. \A n \in Nat : n \in S
  <2>1. 0 \in S /\ \A n \in S : n + 1 \in S
    BY <1>6
  <2>2. S \in SUBSET Nat
    OBVIOUS
  <2> HIDE DEF S
  <2> QED
    BY <2>1, <2>2, Induction
<1>8. Pow2 = [n \in Nat |-> Pow2[n]]
  <2>1. DOMAIN Pow2 = Nat
    BY <1>5
  <2> QED
    BY <1>5
<1> QED
  BY <1>6, <1>7, <1>8

LEMMA PowerOfSum ==
  ASSUME NEW m \in Nat, NEW n \in Nat
  PROVE  /\ Pow2[m + n] = Pow2[m] * Pow2[n] /\ Pow2[m] <= Pow2[m + n]
         /\ n > 0 => Pow2[m] < Pow2[m + n]
<1> DEFINE S == {k \in Nat : /\ Pow2[m + k] = Pow2[m] * Pow2[k] /\ Pow2[m] <= Pow2[m + k]
                             /\ k > 0 => Pow2[m] < Pow2[m + k]}
<1>1. Pow2 \in [Nat -> Nat \ {0}]
  BY PowersOfTwo
<1>2. 0 \in S
  BY <1>1, PowersOfTwo
<1>3. ASSUME NEW k \in S PROVE k + 1 \in S
  <2>1. k \in Nat /\ m + k \in Nat /\ m + (k + 1) = (m + k) + 1
    OBVIOUS
  <2>2. Pow2[m + (k + 1)] = 2 * Pow2[m + k] /\ Pow2[k + 1] = 2 * Pow2[k]
    BY <2>1, PowersOfTwo
  <2>3. Pow2[m] \in Nat \ {0} /\ Pow2[k] \in Nat \ {0} /\ Pow2[m + k] \in Nat \ {0}
    BY <1>1, <2>1
  <2>4. \A x, y \in Nat : x * (2 * y) = 2 * (x * y)
    OBVIOUS
  <2>5. Pow2[m + (k + 1)] = Pow2[m] * Pow2[k + 1]
    <3>1. Pow2[m + k] = Pow2[m] * Pow2[k]
      OBVIOUS
    <3>2. Pow2[m] * (2 * Pow2[k]) = 2 * (Pow2[m] * Pow2[k])
      BY <2>3, <2>4
    <3> QED
      BY <2>2, <3>1, <3>2
  <2>6. Pow2[m] < Pow2[m + (k + 1)]
    BY <2>2, <2>3
  <2>7. Pow2[m] <= Pow2[m + (k + 1)] /\ k + 1 \in Nat
    BY <2>1, <2>3, <2>2, <2>6
  <2> QED
    BY <2>5, <2>6, <2>7
<1>4. S \in SUBSET Nat
  OBVIOUS
<1> HIDE DEF S
<1>5. n \in S
  BY <1>2, <1>3, <1>4, Induction
<1> QED
  BY <1>5 DEF S

LEMMA PowersGrow ==
  ASSUME NEW m \in Nat, NEW n \in Nat, m <= n
  PROVE  Pow2[m] <= Pow2[n] /\ (m < n => Pow2[m] < Pow2[n])
<1>1. PICK d \in Nat : n = m + d /\ (m < n => d > 0)
  <2>1. n - m \in Nat /\ n = m + (n - m) /\ (m < n => n - m > 0)
    OBVIOUS
  <2> QED
    BY <2>1
<1> QED
  BY <1>1, PowerOfSum

-----------------------------------------------------------------------------
(* Numbers *)

LEMMA Widths ==
  /\ IntBits \in Nat \ {0} /\ LongBits \in Nat \ {0} /\ FloatBits \in Nat \ {0}
  /\ DoubleBits \in Nat \ {0} /\ IntBits - 1 \in Nat /\ LongBits - 1 \in Nat
  /\ FloatBits <= IntBits - 1 /\ FloatBits < LongBits - 1 /\ FloatBits <= DoubleBits
  /\ \A bits \in Nat : Pow2[bits] \in Nat \ {0}
<1> QED
  BY WidthAssumption, PowersOfTwo

LEMMA ZeroFits == ASSUME NEW bits \in Nat \ {0} PROVE Fits(bits, 0)
<1>1. Pow2[bits - 1] \in Nat \ {0}
  BY Widths
<1> QED
  BY <1>1 DEF Fits

LEMMA NarrowFits == ASSUME NEW v PROVE Fits(IntBits, Narrow(v))
<1> QED
  BY ZeroFits, Widths DEF Narrow

LEMMA TruncateFits == ASSUME NEW bits \in Nat \ {0}, NEW d PROVE Fits(bits, Truncate(bits, d))
<1>1. Pow2[bits - 1] \in Nat \ {0}
  BY Widths
<1>2. Fits(bits, -Pow2[bits - 1])
  BY <1>1 DEF Fits
<1> QED
  BY <1>2 DEF Truncate

LEMMA IntInLong == ASSUME NEW v \in Int, Fits(IntBits, v) PROVE Fits(LongBits, v)
<1>1. Pow2[IntBits - 1] <= Pow2[LongBits - 1]
  BY Widths, WidthAssumption, PowersGrow
<1>2. Pow2[IntBits - 1] \in Nat /\ Pow2[LongBits - 1] \in Nat
  BY Widths
<1> QED
  BY <1>1, <1>2 DEF Fits

LEMMA Division ==
  ASSUME NEW a \in Nat, NEW P \in Nat \ {0}
  PROVE  a \div P \in Nat /\ a % P \in Nat /\ a % P < P /\ a = P * (a \div P) + (a % P)
<1> QED
  OBVIOUS

(* To so many bits a number is rounded by less than one part in 2^bits.      *)
LEMMA ToFloatNear ==
  ASSUME NEW bits \in Nat \ {0}, NEW v \in Int, Fits(LongBits, v)
  PROVE  \E w \in Int : ToFloat(bits, v) = 2 * w /\ Near(bits, v, w)
<1> DEFINE K == {e \in 0 .. LongBits : AbsOf(v) <= Pow2[bits + e]}
           k == Min(K)
           P == Pow2[k]
           q == AbsOf(v) \div P
           r == AbsOf(v) % P
           up == 2 * r > P \/ (2 * r = P /\ q % 2 = 1)
           m == (IF up THEN q + 1 ELSE q) * P
           w == IF v < 0 THEN -m ELSE m
<1>1. AbsOf(v) \in Nat
  BY DEF AbsOf
<1>2. K \in SUBSET Nat /\ LongBits \in K
  <2>1. AbsOf(v) <= Pow2[LongBits - 1]
    BY Widths DEF Fits, AbsOf
  <2>2. LongBits - 1 \in Nat /\ bits + LongBits \in Nat /\ LongBits - 1 <= bits + LongBits
    BY Widths
  <2>3. Pow2[LongBits - 1] <= Pow2[bits + LongBits]
    BY <2>2, PowersGrow
  <2> QED
    BY <1>1, <2>1, <2>2, <2>3, Widths
<1>3. k \in Nat /\ k \in K /\ \A e \in K : k <= e
  <2> HIDE DEF K
  <2> QED
    BY <1>2, LeastElement
<1>4. ToFloat(bits, v) = 2 * w
  BY DEF ToFloat
<1>5. k > 0 => Pow2[bits + (k - 1)] < AbsOf(v)
  <2> SUFFICES ASSUME k > 0 PROVE Pow2[bits + (k - 1)] < AbsOf(v)
    OBVIOUS
  <2>0. k - 1 \notin K
    <3> HIDE DEF K, k
    <3> QED
      BY <1>3
  <2>1. k - 1 \notin K /\ k - 1 \in 0 .. LongBits
    <3>1. k \in 0 .. LongBits
      BY <1>3
    <3> HIDE DEF K, k
    <3> QED
      BY <1>3, <2>0, <3>1, Widths
  <2>2. Pow2[bits + (k - 1)] \in Nat
    BY <2>1, Widths
  <2> QED
    BY <1>1, <2>1, <2>2
<1> HIDE DEF k
<1>6. P \in Nat \ {0} /\ (k = 0 => P = 1)
  BY <1>3, Widths, PowersOfTwo
<1> HIDE DEF P
<1>7. q \in Nat /\ r \in Nat /\ r < P /\ AbsOf(v) = P * q + r
  BY <1>1, <1>6, Division
<1> HIDE DEF q, r
<1> DEFINE d == AbsOf(m - AbsOf(v))
<1>8. m \in Nat /\ d \in Nat /\ 2 * d <= P
  <2>1. q * P \in Nat /\ (q + 1) * P = q * P + P /\ P * q = q * P
    BY <1>6, <1>7
  <2>2. CASE up
    <3>1. m = q * P + P /\ 2 * r >= P
      BY <1>6, <1>7, <2>1, <2>2
    <3> HIDE DEF m, up
    <3>2. m - AbsOf(v) = P - r
      BY <1>6, <1>7, <2>1, <3>1
    <3> QED
      BY <1>6, <1>7, <2>1, <3>1, <3>2 DEF AbsOf
  <2>3. CASE ~up
    <3>1. m = q * P /\ 2 * r <= P
      BY <1>6, <1>7, <2>1, <2>3
    <3> HIDE DEF m, up
    <3>2. m - AbsOf(v) = -r
      BY <1>6, <1>7, <2>1, <3>1
    <3> QED
      BY <1>6, <1>7, <2>1, <3>1, <3>2 DEF AbsOf
  <2> QED
    BY <2>2, <2>3
<1> HIDE DEF m
<1>9. w \in Int /\ AbsOf(w - v) = d /\ (d = 0 => w = v)
  BY <1>1, <1>8 DEF AbsOf
<1> HIDE DEF w, d
<1>10. CASE k = 0
  BY <1>4, <1>6, <1>8, <1>9, <1>10 DEF Near
<1>11. CASE k > 0
  <2>1. k - 1 \in Nat /\ bits + (k - 1) \in Nat /\ bits + k = (bits + (k - 1)) + 1
    BY <1>3, <1>11
  <2>2. Pow2[bits + k] = 2 * Pow2[bits + (k - 1)] /\ Pow2[bits + k] = Pow2[bits] * P
    BY <1>3, <2>1, PowersOfTwo, PowerOfSum DEF P
  <2>3. Pow2[bits] \in Nat /\ Pow2[bits + (k - 1)] \in Nat
    BY <2>1, Widths
  <2>4. d * Pow2[bits] <= Pow2[bits + (k - 1)]
    <3>1. \A x, y, z \in Nat : 2 * x <= y => 2 * (x * z) <= z * y
      <4> SUFFICES ASSUME NEW x \in Nat, NEW y \in Nat, NEW z \in Nat, 2 * x <= y PROVE 2 * (x * z) <= z * y
        OBVIOUS
      <4>1. PICK e \in Nat : y = 2 * x + e
        <5>1. y - 2 * x \in Nat /\ y = 2 * x + (y - 2 * x)
          OBVIOUS
        <5> QED
          BY <5>1
      <4>2. z * y = 2 * (x * z) + z * e /\ z * e \in Nat
        BY <4>1
      <4> QED
        BY <4>2
    <3>2. 2 * (d * Pow2[bits]) <= Pow2[bits] * P
      BY <1>6, <1>8, <2>3, <3>1
    <3>3. d * Pow2[bits] \in Nat
      BY <1>8, <2>3
    <3> QED
      BY <2>2, <2>3, <3>2, <3>3
  <2>5. d * Pow2[bits] < AbsOf(v)
    <3>1. d * Pow2[bits] \in Nat
      BY <1>8, <2>3
    <3> QED
      BY <1>1, <1>5, <1>11, <2>3, <2>4, <3>1
  <2> QED
    BY <1>4, <1>9, <2>5 DEF Near
<1> QED
  BY <1>3, <1>10, <1>11

-----------------------------------------------------------------------------
(* The fields of the settings. *)

(* A number of a setting's type is one that the type can hold.              *)
Holds(t, v) == (t = "INT" => Fits(IntBits, v)) /\ (t = "INT64" => Fits(LongBits, v))
Entry(e) == e.name \in Names \cup {Nil} /\ e.hex \in BOOLEAN /\ Holds(e.type, e.val)
Entries(h) == \A s \in DOMAIN h : Entry(h[s])

LEMMA BlankEntry ==
  ASSUME NEW t, NEW n \in Names \cup {Nil}, NEW p
  PROVE  Entry(Blank(t, n, p))
<1> DEFINE e == Blank(t, n, p)
<1>1. e.name = n /\ e.hex = FALSE /\ e.type = t /\ e.val = 0
  BY DEF Blank
<1>2. Fits(IntBits, 0) /\ Fits(LongBits, 0)
  BY ZeroFits, Widths
<1> HIDE DEF e
<1>3. Entry(e)
  BY <1>1, <1>2 DEF Entry, Holds
<1> QED
  BY <1>3 DEF e

LEMMA SameEntry ==
  ASSUME NEW d, NEW e, Entry(d), e.name = d.name, e.hex = d.hex, e.type = d.type, e.val = d.val
  PROVE  Entry(e)
<1> QED
  BY DEF Entry

LEMMA ListAddEntries ==
  ASSUME NEW h, NEW p \in DOMAIN h, NEW s, DOMAIN h[p] = Fields, Entries(h)
  PROVE  Entries(ListAdd(h, p, s))
<1> DEFINE g == ListAdd(h, p, s)
<1>1. /\ DOMAIN g = DOMAIN h /\ \A x \in DOMAIN h \ {p} : g[x] = h[x]
      /\ g[p].name = h[p].name /\ g[p].hex = h[p].hex /\ g[p].type = h[p].type /\ g[p].val = h[p].val
  BY DEF ListAdd, Fields
<1> HIDE DEF g
<1>2. Entry(g[p])
  BY <1>1, SameEntry DEF Entries
<1>3. Entries(g)
  BY <1>1, <1>2 DEF Entries
<1> QED
  BY <1>3 DEF g

LEMMA CreateEntries ==
  ASSUME NEW h, WellFormed(h), Entries(h), NEW p \in DOMAIN h, NEW n \in Names \cup {Nil}, NEW t
  PROVE  Entries(Create(h, p, n, t)[1])
<1> DEFINE s == Fresh(h)
           e == Blank(t, n, p)
           h1 == [x \in DOMAIN h \cup {s} |-> IF x = s THEN e ELSE h[x]]
<1>1. Entry(e) /\ DOMAIN e = Fields
  BY BlankEntry DEF Blank, Fields
<1> HIDE DEF e
<1>2. Entries(h1) /\ DOMAIN h1[p] = Fields /\ p \in DOMAIN h1
  BY <1>1 DEF Entries, WellFormed
<1>3. Create(h, p, n, t) = IF h[p].type \notin Aggregates THEN <<h, Nil>> ELSE <<ListAdd(h1, p, s), s>>
  BY DEF Create, e
<1> HIDE DEF h1, s
<1>4. Entries(ListAdd(h1, p, s))
  BY <1>2, ListAddEntries
<1> QED
  BY <1>3, <1>4

LEMMA StoredHolds ==
  ASSUME NEW kind, NEW t, NEW v, Holds(kind, v), NEW au \in BOOLEAN, t \in Settable(kind, au)
  PROVE  Holds(t, Stored(kind, t, v))
<1>1. /\ Fits(IntBits, Narrow(v)) /\ Fits(IntBits, Truncate(IntBits, v))
      /\ Fits(LongBits, Truncate(LongBits, v))
  BY NarrowFits, TruncateFits, Widths
<1>2. CASE t = "INT"
  <2>1. kind \in {"INT", "INT64", "FLOAT"}
    BY <1>2 DEF Settable
  <2>2. Stored(kind, t, v) \in {Narrow(v), Truncate(IntBits, v)} \/ (kind = "INT" /\ Stored(kind, t, v) = v)
    BY <1>2, <2>1 DEF Stored
  <2> QED
    BY <1>1, <1>2, <2>2 DEF Holds
<1>3. CASE t = "INT64"
  <2>1. kind \in {"INT64", "FLOAT"}
    BY <1>3 DEF Settable
  <2>2. Stored(kind, t, v) = Truncate(LongBits, v) \/ (kind = "INT64" /\ Stored(kind, t, v) = v)
    BY <1>3, <2>1 DEF Stored
  <2> QED
    BY <1>1, <1>3, <2>2 DEF Holds
<1>4. CASE t \notin {"INT", "INT64"}
  BY <1>4 DEF Holds
<1> QED
  BY <1>2, <1>3, <1>4

LEMMA SetScalarEntries ==
  ASSUME NEW h, WellFormed(h), Entries(h), NEW au \in BOOLEAN, NEW s \in DOMAIN h,
         NEW kind, NEW v, Holds(kind, v)
  PROVE  Entries(SetScalar(h, au, s, kind, v)[1])
<1> DEFINE t == IF h[s].type = "NONE" THEN kind ELSE h[s].type
           w == Stored(kind, t, v)
           g == [h EXCEPT ![s].type = t, ![s].val = w]
<1>1. SetScalar(h, au, s, kind, v)[1] = IF t \in Settable(kind, au) THEN g ELSE h
  BY DEF SetScalar
<1>2. ASSUME t \in Settable(kind, au) PROVE Entries(g)
  <2>1. Holds(t, w)
    BY <1>2, StoredHolds
  <2> HIDE DEF t, w
  <2>2. /\ DOMAIN g = DOMAIN h /\ \A x \in DOMAIN h \ {s} : g[x] = h[x]
        /\ g[s].name = h[s].name /\ g[s].hex = h[s].hex /\ g[s].type = t /\ g[s].val = w
    BY DEF WellFormed, Fields
  <2> HIDE DEF g
  <2>3. Entry(g[s])
    BY <2>1, <2>2 DEF Entries, Entry
  <2> QED
    BY <2>2, <2>3 DEF Entries
<1> QED
  BY <1>1, <1>2

LEMMA SetElemEntries ==
  ASSUME NEW h, WellFormed(h), FreeIds(h) # {}, Entries(h), NEW au \in BOOLEAN, NEW p \in DOMAIN h,
         NEW i \in Int, NEW kind \in Types \ (Aggregates \cup {"NONE"}), NEW v, Holds(kind, v)
  PROVE  Entries(SetElem(h, au, p, i, kind, v)[1])
<1> DEFINE made == IF i < 0 THEN Create(h, p, Nil, kind) ELSE <<h, GetElem(h, p, i)>>
           set == SetScalar(made[1], au, made[2], kind, v)
           res == SetElem(h, au, p, i, kind, v)
<1>1. res = <<h, Nil>> \/ (/\ made[2] # Nil /\ res = <<set[1], IF set[2] THEN made[2] ELSE Nil>>
                           /\ h[p].type \in Vectors)
  BY DEF SetElem
<1>2. ASSUME made[2] # Nil, h[p].type \in Vectors
      PROVE  WellFormed(made[1]) /\ Entries(made[1]) /\ made[2] \in DOMAIN made[1]
  <2>1. CASE i < 0
    <3>1. made = Create(h, p, Nil, kind)
      BY <2>1
    <3> HIDE DEF made
    <3>2. made[2] = Fresh(h) /\ Grown(h, made[1], p, Fresh(h), kind)
      <4>1. h[p].type # "GROUP"
        BY <1>2 DEF Vectors
      <4> QED
        BY <1>2, <3>1, <4>1, CreateGrows
    <3>3. Entries(made[1])
      BY <3>1, CreateEntries
    <3> QED
      BY <3>2, <3>3, GrownKeeps DEF Grown
  <2>2. CASE ~(i < 0)
    <3>1. made[1] = h /\ made[2] = GetElem(h, p, i)
      BY <2>2
    <3> HIDE DEF made
    <3> QED
      BY <1>2, <3>1, GetElemInList
  <2> QED
    BY <2>1, <2>2
<1> HIDE DEF made
<1>3. made[2] # Nil /\ h[p].type \in Vectors => Entries(set[1])
  BY <1>2, SetScalarEntries
<1> HIDE DEF set
<1>4. res[1] = h \/ (res[1] = set[1] /\ made[2] # Nil /\ h[p].type \in Vectors)
  BY <1>1
<1> HIDE DEF res
<1>5. Entries(res[1])
  BY <1>3, <1>4
<1> QED
  BY <1>5 DEF res

LEMMA FlagEntries ==
  ASSUME NEW h, WellFormed(h), Entries(h), NEW s \in DOMAIN h, NEW k, NEW hex \in BOOLEAN
  PROVE  Entries([h EXCEPT ![s].hook = k]) /\ Entries(SetFormat(h, s, hex)[1])
<1> DEFINE g == [h EXCEPT ![s].hook = k]
           f == [h EXCEPT ![s].hex = hex]
<1>1. DOMAIN h[s] = Fields
  BY DEF WellFormed
<1>2. /\ DOMAIN g = DOMAIN h /\ \A x \in DOMAIN h \ {s} : g[x] = h[x]
      /\ g[s].name = h[s].name /\ g[s].hex = h[s].hex /\ g[s].type = h[s].type /\ g[s].val = h[s].val
  BY <1>1 DEF Fields
<1>3. /\ DOMAIN f = DOMAIN h /\ \A x \in DOMAIN h \ {s} : f[x] = h[x]
      /\ f[s].name = h[s].name /\ f[s].hex = hex /\ f[s].type = h[s].type /\ f[s].val = h[s].val
  BY <1>1 DEF Fields
<1>4. SetFormat(h, s, hex)[1] = f \/ SetFormat(h, s, hex)[1] = h
  BY DEF SetFormat
<1> HIDE DEF g, f
<1>5. Entry(g[s]) /\ Entry(f[s])
  BY <1>2, <1>3 DEF Entries, Entry
<1>6. Entries(g) /\ Entries(f)
  BY <1>2, <1>3, <1>5 DEF Entries
<1> QED
  BY <1>4, <1>6 DEF g

LEMMA CutEntries ==
  ASSUME NEW h, WellFormed(h), Entries(h), NEW p \in DOMAIN h, NEW s
  PROVE  Entries(Cut(h, p, s))
<1> DEFINE i == CHOOSE i \in DOMAIN h[p].kids : h[p].kids[i] = s
           e == [h[p] EXCEPT !.kids = RemoveAt(@, i)]
           D == DOMAIN h \ Below(h, s)
           g == [x \in D |-> IF x = p THEN e ELSE h[x]]
<1>1. e.name = h[p].name /\ e.hex = h[p].hex /\ e.type = h[p].type /\ e.val = h[p].val
  BY DEF WellFormed, Fields
<1>2. Cut(h, p, s) = g
  BY DEF Cut
<1> HIDE DEF e, D
<1>3. Entry(e)
  BY <1>1, SameEntry DEF Entries
<1>4. Entries(g)
  BY <1>3 DEF Entries, D
<1> QED
  BY <1>2, <1>4

LEMMA InitialEntries == Entries(InitialHeap)
<1>1. Entry(Blank("GROUP", Nil, Nil))
  BY BlankEntry
<1> QED
  BY <1>1 DEF InitialHeap, Entries

LEMMA NextEntries == TreeInv /\ Entries(heap) /\ [Next]_vars => Entries(heap')
<1> SUFFICES ASSUME TreeInv, Entries(heap), [Next]_vars PROVE Entries(heap')
  OBVIOUS
<1>1. WellFormed(heap) /\ auto \in BOOLEAN
  BY DEF TreeInv
<1>2. ASSUME NEW in \in Inputs
      PROVE  in[1] \in Types \ (Aggregates \cup {"NONE"}) /\ Holds(in[1], in[2])
  BY CallsAssumption DEF Holds
<1>3. ASSUME NEW p \in DOMAIN heap, NEW n \in Names \cup {Nil}, NEW t \in AddTypes, config_setting_add(p, n, t)
      PROVE  Entries(heap')
  <2>1. heap' = AddSetting(heap, p, n, t)[1]
    BY <1>3 DEF config_setting_add
  <2>2. \/ AddSetting(heap, p, n, t) = <<heap, Nil>>
        \/ \E m \in Names \cup {Nil} : AddSetting(heap, p, n, t) = Create(heap, p, m, t)
    BY DEF AddSetting
  <2>3. ASSUME NEW m \in Names \cup {Nil} PROVE Entries(Create(heap, p, m, t)[1])
    BY <1>1, CreateEntries
  <2> QED
    BY <2>1, <2>2, <2>3
<1>4. ASSUME NEW s \in DOMAIN heap, NEW in \in Inputs, config_setting_set(s, in[1], in[2])
      PROVE  Entries(heap')
  <2>1. heap' = SetScalar(heap, auto, s, in[1], in[2])[1]
    BY <1>4 DEF config_setting_set
  <2> QED
    BY <1>1, <1>2, <2>1, SetScalarEntries
<1>5. ASSUME NEW p \in DOMAIN heap, NEW i \in Int, NEW in \in Inputs,
             config_setting_set_elem(p, i, in[1], in[2])
      PROVE  Entries(heap')
  <2>1. heap' = SetElem(heap, auto, p, i, in[1], in[2])[1] /\ FreeIds(heap) # {} /\ i \in Int
    BY <1>5 DEF config_setting_set_elem
  <2> QED
    BY <1>1, <1>2, <2>1, SetElemEntries
<1>6. ASSUME NEW s \in DOMAIN heap, NEW hex \in BOOLEAN, config_setting_set_format(s, hex)
      PROVE  Entries(heap')
  <2>1. heap' = SetFormat(heap, s, hex)[1]
    BY <1>6 DEF config_setting_set_format
  <2> QED
    BY <1>1, <2>1, FlagEntries
<1>7. ASSUME NEW s \in DOMAIN heap, NEW k \in Hooks, config_setting_set_hook(s, k)
      PROVE  Entries(heap')
  <2>1. heap' = [heap EXCEPT ![s].hook = k] /\ TRUE \in BOOLEAN
    BY <1>7 DEF config_setting_set_hook
  <2> QED
    BY <1>1, <2>1, FlagEntries
<1>8. ASSUME NEW call, NEW p \in DOMAIN heap, NEW s, Prune(call, p, s) PROVE Entries(heap')
  <2>1. heap' = heap \/ heap' = Cut(heap, p, s)
    BY <1>8 DEF Prune
  <2> QED
    BY <1>1, <2>1, CutEntries
<1>9. ASSUME NEW p \in DOMAIN heap,
             \/ \E n \in Names : config_setting_remove(p, n)
             \/ \E i \in Int : config_setting_remove_elem(p, i)
      PROVE  Entries(heap')
  BY <1>8, <1>9 DEF config_setting_remove, config_setting_remove_elem
<1>10. ASSUME \/ \E flag \in BOOLEAN : config_set_auto_convert(flag)
              \/ config_set_destructor \/ UNCHANGED vars
       PROVE  Entries(heap')
  <2>1. heap' = heap
    BY <1>10 DEF config_set_auto_convert, config_set_destructor, vars
  <2> QED
    BY <2>1
<1>11. ASSUME config_destroy PROVE Entries(heap')
  BY <1>11, InitialEntries DEF config_destroy
<1> QED
  BY <1>3, <1>4, <1>5, <1>6, <1>7, <1>9, <1>10, <1>11 DEF Next

(* The fields of a setting keep their types; above all, an INT is always one  *)
(* that an int holds and an INT64 one that a long long holds, whatever the     *)
(* setters convert (libconfig.c:833-909, 1024-1177).                          *)
LEMMA TypesFollow == TreeInv /\ Entries(heap) => TypeOK
<1> SUFFICES ASSUME TreeInv, Entries(heap) PROVE TypeOK
  OBVIOUS
<1>1. WellFormed(heap) /\ DOMAIN heap \subseteq Ids
  BY DEF TreeInv, WellFormed
<1>2. ASSUME NEW s \in DOMAIN heap
      PROVE  /\ heap[s].type \in Types /\ heap[s].name \in Names \cup {Nil}
             /\ heap[s].parent \in Ids \cup {Nil} /\ heap[s].hook \in Hooks \cup {Nil}
             /\ heap[s].kids \in Seq(Ids) /\ heap[s].cap \in Nat /\ heap[s].hex \in BOOLEAN
             /\ heap[s].type = "INT" => Fits(IntBits, heap[s].val)
             /\ heap[s].type = "INT64" => Fits(LongBits, heap[s].val)
  <2>1. heap[s].name \in Names \cup {Nil} /\ Holds(heap[s].type, heap[s].val)
    BY DEF Entries, Entry
  <2>2. heap[s].hex \in BOOLEAN
    BY DEF Entries, Entry
  <2>3. heap[s].parent \in Ids \cup {Nil}
    <3>1. CASE s = Root
      BY <1>1, <3>1 DEF WellFormed
    <3>2. CASE s # Root
      BY <1>1, <3>2, HangsFromParent
    <3> QED
      BY <3>1, <3>2
  <2>4. heap[s].type \in Types /\ heap[s].kids \in Seq(DOMAIN heap)
    BY <1>1 DEF WellFormed
  <2>5. heap[s].kids \in Seq(Ids)
    BY <1>1, <2>4
  <2>6. heap[s].hook \in Hooks \cup {Nil} /\ heap[s].cap \in Nat
    BY DEF TreeInv, HooksApart, Room, HasRoom
  <2> QED
    BY <2>1, <2>2, <2>3, <2>4, <2>5, <2>6 DEF Holds
<1>3. {auto, destructor} \subseteq BOOLEAN
  BY DEF TreeInv
<1> QED
  BY <1>1, <1>2, <1>3 DEF TypeOK, TreeInv

-----------------------------------------------------------------------------
(* Paths *)

StepsIn(h) == [kind : {"name", "elem"}, name : {h[x].name : x \in DOMAIN h} \cup {Nil}, index : Int]

LEMMA FollowTyped ==
  ASSUME NEW h, WellFormed(h), NEW at \in DOMAIN h \cup {Nil}, NEW st \in StepsIn(h)
  PROVE  Follow(h, at, st) \in DOMAIN h \cup {Nil}
<1>1. st.kind \in {"name", "elem"} /\ st.index \in Int
  BY DEF StepsIn
<1>2. CASE at = Nil
  BY <1>2 DEF Follow
<1>3. CASE at # Nil /\ st.kind = "name"
  <2>1. Follow(h, at, st) = GetMember(h, at, st.name)
    BY <1>3 DEF Follow
  <2> QED
    BY <1>3, <2>1, GetMemberInList
<1>4. CASE at # Nil /\ st.kind = "elem"
  <2>1. Follow(h, at, st) = GetElem(h, at, st.index)
    BY <1>4 DEF Follow
  <2> QED
    BY <1>1, <1>4, <2>1, GetElemInList
<1> QED
  BY <1>1, <1>2, <1>3, <1>4

(* Where a path leads, step by step.                                       *)
Walk(h, s, path, at) ==
  /\ at \in [0 .. Len(path) -> DOMAIN h \cup {Nil}] /\ at[0] = s
  /\ \A n \in 1 .. Len(path) : at[n] = Follow(h, at[n - 1], path[n])
  /\ Lookup(h, s, path) = at[Len(path)]

LEMMA LookupWalks ==
  ASSUME NEW h, WellFormed(h), NEW s \in DOMAIN h, NEW path \in Seq(StepsIn(h))
  PROVE  \E at : Walk(h, s, path, at)
<1> DEFINE D == DOMAIN h \cup {Nil}
           k == Len(path)
           Go(x, n) == IF n \in 1 .. k THEN Follow(h, x, path[n]) ELSE s
           G == [x \in D |-> [n \in Nat \ {0} |-> Go(x, n)]]
           Step(g) == [n \in 0 .. Len(path) |-> IF n = 0 THEN s ELSE Follow(h, g[n - 1], path[n])]
           at == CHOOSE g : g = Step(g)
<1>1. k \in Nat /\ \A n \in 1 .. k : path[n] \in StepsIn(h)
  OBVIOUS
<1>2. ASSUME NEW x \in D, NEW n \in Nat \ {0} PROVE Go(x, n) \in D
  BY <1>1, FollowTyped
<1> HIDE DEF Go, D
<1>3. G \in [D -> [Nat \ {0} -> D]] /\ s \in D
  BY <1>2 DEF D
<1>4. PICK f \in [Nat -> D] : f = [n \in Nat |-> IF n = 0 THEN s ELSE G[f[n - 1]][n]]
  <2> HIDE DEF G
  <2>1. Recurs(D, s, G)
    BY <1>3, Recursion
  <2> QED
    BY <2>1 DEF Recurs
<1>5. f[0] = s /\ \A n \in 1 .. k : f[n] = Follow(h, f[n - 1], path[n])
  <2>1. ASSUME NEW n \in 1 .. k PROVE f[n] = Go(f[n - 1], n)
    <3>1. n \in Nat /\ n # 0 /\ n \in Nat \ {0} /\ n - 1 \in Nat /\ f[n - 1] \in D
      BY <1>1
    <3>2. f[n] = G[f[n - 1]][n]
      BY <1>4, <3>1
    <3> QED
      BY <3>1, <3>2
  <2> QED
    BY <1>4, <2>1 DEF Go
<1> DEFINE g == [n \in 0 .. k |-> f[n]]
<1>6. g = Step(g) /\ g \in [0 .. k -> D]
  BY <1>1, <1>5
<1> HIDE DEF g
<1>7. at = Step(at)
  <2>1. \E x : x = Step(x)
    BY <1>6
  <2> QED
    BY <2>1
<1>8. Lookup(h, s, path) = at[k]
  BY DEF Lookup
<1> HIDE DEF at
<1>9. at[0] = s /\ \A n \in 1 .. k : at[n] = Follow(h, at[n - 1], path[n])
  BY <1>1, <1>7
<1> DEFINE S == {n \in Nat : n <= k => at[n] = f[n]}
<1>10. \A n \in Nat : n \in S
  <2>1. 0 \in S
    BY <1>5, <1>9
  <2>2. ASSUME NEW n \in S PROVE n + 1 \in S
    <3>1. CASE n + 1 <= k
      <4>1. n + 1 \in 1 .. k /\ (n + 1) - 1 = n /\ at[n] = f[n]
        BY <3>1
      <4> QED
        BY <1>5, <1>9, <4>1
    <3> QED
      BY <3>1
  <2>3. S \in SUBSET Nat
    OBVIOUS
  <2> HIDE DEF S
  <2> QED
    BY <2>1, <2>2, <2>3, Induction
<1>11. \A n \in 0 .. k : at[n] = f[n]
  BY <1>1, <1>10
<1>12. at \in [0 .. k -> D]
  <2>1. at = [n \in 0 .. k |-> at[n]]
    BY <1>7
  <2>2. \A n \in 0 .. k : at[n] \in D
    BY <1>1, <1>11
  <2> QED
    BY <2>1, <2>2
<1>13. Walk(h, s, path, at)
  BY <1>8, <1>9, <1>12 DEF Walk, D
<1> QED
  BY <1>13

LEMMA LookupNothing ==
  ASSUME NEW h, WellFormed(h), NEW s \in DOMAIN h
  PROVE  Lookup(h, s, <<>>) = s
<1>1. <<>> \in Seq(StepsIn(h)) /\ Len(<<>>) = 0
  OBVIOUS
<1>2. PICK at : Walk(h, s, <<>>, at)
  BY <1>1, LookupWalks
<1> QED
  BY <1>1, <1>2 DEF Walk

LEMMA LookupStep ==
  ASSUME NEW h, WellFormed(h), NEW s \in DOMAIN h, NEW path \in Seq(StepsIn(h)), NEW st \in StepsIn(h)
  PROVE  Lookup(h, s, Append(path, st)) = Follow(h, Lookup(h, s, path), st)
<1> DEFINE longer == Append(path, st)
           k == Len(path)
<1>1. /\ longer \in Seq(StepsIn(h)) /\ Len(longer) = k + 1 /\ k \in Nat /\ longer[k + 1] = st
      /\ \A n \in 1 .. k : longer[n] = path[n]
  OBVIOUS
<1> HIDE DEF longer
<1>2. PICK at : Walk(h, s, path, at)
  BY LookupWalks
<1>3. PICK bt : Walk(h, s, longer, bt)
  BY <1>1, LookupWalks
<1>4. /\ at[0] = s /\ bt[0] = s /\ Lookup(h, s, path) = at[k] /\ Lookup(h, s, longer) = bt[k + 1]
      /\ \A n \in 1 .. k : at[n] = Follow(h, at[n - 1], path[n])
      /\ \A n \in 1 .. k + 1 : bt[n] = Follow(h, bt[n - 1], longer[n])
  BY <1>1, <1>2, <1>3 DEF Walk
<1> DEFINE S == {n \in Nat : n <= k => at[n] = bt[n]}
<1>5. \A n \in Nat : n \in S
  <2>1. 0 \in S
    BY <1>4
  <2>2. ASSUME NEW n \in S PROVE n + 1 \in S
    <3>1. CASE n + 1 <= k
      <4>1. n + 1 \in 1 .. k /\ n + 1 \in 1 .. k + 1 /\ (n + 1) - 1 = n /\ at[n] = bt[n]
        BY <1>1, <3>1
      <4>2. at[n + 1] = Follow(h, at[n], path[n + 1]) /\ bt[n + 1] = Follow(h, bt[n], longer[n + 1])
        BY <1>4, <4>1
      <4>3. at[n + 1] = bt[n + 1]
        BY <1>1, <4>1, <4>2
      <4> QED
        BY <4>3
    <3> QED
      BY <3>1
  <2>3. S \in SUBSET Nat
    OBVIOUS
  <2> HIDE DEF S
  <2> QED
    BY <2>1, <2>2, <2>3, Induction
<1>6. at[k] = bt[k]
  BY <1>1, <1>5
<1>7. bt[k + 1] = Follow(h, bt[k], st)
  <2>1. k + 1 \in 1 .. k + 1 /\ (k + 1) - 1 = k
    BY <1>1
  <2> QED
    BY <1>1, <1>4, <2>1
<1> QED
  BY <1>4, <1>6, <1>7 DEF longer

LEMMA StepIsStep ==
  ASSUME TreeInv, NamesTell(heap), NEW s \in DOMAIN heap \ {Root}
  PROVE  StepTo(s) \in StepsIn(heap)
<1>1. WellFormed(heap) /\ heap[s].parent \in DOMAIN heap
  BY HangsFromParent DEF TreeInv
<1>2. GetElem(heap, heap[s].parent, SettingIndex(heap, s)) = s /\ s # Nil
  <2>1. s # Nil
    BY <1>1, IdsAssumption DEF WellFormed
  <2> QED
    BY <2>1, NamesLead
<1>3. SettingIndex(heap, s) \in Int
  <2>1. Length(heap, heap[s].parent) - 1 \in Int
    BY <1>1 DEF Length, WellFormed
  <2> QED
    BY <1>2, <2>1 DEF GetElem
<1>4. /\ [kind |-> "name", name |-> heap[s].name, index |-> 0] \in StepsIn(heap)
      /\ [kind |-> "elem", name |-> Nil, index |-> SettingIndex(heap, s)] \in StepsIn(heap)
  BY <1>3 DEF StepsIn
<1> QED
  BY <1>4 DEF StepTo

(* The pairs of a setting and a path to it: the least set that the root and  *)
(* a step downwards build.                                                   *)
Paths == Seq(StepsIn(heap))
PathSets == (DOMAIN heap) \X Paths
Leads(R) ==
  /\ <<Root, <<>>>> \in R
  /\ \A x \in DOMAIN heap \ {Root}, p \in Seq(StepsIn(heap)) :
       <<heap[x].parent, p>> \in R => <<x, Append(p, StepTo(x))>> \in R
Routes == {a \in PathSets : \A R \in SUBSET PathSets : Leads(R) => a \in R}
OneRoute(x, p) == p \in Seq(StepsIn(heap)) /\ \A q : <<x, q>> \in Routes <=> q = p

LEMMA RoutesLead ==
  ASSUME TreeInv, NamesTell(heap)
  PROVE  Leads(Routes)
<1>1. <<Root, <<>>>> \in PathSets
  <2>1. Root \in DOMAIN heap
    BY DEF TreeInv, WellFormed
  <2>2. <<>> \in Paths
    BY DEF Paths
  <2> QED
    BY <2>1, <2>2 DEF PathSets
<1>2. ASSUME NEW x \in DOMAIN heap \ {Root}, NEW p \in Seq(StepsIn(heap)), <<heap[x].parent, p>> \in Routes
      PROVE  <<x, Append(p, StepTo(x))>> \in Routes
  <2>1. Append(p, StepTo(x)) \in Paths
    BY StepIsStep DEF Paths
  <2>2. <<x, Append(p, StepTo(x))>> \in PathSets
    <3>1. x \in DOMAIN heap
      OBVIOUS
    <3> QED
      BY <2>1, <3>1 DEF PathSets
  <2>3. ASSUME NEW R \in SUBSET PathSets, Leads(R) PROVE <<x, Append(p, StepTo(x))>> \in R
    <3>1. <<heap[x].parent, p>> \in R
      BY <1>2, <2>3 DEF Routes
    <3> QED
      BY <2>3, <3>1 DEF Leads
  <2> QED
    BY <2>2, <2>3 DEF Routes
<1>3. <<Root, <<>>>> \in Routes
  BY <1>1 DEF Routes, Leads
<1> QED
  BY <1>2, <1>3 DEF Leads

(* The only way to a setting that has been reached from r is by its last step. *)
LEMMA LastStep ==
  ASSUME TreeInv, NamesTell(heap), NEW x, NEW q, <<x, q>> \in Routes
  PROVE  \/ x = Root /\ q = <<>>
         \/ x # Root /\ \E p \in Seq(StepsIn(heap)) :
              <<heap[x].parent, p>> \in Routes /\ q = Append(p, StepTo(x))
<1> DEFINE Good(a) == \/ a = <<Root, <<>>>>
                      \/ \E y \in DOMAIN heap \ {Root}, p \in Seq(StepsIn(heap)) :
                           <<heap[y].parent, p>> \in Routes /\ a = <<y, Append(p, StepTo(y))>>
           R == {a \in Routes : Good(a)}
<1>1. R \in SUBSET PathSets
  BY DEF Routes
<1>2. Leads(R)
  <2>1. <<Root, <<>>>> \in R
    BY RoutesLead DEF Leads
  <2>2. ASSUME NEW y \in DOMAIN heap \ {Root}, NEW p \in Seq(StepsIn(heap)), <<heap[y].parent, p>> \in R
        PROVE  <<y, Append(p, StepTo(y))>> \in R
    <3>1. <<heap[y].parent, p>> \in Routes
      BY <2>2
    <3>2. <<y, Append(p, StepTo(y))>> \in Routes
      BY <3>1, RoutesLead DEF Leads
    <3> QED
      BY <3>1, <3>2
  <2> HIDE DEF R
  <2> QED
    BY <2>1, <2>2 DEF Leads
<1>3. <<x, q>> \in R
  <2> HIDE DEF R
  <2> QED
    BY <1>1, <1>2 DEF Routes
<1>4. Good(<<x, q>>)
  BY <1>3
<1>5. CASE <<x, q>> = <<Root, <<>>>>
  BY <1>5
<1>6. CASE \E y \in DOMAIN heap \ {Root}, p \in Seq(StepsIn(heap)) :
             <<heap[y].parent, p>> \in Routes /\ <<x, q>> = <<y, Append(p, StepTo(y))>>
  <2>1. PICK y \in DOMAIN heap \ {Root}, p \in Seq(StepsIn(heap)) :
          <<heap[y].parent, p>> \in Routes /\ <<x, q>> = <<y, Append(p, StepTo(y))>>
    BY <1>6
  <2>2. x = y /\ q = Append(p, StepTo(y))
    BY <2>1
  <2> QED
    BY <2>1, <2>2
<1> QED
  BY <1>4, <1>5, <1>6

LEMMA EachHasARoute ==
  ASSUME TreeInv, NamesTell(heap), NEW s \in DOMAIN heap
  PROVE  \E p : OneRoute(s, p)
<1> DEFINE S == {x \in DOMAIN heap : \E p : OneRoute(x, p)}
<1>1. WellFormed(heap)
  BY DEF TreeInv
<1>2. Root \in S
  <2>1. \A q : <<Root, q>> \in Routes <=> q = <<>>
    BY LastStep, RoutesLead DEF Leads
  <2>2. OneRoute(Root, <<>>)
    BY <2>1 DEF OneRoute
  <2> QED
    BY <1>1, <2>2 DEF WellFormed
<1>3. ASSUME NEW x \in S, NEW y \in ToSet(heap[x].kids) PROVE y \in S
  <2>1. PICK p : OneRoute(x, p)
    OBVIOUS
  <2>2. x \in DOMAIN heap /\ y \in DOMAIN heap /\ heap[y].parent = x
    BY <1>1, KidsAreSettings DEF WellFormed, ToSet
  <2>3. y # Root
    BY <1>1, <2>2, IdsAssumption DEF WellFormed
  <2>4. p \in Seq(StepsIn(heap)) /\ \A q : <<x, q>> \in Routes <=> q = p
    BY <2>1 DEF OneRoute
  <2>5. <<y, Append(p, StepTo(y))>> \in Routes
    BY <2>2, <2>3, <2>4, RoutesLead DEF Leads
  <2>6. ASSUME NEW q, <<y, q>> \in Routes PROVE q = Append(p, StepTo(y))
    BY <2>2, <2>3, <2>4, <2>6, LastStep
  <2>7. Append(p, StepTo(y)) \in Seq(StepsIn(heap))
    BY <2>2, <2>3, <2>4, StepIsStep
  <2>8. OneRoute(y, Append(p, StepTo(y)))
    BY <2>5, <2>6, <2>7 DEF OneRoute
  <2> QED
    BY <2>2, <2>8
<1>4. Closed(heap, S)
  BY <1>3 DEF Closed
<1>5. s \in S
  <2>1. S \in SUBSET DOMAIN heap
    OBVIOUS
  <2> HIDE DEF S
  <2>2. s \in Below(heap, Root)
    BY <1>1 DEF WellFormed
  <2> QED
    BY <1>2, <1>4, <2>1, <2>2 DEF Below
<1> QED
  BY <1>5

LEMMA PathsExist ==
  ASSUME TreeInv, NamesTell(heap)
  PROVE  /\ PathTo[Root] = <<>>
         /\ \A s \in DOMAIN heap : PathTo[s] \in Seq(StepsIn(heap))
         /\ \A s \in DOMAIN heap \ {Root} : PathTo[s] = Append(PathTo[heap[s].parent], StepTo(s))
<1> DEFINE Step(g) == [s \in DOMAIN heap |-> IF s = Root THEN <<>> ELSE Append(g[heap[s].parent], StepTo(s))]
           f == [s \in DOMAIN heap |-> CHOOSE p : OneRoute(s, p)]
<1>1. WellFormed(heap) /\ Root \in DOMAIN heap
  BY DEF TreeInv, WellFormed
<1>2. \A s \in DOMAIN heap : OneRoute(s, f[s])
  BY EachHasARoute
<1> HIDE DEF f
<1>3. f[Root] = <<>>
  BY <1>1, <1>2, RoutesLead DEF OneRoute, Leads
<1>4. ASSUME NEW s \in DOMAIN heap \ {Root} PROVE f[s] = Append(f[heap[s].parent], StepTo(s))
  <2>1. heap[s].parent \in DOMAIN heap
    BY <1>1, HangsFromParent
  <2>2. f[heap[s].parent] \in Seq(StepsIn(heap)) /\ <<heap[s].parent, f[heap[s].parent]>> \in Routes
    BY <1>2, <2>1 DEF OneRoute
  <2>3. <<s, Append(f[heap[s].parent], StepTo(s))>> \in Routes
    BY <2>2, RoutesLead DEF Leads
  <2> QED
    BY <1>2, <2>3 DEF OneRoute
<1>5. f = Step(f)
  <2>1. f = [s \in DOMAIN heap |-> f[s]]
    BY DEF f
  <2> QED
    BY <1>3, <1>4, <2>1
<1>6. PathTo = Step(PathTo)
  <2>1. PathTo = CHOOSE g : g = Step(g)
    BY DEF PathTo
  <2>2. \E g : g = Step(g)
    BY <1>5
  <2> QED
    BY <2>1, <2>2
<1> DEFINE S == {x \in DOMAIN heap : PathTo[x] \in Seq(StepsIn(heap))}
<1>7. PathTo[Root] = <<>> /\ Root \in S
  <2>1. PathTo[Root] = <<>>
    BY <1>1, <1>6
  <2>2. <<>> \in Seq(StepsIn(heap))
    OBVIOUS
  <2>3. PathTo[Root] \in Seq(StepsIn(heap))
    BY <2>1, <2>2
  <2> QED
    BY <1>1, <2>1, <2>3
<1>8. \A s \in DOMAIN heap \ {Root} : PathTo[s] = Append(PathTo[heap[s].parent], StepTo(s))
  BY <1>6
<1>9. Closed(heap, S)
  <2> SUFFICES ASSUME NEW x \in S, NEW y \in ToSet(heap[x].kids) PROVE y \in S
    BY DEF Closed
  <2>1. y \in DOMAIN heap /\ heap[y].parent = x
    BY <1>1, KidsAreSettings DEF WellFormed, ToSet
  <2>2. CASE y = Root
    BY <1>7, <2>2
  <2>3. CASE y # Root
    <3>1. PathTo[y] = Append(PathTo[x], StepTo(y)) /\ StepTo(y) \in StepsIn(heap)
      BY <1>8, <2>1, <2>3, StepIsStep
    <3>2. PathTo[x] \in Seq(StepsIn(heap))
      OBVIOUS
    <3>3. PathTo[y] \in Seq(StepsIn(heap))
      BY <3>1, <3>2
    <3> QED
      BY <2>1, <3>3
  <2> QED
    BY <2>2, <2>3
<1>10. \A s \in DOMAIN heap : s \in S
  <2>1. S \in SUBSET DOMAIN heap
    OBVIOUS
  <2> HIDE DEF S
  <2> QED
    BY <1>1, <1>7, <1>9, <2>1 DEF WellFormed, Below
<1> QED
  BY <1>7, <1>8, <1>10

LEMMA PathsLead ==
  ASSUME TreeInv, NamesTell(heap)
  PROVE  EverySettingHasItsPath
<1> DEFINE S == {x \in DOMAIN heap : Lookup(heap, Root, PathTo[x]) = x}
<1>1. WellFormed(heap) /\ Root \in DOMAIN heap
  BY DEF TreeInv, WellFormed
<1>2. Root \in S
  BY <1>1, LookupNothing, PathsExist
<1>3. ASSUME NEW x \in S, NEW y \in ToSet(heap[x].kids) PROVE y \in S
  <2>1. x \in DOMAIN heap /\ y \in DOMAIN heap /\ heap[y].parent = x /\ Lookup(heap, Root, PathTo[x]) = x
    BY <1>1, KidsAreSettings DEF WellFormed, ToSet
  <2>2. y # Root /\ x # Nil
    BY <1>1, <2>1, IdsAssumption DEF WellFormed
  <2>3. /\ PathTo[y] = Append(PathTo[x], StepTo(y)) /\ PathTo[x] \in Seq(StepsIn(heap))
        /\ StepTo(y) \in StepsIn(heap)
    BY <2>1, <2>2, PathsExist, StepIsStep
  <2>4. Lookup(heap, Root, PathTo[y]) = Follow(heap, x, StepTo(y))
    BY <1>1, <2>1, <2>3, LookupStep
  <2>5. /\ GetElem(heap, x, SettingIndex(heap, y)) = y
        /\ HasName(y) => heap[x].type = "GROUP" /\ GetMember(heap, x, heap[y].name) = y
    BY <2>1, <2>2, NamesLead DEF HasName
  <2>6. CASE HasName(y)
    <3>1. StepTo(y) = [kind |-> "name", name |-> heap[y].name, index |-> 0]
      BY <2>1, <2>6 DEF StepTo
    <3>2. Follow(heap, x, StepTo(y)) = GetMember(heap, x, heap[y].name)
      BY <2>2, <3>1 DEF Follow
    <3> QED
      BY <2>1, <2>4, <2>5, <2>6, <3>2
  <2>7. CASE ~HasName(y)
    <3>1. StepTo(y) = [kind |-> "elem", name |-> Nil, index |-> SettingIndex(heap, y)]
      BY <2>1, <2>7 DEF StepTo
    <3>2. Follow(heap, x, StepTo(y)) = GetElem(heap, x, SettingIndex(heap, y))
      BY <2>2, <3>1 DEF Follow
    <3> QED
      BY <2>1, <2>4, <2>5, <3>2
  <2> QED
    BY <2>6, <2>7
<1>4. Closed(heap, S)
  BY <1>3 DEF Closed
<1>5. \A s \in DOMAIN heap : s \in S
  <2>1. S \in SUBSET DOMAIN heap
    OBVIOUS
  <2> HIDE DEF S
  <2> QED
    BY <1>1, <1>2, <1>4, <2>1 DEF WellFormed, Below
<1> QED
  BY <1>5 DEF EverySettingHasItsPath

-----------------------------------------------------------------------------
(* What the getters answer after a setter. *)

(* Out of reach of the int, a double becomes 0 or the least int.            *)
LEMMA TruncateDoubled ==
  ASSUME NEW bits \in Nat \ {0}, NEW n \in Int
  PROVE  Truncate(bits, 2 * n) = IF Fits(bits, n) THEN n ELSE -Pow2[bits - 1]
<1> DEFINE q == AbsOf(2 * n) \div 2
           w == IF 2 * n < 0 THEN -q ELSE q
<1>1. AbsOf(2 * n) = 2 * AbsOf(n) /\ AbsOf(n) \in Nat
  BY DEF AbsOf
<1>2. q = AbsOf(n)
  BY <1>1
<1> HIDE DEF q
<1>3. w = n
  BY <1>2 DEF AbsOf
<1>4. Truncate(bits, 2 * n) = IF Fits(bits, w) THEN w ELSE -Pow2[bits - 1]
  BY DEF Truncate, q
<1> QED
  BY <1>3, <1>4

(* A getter answers x if it succeeds.                                       *)
Gives(a, x) == a[1] => a[2] = x

LEMMA EitherGives ==
  ASSUME NEW a, NEW x, a = <<TRUE, x>> \/ a = <<FALSE, 0>>
  PROVE  Gives(a, x)
<1>1. CASE a = <<TRUE, x>>
  <2>1. a[2] = x
    BY <1>1
  <2> QED
    BY <2>1 DEF Gives
<1>2. CASE a = <<FALSE, 0>>
  <2>1. a[1] = FALSE
    BY <1>2
  <2> QED
    BY <2>1 DEF Gives
<1> QED
  BY <1>1, <1>2

LEMMA Answers ==
  ASSUME NEW h, NEW s, NEW au, NEW w, h[s].type = "FLOAT", h[s].val = w
  PROVE  /\ Gives(GetInt(h, au, s), Truncate(IntBits, w))
         /\ Gives(GetInt64(h, au, s), Truncate(LongBits, w))
<1>1. /\ GetInt(h, au, s) = <<TRUE, Truncate(IntBits, w)>> \/ GetInt(h, au, s) = <<FALSE, 0>>
      /\ GetInt64(h, au, s) = <<TRUE, Truncate(LongBits, w)>> \/ GetInt64(h, au, s) = <<FALSE, 0>>
  BY DEF GetInt, GetInt64
<1> QED
  BY <1>1, EitherGives

LEMMA Doubled == ASSUME NEW w \in Int PROVE (2 * w) \div 2 = w
<1> QED
  OBVIOUS

(* TellsNumber of an integer setting that keeps w, by what the getters give.  *)
LEMMA IntegerTells ==
  ASSUME NEW h, NEW s, NEW au, NEW v \in Int, NEW w \in Int, h[s].type \in {"INT", "INT64"},
         Fits(LongBits, w), h[s].val = w,
         w = IF h[s].type = "INT" /\ ~Fits(IntBits, v) THEN 0 ELSE v
  PROVE  TellsNumber(h, au, s, v)
<1> DEFINE int == GetInt(h, au, s)
           long == GetInt64(h, au, s)
           float == GetFloat(h, au, s)
<1>1. int = <<TRUE, Narrow(w)>> /\ long = <<TRUE, w>>
  BY DEF GetInt, GetInt64
<1>2. PICK x \in Int : ToFloat(DoubleBits, w) = 2 * x /\ Near(DoubleBits, w, x)
  BY ToFloatNear, Widths
<1>3. float[1] => float[2] = 2 * x
  BY <1>2 DEF GetFloat
<1>4. float[1] => float[2] = 2 * (float[2] \div 2) /\ Near(DoubleBits, w, float[2] \div 2)
  BY <1>2, <1>3, Doubled
<1>5. int[1] /\ long[1] /\ long[2] = w /\ int[2] = Narrow(w)
  BY <1>1
<1>6. Narrow(w) = IF Fits(IntBits, w) THEN w ELSE 0
  BY DEF Narrow
<1> HIDE DEF int, long, float
<1>7. /\ h[s].type # "FLOAT"
      /\ long[1] => long[2] = IF Fits(LongBits, w) THEN w ELSE -Pow2[LongBits - 1]
      /\ int[1] => int[2] = IF Fits(IntBits, w) THEN w ELSE 0
  BY <1>5, <1>6
<1> QED
  BY <1>4, <1>5, <1>7 DEF TellsNumber, int, long, float

LEMMA IntTells ==
  ASSUME NEW h, NEW s, NEW au, NEW v \in Int, h[s].type = "INT", h[s].val = Narrow(v)
  PROVE  TellsNumber(h, au, s, v)
<1>1. Narrow(v) = (IF ~Fits(IntBits, v) THEN 0 ELSE v) /\ Narrow(v) \in Int
  BY DEF Narrow
<1>2. Fits(LongBits, Narrow(v))
  BY <1>1, NarrowFits, IntInLong
<1> QED
  BY <1>1, <1>2, IntegerTells

LEMMA Int64Tells ==
  ASSUME NEW h, NEW s, NEW au, NEW v \in Int, Fits(LongBits, v), h[s].type = "INT64", h[s].val = v
  PROVE  TellsNumber(h, au, s, v)
<1> QED
  BY IntegerTells

LEMMA FloatTells ==
  ASSUME NEW h, NEW s, NEW au, NEW v \in Int, Fits(LongBits, v),
         h[s].type = "FLOAT", h[s].val = ToFloat(FloatBits, v)
  PROVE  TellsNumber(h, au, s, v)
<1> DEFINE int == GetInt(h, au, s)
           long == GetInt64(h, au, s)
           float == GetFloat(h, au, s)
<1>1. PICK w \in Int : ToFloat(FloatBits, v) = 2 * w /\ Near(FloatBits, v, w)
  BY ToFloatNear, Widths
<1>2. float = <<TRUE, 2 * w>>
  BY <1>1 DEF GetFloat
<1>3. float[1] /\ float[2] = 2 * w /\ float[2] \div 2 = w
  BY <1>2, Doubled
<1>4. Gives(int, Truncate(IntBits, 2 * w)) /\ Gives(long, Truncate(LongBits, 2 * w))
  BY <1>1, Answers
<1>5. /\ Truncate(IntBits, 2 * w) = IF Fits(IntBits, w) THEN w ELSE -Pow2[IntBits - 1]
      /\ Truncate(LongBits, 2 * w) = IF Fits(LongBits, w) THEN w ELSE -Pow2[LongBits - 1]
  BY TruncateDoubled, Widths
<1> HIDE DEF int, long, float
<1>6. /\ long[1] => long[2] = IF Fits(LongBits, w) THEN w ELSE -Pow2[LongBits - 1]
      /\ int[1] => int[2] = IF Fits(IntBits, w) THEN w ELSE -Pow2[IntBits - 1]
  BY <1>4, <1>5 DEF Gives
<1> QED
  BY <1>1, <1>3, <1>6 DEF TellsNumber, int, long, float

LEMMA SetterTells ==
  ASSUME NEW h, WellFormed(h), NEW au \in BOOLEAN, NEW s \in DOMAIN h, NEW kind \in {"INT", "INT64"},
         NEW v \in Int, Holds(kind, v), Fits(LongBits, v), SetScalar(h, au, s, kind, v)[2]
  PROVE  TellsNumber(SetScalar(h, au, s, kind, v)[1], au, s, v)
<1> DEFINE t == IF h[s].type = "NONE" THEN kind ELSE h[s].type
           g == [h EXCEPT ![s].type = t, ![s].val = Stored(kind, t, v)]
<1>1. t \in Settable(kind, au) /\ SetScalar(h, au, s, kind, v)[1] = g
  BY DEF SetScalar
<1>2. t \in {"INT", "INT64", "FLOAT"} /\ (t = "INT64" => kind = "INT64")
  BY <1>1 DEF Settable
<1> HIDE DEF t
<1>3. g[s].type = t /\ g[s].val = Stored(kind, t, v)
  BY DEF WellFormed, Fields
<1> HIDE DEF g
<1>4. CASE t = "INT"
  <2>1. Stored(kind, t, v) = Narrow(v)
    BY <1>4 DEF Stored, Narrow, Holds
  <2> QED
    BY <1>1, <1>3, <1>4, <2>1, IntTells
<1>5. CASE t = "INT64"
  <2>1. Stored(kind, t, v) = v
    BY <1>2, <1>5 DEF Stored
  <2> QED
    BY <1>1, <1>3, <1>5, <2>1, Int64Tells
<1>6. CASE t = "FLOAT"
  <2>1. Stored(kind, t, v) = ToFloat(FloatBits, v)
    BY <1>6 DEF Stored
  <2> QED
    BY <1>1, <1>3, <1>6, <2>1, FloatTells
<1> QED
  BY <1>2, <1>4, <1>5, <1>6

(* Whichever way leads to a setting, the getter reads that setting.         *)
LEMMA EveryWayLeads ==
  ASSUME TreeInv, NamesTell(heap), NEW s \in DOMAIN heap \ {Root}
  PROVE  RoutesAgree(s)
<1> DEFINE up == heap[s].parent
<1>1. s # Nil /\ Lookup(heap, Root, PathTo[s]) = s
  <2>1. s # Nil
    BY IdsAssumption DEF TreeInv, WellFormed
  <2> QED
    BY <2>1, PathsLead DEF EverySettingHasItsPath
<1>2. /\ GetElem(heap, up, SettingIndex(heap, s)) = s
      /\ HasName(s) => GetMember(heap, up, heap[s].name) = s
  BY NamesLead
<1>3. ASSUME NEW kind
      PROVE  /\ LookupPath(heap, auto, kind, PathTo[s]) = Get(heap, auto, kind, s)
             /\ GetElemValue(heap, auto, kind, up, SettingIndex(heap, s)) = Get(heap, auto, kind, s)[2]
             /\ HasName(s) =>
                  LookupMember(heap, auto, kind, up, heap[s].name) = Get(heap, auto, kind, s)
  BY <1>1, <1>2 DEF LookupPath, GetElemValue, LookupMember
<1> QED
  BY <1>3 DEF RoutesAgree

(* After a setter that accepted a number, its setting tells it.             *)
NumberTold ==
  last.call \in {"INT", "INT64"} /\ last.ok =>
    last.on \in DOMAIN heap \ {Root} /\ TellsNumber(heap, auto, last.on, last.value)

LEMMA SetterStep ==
  ASSUME TreeInv, NEW s \in DOMAIN heap, NEW in \in Inputs, config_setting_set(s, in[1], in[2])
  PROVE  NumberTold'
<1> SUFFICES ASSUME last'.call \in {"INT", "INT64"}, last'.ok
             PROVE  /\ last'.on \in DOMAIN heap' \ {Root}
                    /\ TellsNumber(heap', auto', last'.on, last'.value)
  BY DEF NumberTold
<1> DEFINE res == SetScalar(heap, auto, s, in[1], in[2])
<1>1. /\ heap' = res[1] /\ auto' = auto
      /\ last'.call = in[1] /\ last'.on = s /\ last'.value = in[2] /\ last'.ok = res[2]
  BY DEF config_setting_set
<1>2. WellFormed(heap) /\ auto \in BOOLEAN
  BY DEF TreeInv
<1>3. in[1] \in {"INT", "INT64"} /\ in[2] \in Int /\ Holds(in[1], in[2])
  BY <1>1, CallsAssumption DEF Holds
<1>4. Fits(LongBits, in[2])
  BY <1>3, IntInLong DEF Holds
<1>5. TellsNumber(res[1], auto, s, in[2])
  BY <1>1, <1>2, <1>3, <1>4, SetterTells
<1>6. s \in DOMAIN res[1] /\ s # Root
  <2>1. in[1] \in Types \ (Aggregates \cup {"NONE"})
    BY <1>3 DEF Types, Aggregates, Vectors
  <2>2. SameTree(heap, res[1])
    BY <1>2, <2>1, SetScalarTree
  <2>3. heap[s].type # "GROUP"
    <3> SUFFICES ASSUME heap[s].type = "GROUP" PROVE FALSE
      OBVIOUS
    <3>1. "GROUP" \notin Settable(in[1], auto)
      BY <1>3 DEF Settable
    <3>2. res[2] = FALSE
      BY <3>1 DEF SetScalar
    <3> QED
      BY <1>1, <3>2
  <2> QED
    BY <1>2, <2>2, <2>3 DEF SameTree, WellFormed
<1> HIDE DEF res
<1> QED
  BY <1>1, <1>5, <1>6

LEMMA NextTold == TreeInv /\ NumberTold /\ [Next]_vars => NumberTold'
<1> SUFFICES ASSUME TreeInv, NumberTold, [Next]_vars PROVE NumberTold'
  OBVIOUS
<1>1. CASE \E s \in DOMAIN heap, in \in Inputs : config_setting_set(s, in[1], in[2])
  BY <1>1, SetterStep
<1>2. CASE UNCHANGED vars
  BY <1>2 DEF vars, NumberTold
<1> DEFINE Other == last'.call \notin {"INT", "INT64"}
<1>3. ASSUME NEW p, NEW n, NEW t, config_setting_add(p, n, t) PROVE Other
  BY <1>3 DEF config_setting_add, Called
<1>4. ASSUME NEW p, NEW i, NEW kind, NEW v, config_setting_set_elem(p, i, kind, v) PROVE Other
  BY <1>4 DEF config_setting_set_elem, Called
<1>5. ASSUME NEW s, NEW hex, config_setting_set_format(s, hex) PROVE Other
  BY <1>5 DEF config_setting_set_format, Called
<1>6. ASSUME NEW s, NEW k, config_setting_set_hook(s, k) PROVE Other
  BY <1>6 DEF config_setting_set_hook, Called
<1>7. ASSUME NEW p, NEW n, config_setting_remove(p, n) PROVE Other
  BY <1>7 DEF config_setting_remove, Prune, Called
<1>8. ASSUME NEW p, NEW i, config_setting_remove_elem(p, i) PROVE Other
  BY <1>8 DEF config_setting_remove_elem, Prune, Called
<1>9. ASSUME NEW flag, config_set_auto_convert(flag) PROVE Other
  BY <1>9 DEF config_set_auto_convert, Called
<1>10. ASSUME config_set_destructor \/ config_destroy PROVE Other
  BY <1>10 DEF config_set_destructor, config_destroy, Called
<1>11. Other => NumberTold'
  BY DEF NumberTold
<1> HIDE DEF Other
<1> QED
  BY <1>1, <1>2, <1>3, <1>4, <1>5, <1>6, <1>7, <1>8, <1>9, <1>10, <1>11 DEF Next

LEMMA NothingTruncated ==
  ASSUME TreeInv, NamesTell(heap), NumberTold
  PROVE  NoSilentTruncation
<1> SUFFICES ASSUME last.call \in {"INT", "INT64"}, last.ok
             PROVE  RoutesAgree(last.on) /\ TellsNumber(heap, auto, last.on, last.value)
  BY DEF NoSilentTruncation
<1>1. last.on \in DOMAIN heap \ {Root} /\ TellsNumber(heap, auto, last.on, last.value)
  BY DEF NumberTold
<1>2. RoutesAgree(last.on)
  <2> PICK s \in DOMAIN heap \ {Root} : s = last.on
    BY <1>1
  <2>1. RoutesAgree(s)
    BY EveryWayLeads
  <2> QED
    BY <2>1
<1> QED
  BY <1>1, <1>2

WholeInv == TreeInv /\ NamesTell(heap) /\ Entries(heap) /\ NumberTold

LEMMA WholeInvariant == Spec => []WholeInv
<1>1. Init => WholeInv
  BY InitTree, InitialNames, InitialEntries DEF Init, WholeInv, NumberTold
<1>2. WholeInv /\ [Next]_vars => WholeInv'
  BY NextTree, NextNames, NextEntries, NextTold DEF WholeInv
<1> QED
  BY <1>1, <1>2, PTL DEF Spec

(* The tree stays whole, whatever is called in which order: the settings keep *)
(* their types, an INT one that an int holds; they are one tree, their lists   *)
(* fit, and names, indices and paths lead to each (libconfig.c:401-508,        *)
(* 802-1177, 1189-1218, 1505-1663).                                           *)
THEOREM TreeStaysIntact == Spec => []TreeIntact
<1>1. WholeInv => TypeOK
  BY TypesFollow DEF WholeInv
<1>2. WholeInv => TreeShape /\ ListsWithinMemory
  BY DEF WholeInv, TreeInv, TreeShape, ListsWithinMemory, WellFormed, Room, HasRoom
<1>3. WholeInv => FoundFromParent
  BY NamesLead DEF WholeInv, FoundFromParent
<1>4. WholeInv => EverySettingHasItsPath
  BY PathsLead DEF WholeInv
<1>5. WholeInv => TreeIntact
  BY <1>1, <1>2, <1>3, <1>4 DEF TreeIntact
<1> QED
  BY <1>5, WholeInvariant, PTL

(* A number that a setter accepted is told alike on every way to its setting, *)
(* and by every getter that succeeds: exactly, as 0 where an int cannot hold  *)
(* it, or rounded to the nearest float or double.  Of a float that an integer *)
(* type cannot hold, whose conversion C leaves undefined, that type's getter  *)
(* answers its least number (libconfig.c:833-1120, 1226-1471).                *)
THEOREM NumbersSurvive == Spec => []NoSilentTruncation
<1>1. WholeInv => NoSilentTruncation
  BY NothingTruncated DEF WholeInv
<1> QED
  BY <1>1, WholeInvariant, PTL

=============================================================================
