----------------------------- MODULE ConfigHeap -----------------------------
(***************************************************************************)
(* The setting tree of libconfig (linux/linux_libconfig/libconfig.c): one  *)
(* operator per library call, from a heap of settings to a heap of         *)
(* settings.  A heap maps the addresses in use to settings.  Calls that    *)
(* change it answer a pair <<heap, result>>.                               *)
(*                                                                         *)
(* Every value is an integer: a string is the number that stands for it, a *)
(* double the number of its halves.  Integers keep two widths, IntBits and *)
(* LongBits; FloatBits and DoubleBits are the mantissas of the C types.    *)
(***************************************************************************)
EXTENDS Integers, Sequences, SequencesExt, FiniteSets

CONSTANTS Ids,        \* addresses of settings
          Nil,        \* the null pointer and the missing name
          Chunk,      \* CHUNK_SIZE of a list's growth
          ValidNames, \* names that __config_validate_name accepts
          IntBits, LongBits, FloatBits, DoubleBits

ASSUME IdsAssumption == /\ IsFiniteSet(Ids) /\ Ids \subseteq Nat /\ 1 \in Ids
                        /\ Nil \notin Ids /\ Nil \notin ValidNames
ASSUME WidthAssumption == /\ {IntBits, LongBits, FloatBits, DoubleBits, Chunk} \subseteq Nat \ {0}
                          /\ FloatBits < IntBits /\ IntBits < DoubleBits /\ DoubleBits < LongBits

Root == 1
Vectors == {"ARRAY", "LIST"}
Aggregates == Vectors \cup {"GROUP"}
Types == Aggregates \cup {"NONE", "INT", "INT64", "FLOAT", "STRING", "BOOL"}

Blank(t, n, p) == [type |-> t, name |-> n, parent |-> p, val |-> 0, hex |-> FALSE,
                   hook |-> Nil, kids |-> <<>>, cap |-> 0]

\* config_init
InitialHeap == [s \in {Root} |-> Blank("GROUP", Nil, Nil)]

FreeIds(h) == Ids \ DOMAIN h
Fresh(h) == CHOOSE s \in FreeIds(h) : TRUE

-----------------------------------------------------------------------------
\* Reading the tree

Length(h, s) == IF h[s].type \in Aggregates THEN Len(h[s].kids) ELSE 0

\* The index is unsigned: -1 is beyond every list.
GetElem(h, s, i) == IF i \in 0 .. Length(h, s) - 1 THEN h[s].kids[i + 1] ELSE Nil

ListSearch(h, s, n) ==
  LET hits == {i \in DOMAIN h[s].kids : h[h[s].kids[i]].name = n /\ n # Nil}
  IN  IF hits = {} THEN Nil ELSE h[s].kids[Min(hits)]

GetMember(h, s, n) == IF h[s].type = "GROUP" THEN ListSearch(h, s, n) ELSE Nil

\* A path is a sequence of steps: a name, an "[index]", or a "[" that ends the
\* path, which asks for element 0 and, failing that, answers the setting itself.
Follow(h, at, st) ==
  IF at = Nil THEN Nil
  ELSE CASE st.kind = "name" -> GetMember(h, at, st.name)
         [] st.kind = "elem" -> GetElem(h, at, st.index)
         [] st.kind = "open" -> IF Length(h, at) > 0 THEN GetElem(h, at, 0) ELSE at

Lookup(h, s, path) ==
  LET at[n \in 0 .. Len(path)] == IF n = 0 THEN s ELSE Follow(h, at[n - 1], path[n])
  IN  at[Len(path)]

SettingIndex(h, s) ==
  IF h[s].parent = Nil THEN -1
  ELSE LET hits == {i \in DOMAIN h[h[s].parent].kids : h[h[s].parent].kids[i] = s}
       IN  IF hits = {} THEN -1 ELSE Min(hits) - 1

\* The settings that __config_setting_destroy reaches from s through the lists:
\* the least set that has s and, with a setting, those of its list.
Closed(h, S) == \A x \in S : ToSet(h[x].kids) \subseteq S
Below(h, s) ==
  {x \in DOMAIN h : \A S \in SUBSET DOMAIN h : s \in S /\ Closed(h, S) => x \in S}

-----------------------------------------------------------------------------
\* Numbers

Pow2[n \in Nat] == IF n = 0 THEN 1 ELSE 2 * Pow2[n - 1]

Fits(bits, v) == -Pow2[bits - 1] <= v /\ v < Pow2[bits - 1]

\* Mutant: the value is cut to the low bits of the int.
NarrowWraps(v) == ((v + Pow2[IntBits - 1]) % Pow2[IntBits]) - Pow2[IntBits - 1]

\* An integer stored into, or read as, an int that cannot hold it becomes 0.
Narrow(v) == IF Fits(IntBits, v) THEN v ELSE 0

AbsOf(v) == IF v < 0 THEN -v ELSE v

\* An integer as a floating-point number of so many significant bits: to the
\* nearest, ties to even.
ToFloat(bits, v) ==
  LET k == Min({e \in 0 .. LongBits : AbsOf(v) <= Pow2[bits + e]})
      q == AbsOf(v) \div Pow2[k]
      r == AbsOf(v) % Pow2[k]
      up == 2 * r > Pow2[k] \/ (2 * r = Pow2[k] /\ q % 2 = 1)
      m == (IF up THEN q + 1 ELSE q) * Pow2[k]
  IN  2 * (IF v < 0 THEN -m ELSE m)

\* Conversion of a double to an integer type: towards zero.  Out of range it is
\* undefined in C; the x86 instruction yields the least integer.
Truncate(bits, d) ==
  LET q == AbsOf(d) \div 2
      v == IF d < 0 THEN -q ELSE q
  IN  IF Fits(bits, v) THEN v ELSE -Pow2[bits - 1]

\* The getters answer <<succeeded, value>>.
GetInt(h, auto, s) ==
  CASE h[s].type \in {"INT", "INT64"} -> <<TRUE, Narrow(h[s].val)>>
    [] h[s].type = "FLOAT" /\ auto -> <<TRUE, Truncate(IntBits, h[s].val)>>
    [] OTHER -> <<FALSE, 0>>

GetInt64(h, auto, s) ==
  CASE h[s].type \in {"INT", "INT64"} -> <<TRUE, h[s].val>>
    [] h[s].type = "FLOAT" /\ auto -> <<TRUE, Truncate(LongBits, h[s].val)>>
    [] OTHER -> <<FALSE, 0>>

GetFloat(h, auto, s) ==
  CASE h[s].type = "FLOAT" -> <<TRUE, h[s].val>>
    [] h[s].type \in {"INT", "INT64"} /\ auto -> <<TRUE, ToFloat(DoubleBits, h[s].val)>>
    [] OTHER -> <<FALSE, 0>>

\* config_setting_get_int ... _bool and _string; the last two only read their own
\* type.
Get(h, auto, kind, s) ==
  CASE kind = "INT" -> GetInt(h, auto, s)
    [] kind = "INT64" -> GetInt64(h, auto, s)
    [] kind = "FLOAT" -> GetFloat(h, auto, s)
    [] OTHER -> IF h[s].type = kind THEN <<TRUE, h[s].val>> ELSE <<FALSE, 0>>

\* config_setting_lookup_int and its sisters read the member of a name,
\* config_lookup_int and its sisters what a path leads to.
LookupMember(h, auto, kind, s, n) ==
  LET member == GetMember(h, s, n) IN IF member = Nil THEN <<FALSE, 0>> ELSE Get(h, auto, kind, member)
LookupPath(h, auto, kind, path) ==
  LET found == Lookup(h, Root, path) IN IF found = Nil THEN <<FALSE, 0>> ELSE Get(h, auto, kind, found)

\* config_setting_get_int_elem and its sisters: 0 where there is nothing to read.
GetElemValue(h, auto, kind, s, i) ==
  LET element == GetElem(h, s, i) IN IF element = Nil THEN 0 ELSE Get(h, auto, kind, element)[2]

\* The type a NONE setting takes from the setter, and the value each setter
\* stores into a setting of type t; the setters refuse every other type.
Settable(kind, auto) ==
  {kind} \cup (IF kind = "INT64" THEN {"INT"} ELSE {})
         \cup (IF auto /\ kind \in {"INT", "INT64"} THEN {"FLOAT"} ELSE {})
         \cup (IF auto /\ kind = "FLOAT" THEN {"INT", "INT64"} ELSE {})

Stored(kind, t, v) ==
  CASE kind = "INT64" /\ t = "INT" -> Narrow(v)
    [] kind \in {"INT", "INT64"} /\ t = "FLOAT" -> ToFloat(FloatBits, v)
    [] kind = "FLOAT" /\ t = "INT" -> Truncate(IntBits, v)
    [] kind = "FLOAT" /\ t = "INT64" -> Truncate(LongBits, v)
    [] OTHER -> v

\* config_setting_set_int, _int64, _float, _bool, _string
SetScalar(h, auto, s, kind, v) ==
  LET t == IF h[s].type = "NONE" THEN kind ELSE h[s].type
  IN  IF t \in Settable(kind, auto)
      THEN <<[h EXCEPT ![s].type = t, ![s].val = Stored(kind, t, v)], TRUE>>
      ELSE <<h, FALSE>>

SetFormat(h, s, hex) ==
  IF h[s].type \in {"INT", "INT64"} THEN <<[h EXCEPT ![s].hex = hex], TRUE>> ELSE <<h, FALSE>>

-----------------------------------------------------------------------------
\* Building and pruning the tree

\* Mutant: memory is made for the first elements only.
ListAddOnce(h, p, s) ==
  [h EXCEPT ![p].cap = IF h[p].kids = <<>> THEN Chunk ELSE @, ![p].kids = Append(@, s)]

\* __config_list_add: room for Chunk more when the length is a multiple of it.
ListAdd(h, p, s) ==
  [h EXCEPT ![p].cap = IF Len(h[p].kids) % Chunk = 0 THEN Len(h[p].kids) + Chunk ELSE @,
            ![p].kids = Append(@, s)]

\* config_setting_create
Create(h, p, n, t) ==
  IF h[p].type \notin Aggregates THEN <<h, Nil>>
  ELSE LET s == Fresh(h)
       IN  <<ListAdd([x \in DOMAIN h \cup {s} |-> IF x = s THEN Blank(t, n, p) ELSE h[x]], p, s), s>>

\* Mutant: the member of that name is looked for when the new one is there already.
AddSettingFirst(h, p, n, t) ==
  IF h[p].type \in Vectors THEN Create(h, p, Nil, t)
  ELSE IF n # Nil /\ n \notin ValidNames THEN <<h, Nil>>
  ELSE LET made == Create(h, p, n, t)
       IN  <<made[1], IF GetMember(h, p, n) # Nil THEN Nil ELSE made[2]>>

\* config_setting_add: an element of a vector loses its name; the name of a
\* member must be valid and new in its group, unless it has none.
AddSetting(h, p, n, t) ==
  IF h[p].type \in Vectors THEN Create(h, p, Nil, t)
  ELSE IF (n # Nil /\ n \notin ValidNames) \/ GetMember(h, p, n) # Nil THEN <<h, Nil>>
  ELSE Create(h, p, n, t)

\* Looking for the name NULL among members that have names crashes
\* (__config_name_compare, libconfig.c:133-156).
NameComparable(h, p, n) ==
  n = Nil /\ h[p].type = "GROUP" => \A i \in DOMAIN h[p].kids : h[h[p].kids[i]].name = Nil

\* Mutant: any vector takes any type.
CheckTypeOfVector(h, p, t) == h[p].type \in Vectors

\* __config_vector_checktype
CheckType(h, p, t) ==
  h[p].kids = <<>> \/ h[p].type = "LIST" \/ h[Head(h[p].kids)].type = t

\* config_setting_set_int_elem and its sisters; a negative index appends.
SetElem(h, auto, p, i, kind, v) ==
  IF h[p].type \notin Vectors \/ (i < 0 /\ ~CheckType(h, p, kind)) THEN <<h, Nil>>
  ELSE LET made == IF i < 0 THEN Create(h, p, Nil, kind) ELSE <<h, GetElem(h, p, i)>>
       IN  IF made[2] = Nil THEN <<h, Nil>>
           ELSE LET set == SetScalar(made[1], auto, made[2], kind, v)
                IN  <<set[1], IF set[2] THEN made[2] ELSE Nil>>

\* __config_list_remove and __config_setting_destroy of s, a setting in p's list
Cut(h, p, s) ==
  LET i == CHOOSE i \in DOMAIN h[p].kids : h[p].kids[i] = s
  IN  [x \in DOMAIN h \ Below(h, s) |->
         IF x = p THEN [h[p] EXCEPT !.kids = RemoveAt(@, i)] ELSE h[x]]

\* What config_setting_remove and config_setting_remove_elem take out: a member
\* by name, an element by index, or nothing.
RemovedMember(h, p, n) == GetMember(h, p, n)
RemovedElem(h, p, i) == GetElem(h, p, i)

\* Mutant: the settings below are freed without their hooks.
HookOfSetting(h, s) == {h[s].hook} \ {Nil}

\* The hooks that the destructor is called with.
HooksBelow(h, s) == {h[x].hook : x \in Below(h, s)} \ {Nil}
=============================================================================
