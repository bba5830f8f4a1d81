----------------------------- MODULE ConfigTree -----------------------------
(***************************************************************************)
(* A program that builds, changes, prunes and destroys a configuration     *)
(* through the calls of libconfig.c, in any order.  What a call did last   *)
(* stays in last, for the properties that relate an answer to the tree.    *)
(***************************************************************************)
EXTENDS ConfigHeap

CONSTANTS Names,      \* names the program uses, valid or not
          Hooks,      \* pointers it attaches to settings, each one once
          AddTypes,   \* types it adds settings of
          Inputs      \* the calls of setters: pairs <<kind, value>>

ASSUME CallsAssumption ==
  /\ Nil \notin Hooks /\ AddTypes \subseteq Types
  /\ \A in \in Inputs : /\ in[1] \in Types \ (Aggregates \cup {"NONE"})
                        /\ in[2] \in Int
                        /\ in[1] = "INT" => Fits(IntBits, in[2])
                        /\ in[1] = "INT64" => Fits(LongBits, in[2])

VARIABLES heap,       \* config_t.root and everything below it
          auto,       \* CONFIG_OPTION_AUTOCONVERT
          destructor, \* whether config_set_destructor was called
          freed,      \* how often the destructor has been called with a hook
          given,      \* hooks handed over so far
          last        \* the last call; of a setter also its setting and value

vars == <<heap, auto, destructor, freed, given, last>>

TypeOK ==
  /\ DOMAIN heap \subseteq Ids
  /\ \A s \in DOMAIN heap :
       /\ heap[s].type \in Types /\ heap[s].name \in Names \cup {Nil}
       /\ heap[s].parent \in Ids \cup {Nil} /\ heap[s].hook \in Hooks \cup {Nil}
       /\ heap[s].kids \in Seq(Ids) /\ heap[s].cap \in Nat /\ heap[s].hex \in BOOLEAN
       /\ heap[s].type = "INT" => Fits(IntBits, heap[s].val)
       /\ heap[s].type = "INT64" => Fits(LongBits, heap[s].val)
  /\ {auto, destructor} \subseteq BOOLEAN
  /\ freed \in [Hooks -> Nat] /\ given \subseteq Hooks

Called(call, ok) == last' = [call |-> call, on |-> Root, value |-> 0, ok |-> ok]

Init ==
  /\ heap = InitialHeap
  /\ auto = FALSE /\ destructor = FALSE
  /\ freed = [k \in Hooks |-> 0] /\ given = {}
  /\ last = [call |-> "config_init", on |-> Root, value |-> 0, ok |-> TRUE]

-----------------------------------------------------------------------------
config_setting_add(p, n, t) ==
  /\ FreeIds(heap) # {} /\ NameComparable(heap, p, n)
  /\ LET res == AddSetting(heap, p, n, t)
     IN  heap' = res[1] /\ Called("config_setting_add", res[2] # Nil)
  /\ UNCHANGED <<auto, destructor, freed, given>>

\* config_setting_set_int, _int64, _float, _bool and _string
config_setting_set(s, kind, v) ==
  /\ LET res == SetScalar(heap, auto, s, kind, v)
     IN  heap' = res[1] /\ last' = [call |-> kind, on |-> s, value |-> v, ok |-> res[2]]
  /\ UNCHANGED <<auto, destructor, freed, given>>

\* config_setting_set_int_elem and its sisters
config_setting_set_elem(p, i, kind, v) ==
  /\ FreeIds(heap) # {}
  /\ LET res == SetElem(heap, auto, p, i, kind, v)
     IN  heap' = res[1] /\ Called("config_setting_set_elem", res[2] # Nil)
  /\ UNCHANGED <<auto, destructor, freed, given>>

config_setting_set_format(s, hex) ==
  /\ LET res == SetFormat(heap, s, hex)
     IN  heap' = res[1] /\ Called("config_setting_set_format", res[2])
  /\ UNCHANGED <<auto, destructor, freed, given>>

config_setting_set_hook(s, k) ==
  /\ k \notin given
  /\ given' = given \cup {k}
  /\ heap' = [heap EXCEPT ![s].hook = k]
  /\ Called("config_setting_set_hook", TRUE)
  /\ UNCHANGED <<auto, destructor, freed>>

\* __config_setting_destroy hands every hook below s to the destructor, if any.
FreeHooks(s) ==
  freed' = [k \in Hooks |-> IF destructor /\ k \in HooksBelow(heap, s) THEN freed[k] + 1 ELSE freed[k]]

Prune(call, p, s) ==
  /\ IF s = Nil THEN UNCHANGED <<heap, freed>> ELSE heap' = Cut(heap, p, s) /\ FreeHooks(s)
  /\ Called(call, s # Nil)
  /\ UNCHANGED <<auto, destructor, given>>

config_setting_remove(p, n) == Prune("config_setting_remove", p, RemovedMember(heap, p, n))
config_setting_remove_elem(p, i) == Prune("config_setting_remove_elem", p, RemovedElem(heap, p, i))

config_set_auto_convert(flag) ==
  /\ auto' = flag
  /\ Called("config_set_auto_convert", TRUE)
  /\ UNCHANGED <<heap, destructor, freed, given>>

config_set_destructor ==
  /\ destructor' = TRUE
  /\ Called("config_set_destructor", TRUE)
  /\ UNCHANGED <<heap, auto, freed, given>>

\* config_destroy zeroes the config_t; config_init makes it usable again.
config_destroy ==
  /\ FreeHooks(Root)
  /\ heap' = InitialHeap /\ auto' = FALSE /\ destructor' = FALSE
  /\ Called("config_destroy", TRUE)
  /\ UNCHANGED given

Next ==
  \/ \E p \in DOMAIN heap, n \in Names \cup {Nil}, t \in AddTypes : config_setting_add(p, n, t)
  \/ \E s \in DOMAIN heap, in \in Inputs : config_setting_set(s, in[1], in[2])
  \/ \E p \in DOMAIN heap : \E i \in -1 .. Length(heap, p), in \in Inputs :
       config_setting_set_elem(p, i, in[1], in[2])
  \/ \E s \in DOMAIN heap, hex \in BOOLEAN : config_setting_set_format(s, hex)
  \/ \E s \in DOMAIN heap, k \in Hooks : config_setting_set_hook(s, k)
  \/ \E p \in DOMAIN heap, n \in Names : config_setting_remove(p, n)
  \/ \E p \in DOMAIN heap : \E i \in 0 .. Length(heap, p) : config_setting_remove_elem(p, i)
  \/ \E flag \in BOOLEAN : config_set_auto_convert(flag)
  \/ config_set_destructor
  \/ config_destroy

Spec == Init /\ [][Next]_vars

-----------------------------------------------------------------------------
\* Properties

\* Every setting in use hangs in exactly one list, its parent's, and the lists
\* below the root reach all of them: removing and adding in any order neither
\* leaks a setting nor leaves a pointer to a freed one (libconfig.c:445-508,
\* 802-829, 1597-1641).
TreeShape ==
  /\ Below(heap, Root) = DOMAIN heap
  /\ \A s \in DOMAIN heap :
       /\ IsInjective(heap[s].kids)
       /\ \A i \in DOMAIN heap[s].kids : heap[heap[s].kids[i]].parent = s

\* No element lies beyond the memory of its list, whatever was removed in
\* between: the list grows only when its length is a multiple of CHUNK_SIZE
\* (libconfig.c:401-412).
ListsWithinMemory == \A s \in DOMAIN heap : Len(heap[s].kids) <= heap[s].cap

\* A member of a group that was given a name; other settings go by their index.
HasName(s) == heap[heap[s].parent].type = "GROUP" /\ heap[s].name # Nil

\* The list of its parent leads to every setting: by its index, and to a member
\* that has a name by it, which no other member has (libconfig.c:417-440, 1505-1533,
\* 1645-1663).
FoundFromParent ==
  \A s \in DOMAIN heap \ {Root} :
    LET up == heap[s].parent
    IN  /\ GetElem(heap, up, SettingIndex(heap, s)) = s
        /\ HasName(s) => GetMember(heap, up, heap[s].name) = s

\* The path made of names and indices leads from the root to every setting:
\* no member hides another one of its name (libconfig.c:1189-1218, 1586).
StepTo(s) ==
  IF HasName(s)
  THEN [kind |-> "name", name |-> heap[s].name, index |-> 0]
  ELSE [kind |-> "elem", name |-> Nil, index |-> SettingIndex(heap, s)]
PathTo[s \in DOMAIN heap] == IF s = Root THEN <<>> ELSE Append(PathTo[heap[s].parent], StepTo(s))
EverySettingHasItsPath == \A s \in DOMAIN heap : Lookup(heap, Root, PathTo[s]) = s

\* The tree stays whole whatever is called in which order.
TreeIntact ==
  TypeOK /\ TreeShape /\ ListsWithinMemory /\ FoundFromParent /\ EverySettingHasItsPath

\* The elements of an array have one type, which the first one determines
\* (libconfig.c:512-531).  Every call but config_setting_add, which compares
\* nothing (libconfig.c:1571-1593), keeps it so.
Uniform(h, s) == \A i, j \in DOMAIN h[s].kids : h[h[s].kids[i]].type = h[h[s].kids[j]].type
OnlyAddMixesArrays ==
  [][last'.call # "config_setting_add" =>
       \A s \in DOMAIN heap \cap DOMAIN heap' :
         heap'[s].type = "ARRAY" /\ Uniform(heap, s) => Uniform(heap', s)]_vars

\* By name, by path and by index a getter answers the same.
RoutesAgree(s) ==
  LET up == heap[s].parent
      path == PathTo[s]
      index == SettingIndex(heap, s)
  IN  \A kind \in Types \ (Aggregates \cup {"NONE"}) :
        LET answer == Get(heap, auto, kind, s)
        IN  /\ LookupPath(heap, auto, kind, path) = answer
            /\ GetElemValue(heap, auto, kind, up, index) = answer[2]
            /\ HasName(s) => LookupMember(heap, auto, kind, up, heap[s].name) = answer

\* w is v rounded to so many significant bits: it is v itself when it has no more
\* of them, and off by less than one part in 2^bits otherwise.
Near(bits, v, w) == w = v \/ AbsOf(w - v) * Pow2[bits] < AbsOf(v)

\* What the getters tell of the setting s that a setter stored v in.  An INT keeps
\* v, or 0 if no int holds it, an INT64 v, a FLOAT the number w that v is rounded
\* to; a double of that number is read exactly or to the nearest double.  An
\* integer getter answers w where its type holds it.  Where it does not, the int
\* of an INT64 is 0; the conversion of a FLOAT is undefined in C and yields the
\* least integer of the type on the machines the library is built for.
TellsNumber(h, au, s, v) ==
  LET t == h[s].type
      int == GetInt(h, au, s)
      long == GetInt64(h, au, s)
      float == GetFloat(h, au, s)
      w == IF t = "FLOAT" THEN float[2] \div 2
           ELSE IF t = "INT" /\ ~Fits(IntBits, v) THEN 0 ELSE v
  IN  /\ t = "FLOAT" => float[1] /\ float[2] = 2 * w /\ Near(FloatBits, v, w)
      /\ t # "FLOAT" =>
           /\ int[1] /\ long[1]
           /\ float[1] => float[2] = 2 * (float[2] \div 2) /\ Near(DoubleBits, w, float[2] \div 2)
      /\ long[1] => long[2] = IF Fits(LongBits, w) THEN w ELSE -Pow2[LongBits - 1]
      /\ int[1] => int[2] = IF Fits(IntBits, w) THEN w
                           ELSE IF t = "FLOAT" THEN -Pow2[IntBits - 1] ELSE 0

\* A number that a setter accepted is told alike by every getter that succeeds,
\* whichever way it comes to the setting, and as TellsNumber says: never cut to
\* the low bits of a narrower type (libconfig.c:833-1120, 1226-1471).
NoSilentTruncation ==
  last.call \in {"INT", "INT64"} /\ last.ok =>
    RoutesAgree(last.on) /\ TellsNumber(heap, auto, last.on, last.value)

\* A call that answers that it failed has changed nothing: above all no element
\* stays behind in a vector that refused it (libconfig.c:1306-1336, 1571-1593).
FailedCallsChangeNothing == [][~last'.ok => heap' = heap]_vars

\* The destructor sees the hook of each setting that goes, the nested ones too,
\* once, and no other (libconfig.c:464-508, 738-752).
HooksGoWithTheirSettings ==
  [][\A k \in Hooks : freed'[k] - freed[k] =
       Cardinality({s \in DOMAIN heap : /\ heap[s].hook = k /\ destructor
                                        /\ \/ s \notin DOMAIN heap'
                                           \/ last'.call = "config_destroy"})]_vars
=============================================================================
