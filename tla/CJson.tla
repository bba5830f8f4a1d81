-------------------------------- MODULE CJson --------------------------------
(***************************************************************************)
(* The inside of the cJSON library: items in allocated memory, the         *)
(* recursive parser, the printer and the duplicator, as functions of the   *)
(* memory m.  Any one allocation may fail.  CJsonClient makes the calls.   *)
(*                                                                         *)
(* An item is a record of pointers in `nodes'; names, values and printed   *)
(* texts are blocks of `strs'.  A pointer is a number and NULL is 0.  A    *)
(* text is a sequence of symbols: punctuation, the quote, the backslash,   *)
(* blanks, the literals and numbers whole, letters of strings, and the     *)
(* five characters of a \u escape whole, by the kind of its unit.          *)
(***************************************************************************)
EXTENDS Integers, FiniteSets, Sequences, SequencesExt, FiniteSetsExt, TLC

CONSTANTS
    Ids,        \* addresses of items
    StrIds      \* addresses of strings and buffers

NULL == 0
NUL == "NUL"
Quote == "\""
Literals == {"null", "false", "true"}
Units == {"u0001", "u00e9", "ud800", "udc00", "u0000"}
Leaves == Literals \union {"number"}
Containers == {"array", "object"}

Blank == [next |-> NULL, prev |-> NULL, child |-> NULL,
          type |-> "false", ref |-> FALSE, val |-> NULL, string |-> NULL]

-----------------------------------------------------------------------------
(* Memory.  m.left counts down to the allocation that fails (0: none);     *)
(* m.bad is set by a second free, by the use of a freed block, and by a    *)
(* write past the end of a buffer.                                         *)

Lowest(S) == CHOOSE i \in S : \A j \in S : i <= j
OneLess(k) == IF k = 0 THEN 0 ELSE k - 1

\* cJSON_New_Item: a zeroed item, or NULL.
NewItem(m) ==
    IF m.left = 1 THEN [m |-> [m EXCEPT !.left = 0], p |-> NULL]
    ELSE LET p == Lowest(Ids \ DOMAIN m.nodes)
         IN  [m |-> [m EXCEPT !.nodes = (p :> Blank) @@ @, !.left = OneLess(@)], p |-> p]

\* cJSON_malloc of size bytes, then the text written to them.
Store(m, content, written, size) ==
    IF m.left = 1 THEN [m |-> [m EXCEPT !.left = 0], p |-> NULL]
    ELSE LET p == Lowest(StrIds \ DOMAIN m.strs)
         IN  [m |-> [m EXCEPT !.strs = (p :> content) @@ @, !.left = OneLess(@),
                              !.bad = @ \/ written > size],
              p |-> p]

\* The characters of a text in C.
Width(c) == IF c \in Units THEN 5 ELSE IF c \in Leaves THEN 4 ELSE 1
Chars(t) == FoldLeft(LAMBDA n, c : n + Width(c), 0, t)

Strdup(m, content) == Store(m, content, Chars(content) + 1, Chars(content) + 1)

Release(m, p) ==
    IF p \in DOMAIN m.strs
    THEN [m EXCEPT !.strs = [q \in DOMAIN @ \ {p} |-> @[q]]]
    ELSE [m EXCEPT !.bad = TRUE]

ReleaseAll(m, ps) == FoldLeft(LAMBDA mm, p : IF p = NULL THEN mm ELSE Release(mm, p), m, ps)

\* cJSON_Delete: an item, what it owns, and all that follow it.
RECURSIVE Delete(_, _)
Delete(m, c) ==
    IF c = NULL THEN m
    ELSE IF c \notin DOMAIN m.nodes THEN [m EXCEPT !.bad = TRUE]
    ELSE LET n    == m.nodes[c]
             kids == IF n.ref THEN m ELSE Delete(m, n.child)
             rest == ReleaseAll(kids, <<IF n.ref THEN NULL ELSE n.val, n.string>>)
         IN  Delete([rest EXCEPT !.nodes = [q \in DOMAIN @ \ {c} |-> @[q]]], n.next)

\* The list of items that starts at c.
RECURSIVE Siblings(_, _)
Siblings(m, c) == IF c \notin DOMAIN m.nodes THEN <<>> ELSE <<c>> \o Siblings(m, m.nodes[c].next)

Children(m, p) == Siblings(m, m.nodes[p].child)

-----------------------------------------------------------------------------
(* Parsing.  A position 0 is the NULL that reports failure.                *)

At(t, i) == IF i \in 1 .. Len(t) THEN t[i] ELSE NUL

\* Mutant: one blank at most.
SkipOne(t, i) == IF i # 0 /\ At(t, i) = " " THEN i + 1 ELSE i

RECURSIVE Skip(_, _)
Skip(t, i) == IF i # 0 /\ At(t, i) = " " THEN Skip(t, i + 1) ELSE i

Fail(m) == [m |-> m, pos |-> 0]
FailAt(m, i) == Fail([m EXCEPT !.ep = i])
Done(m, i) == [m |-> m, pos |-> i]

\* What an escaped character or unit stands for, in bytes.
Unescaped(e) == CASE e = "n" -> <<"LF">> [] e = "u0001" -> <<"SOH">>
                  [] e = "u00e9" -> <<"C3", "A9">> [] e \in Units -> <<>> [] OTHER -> <<e>>

\* The loops of parse_string: the bytes, their number as counted beforehand,
\* and where the string ends.
RECURSIVE Unescape(_, _)
Unescape(t, i) ==
    LET Then(bytes, len, next) ==
            LET rest == Unescape(t, next)
            IN  [out |-> bytes \o rest.out, len |-> len + rest.len, pos |-> rest.pos]
        e    == At(t, i + 1)
        Pair == e = "ud800" /\ At(t, i + 2) = "\\" /\ At(t, i + 3) \in Units
    IN  IF At(t, i) \in {Quote, NUL} THEN [out |-> <<>>, len |-> 0, pos |-> i]
        ELSE IF At(t, i) # "\\" THEN Then(<<t[i]>>, 1, i + 1)
        ELSE IF Pair
             THEN Then(IF At(t, i + 3) = "udc00" THEN <<"F0", "90", "80", "80">> ELSE <<>>, 10, i + 4)
        ELSE Then(Unescaped(e), Width(e), i + 2)

\* The string u that was read, in memory for its bytes as counted.
Stored(m, t, item, u) ==
    LET out == Store(m, u.out, Len(u.out) + 1, u.len + 1)
    IN  IF out.p = NULL THEN Fail(out.m)
        ELSE Done([out.m EXCEPT !.nodes[item].val = out.p, !.nodes[item].type = "string"],
                  IF At(t, u.pos) = Quote THEN u.pos + 1 ELSE u.pos)

ParseString(m, t, item, i) ==
    IF At(t, i) # Quote THEN FailAt(m, i) ELSE Stored(m, t, item, Unescape(t, i + 1))

\* parse_number and the literals of parse_value.
ParseLeaf(m, t, item, i) == Done([m EXCEPT !.nodes[item].type = t[i]], i + 1)

Append1(m, child, new) == [m EXCEPT !.nodes[child].next = new, !.nodes[new].prev = child]

RECURSIVE ParseValue(_, _, _, _), ParseEntries(_, _, _, _, _)

\* After the comma: another item and the entries from there on.
ParseNext(new, t, child, i, close) ==
    IF new.p = NULL THEN Fail(new.m)
    ELSE ParseEntries(Append1(new.m, child, new.p), t, new.p, i, close)

\* After a value, r: the end of its array or object, or a comma.
AfterValue(r, t, child, close) ==
    LET v == Skip(t, r.pos)
    IN  IF v = 0 THEN r
        ELSE IF At(t, v) = close THEN Done(r.m, v + 1)
        ELSE IF At(t, v) # "," THEN FailAt(r.m, v)
        ELSE ParseNext(NewItem(r.m), t, child, v + 1, close)

\* After a name, s, which was read as the value: a colon and the value.
AfterName(s, t, child) ==
    LET c     == Skip(t, s.pos)
        named == [s.m EXCEPT !.nodes[child].string = s.m.nodes[child].val, !.nodes[child].val = NULL]
    IN  IF c = 0 THEN s
        ELSE IF At(t, c) # ":" THEN FailAt(named, c)
        ELSE AfterValue(ParseValue(named, t, child, Skip(t, c + 1)), t, child, "}")

\* The loops of parse_array and parse_object: the entries from child on.
ParseEntries(m, t, child, i, close) ==
    IF close = "]" THEN AfterValue(ParseValue(m, t, child, Skip(t, i)), t, child, close)
    ELSE AfterName(ParseString(m, t, child, Skip(t, i)), t, child)

\* parse_array and parse_object: an empty one, or a first child and the rest.
FirstEntry(new, t, item, i, close) ==
    IF new.p = NULL THEN Fail(new.m)
    ELSE ParseEntries([new.m EXCEPT !.nodes[item].child = new.p], t, new.p, i, close)

ParseContainer(m, t, item, i) ==
    LET array == At(t, i) = "["
        close == IF array THEN "]" ELSE "}"
        typed == [m EXCEPT !.nodes[item].type = IF array THEN "array" ELSE "object"]
        v     == Skip(t, i + 1)
    IN  IF At(t, v) = close THEN Done(typed, v + 1)
        ELSE FirstEntry(NewItem(typed), t, item, v, close)

ParseValue(m, t, item, i) ==
    CASE i = 0 -> Fail(m)
      [] At(t, i) \in Leaves -> ParseLeaf(m, t, item, i)
      [] At(t, i) = Quote -> ParseString(m, t, item, i)
      [] At(t, i) \in {"[", "{"} -> ParseContainer(m, t, item, i)
      [] OTHER -> FailAt(m, i)

\* cJSON_ParseWithOpts: the root c, or NULL after all that was built is deleted.
Rooted(r, t, c, wholeText) ==
    LET over == wholeText /\ At(t, Skip(t, r.pos)) # NUL
    IN  IF r.pos # 0 /\ ~over THEN [m |-> r.m, p |-> c]
        ELSE [m |-> [Delete(r.m, c) EXCEPT !.ep = IF r.pos = 0 THEN @ ELSE Skip(t, r.pos)], p |-> NULL]

ParseItem(c, t, wholeText) ==
    IF c.p = NULL THEN c ELSE Rooted(ParseValue(c.m, t, c.p, Skip(t, 1)), t, c.p, wholeText)

ParseWithOpts(m, t, wholeText) == ParseItem(NewItem(m), t, wholeText)

-----------------------------------------------------------------------------
(* Printing.                                                               *)

Spaces(n) == [i \in 1 .. n |-> " "]

\* Mutant: quotes are left as they are.
EscapeControls(b) == CASE b = "LF" -> <<"\\", "n">> [] b = "SOH" -> <<"\\", "u0001">> [] OTHER -> <<b>>

\* print_string_ptr.
Escape(b) == CASE b \in {Quote, "\\"} -> <<"\\", b>> [] b = "LF" -> <<"\\", "n">>
               [] b = "SOH" -> <<"\\", "u0001">> [] OTHER -> <<b>>

\* Mutant: a backslash is counted as it stands.
CountedOnce(b) == CASE b \in {Quote, "LF"} -> 2 [] b = "SOH" -> 6 [] OTHER -> 1

\* The loop that counts beforehand what a byte will take.
Counted(b) == CASE b \in {Quote, "\\", "LF"} -> 2 [] b = "SOH" -> 6 [] OTHER -> 1

PrintString(m, s) ==
    LET out == FlattenSeq([k \in 1 .. Len(m.strs[s]) |-> Escape(m.strs[s][k])])
        len == FoldLeft(LAMBDA n, b : n + Counted(b), 0, m.strs[s])
    IN  IF s = NULL THEN Strdup(m, <<>>)
        ELSE Store(m, <<Quote>> \o out \o <<Quote>>, Chars(out) + 3, len + 3)

RECURSIVE PrintValue(_, _, _, _)

\* The loop of print_array stops at the first failure, that of print_object
\* goes on; each leaves the texts it has in acc.
Printed(acc, names, r, fail) ==
    [m |-> r.m, names |-> names, outs |-> Append(acc.outs, r.p), fail |-> fail \/ r.p = NULL]

PrintElement(acc, c, depth, fmt) ==
    IF acc.fail THEN acc ELSE Printed(acc, <<>>, PrintValue(acc.m, c, depth + 1, fmt), FALSE)

Member(acc, s, c, depth, fmt) ==
    Printed(acc, Append(acc.names, s.p), PrintValue(s.m, c, depth + 1, fmt), acc.fail \/ s.p = NULL)
PrintMember(acc, c, depth, fmt) ==
    Member(acc, PrintString(acc.m, acc.m.nodes[c].string), c, depth, fmt)

\* The text an array or object is composed to from those of its entries.
ArrayText(m, outs, fmt) ==
    <<"[">>
    \o FlattenSeq([k \in 1 .. Len(outs) |->
           m.strs[outs[k]] \o (IF k = Len(outs) THEN <<>> ELSE <<",">> \o Spaces(IF fmt THEN 1 ELSE 0))])
    \o <<"]">>

ObjectText(m, names, outs, depth, fmt) ==
    LET Blanks(n) == Spaces(IF fmt THEN n ELSE 0)
    IN  <<"{">> \o Blanks(1)
        \o FlattenSeq([k \in 1 .. Len(outs) |->
               Blanks(depth + 1) \o m.strs[names[k]] \o <<":">> \o Blanks(1) \o m.strs[outs[k]]
               \o (IF k = Len(outs) THEN <<>> ELSE <<",">>) \o Blanks(1)])
        \o Blanks(depth) \o <<"}">>

SumOf(m, ps) == FoldLeft(LAMBDA n, p : n + Chars(m.strs[p]), 0, ps)

\* print_array and print_object: the tables of entries, the entries, and out of
\* these (done) the buffer for the whole; everything but the whole is released.
Compose(done, whole, size, tables) ==
    LET out == Store(done.m, whole, Chars(whole) + 1, size)
        Clean(mm) == ReleaseAll(mm, done.names \o done.outs \o tables)
    IN  IF done.fail THEN [m |-> Clean(done.m), p |-> NULL] ELSE [m |-> Clean(out.m), p |-> out.p]

ComposeArray(done, fmt, table) ==
    Compose(done, ArrayText(done.m, done.outs, fmt),
            5 + SumOf(done.m, done.outs) + Len(done.outs) * (IF fmt THEN 3 ELSE 2), <<table>>)

NoEntries(m) == [m |-> m, names |-> <<>>, outs |-> <<>>, fail |-> FALSE]

ArrayEntries(table, kids, depth, fmt) ==
    IF table.p = NULL THEN table
    ELSE ComposeArray(FoldLeft(LAMBDA acc, c : PrintElement(acc, c, depth, fmt), NoEntries(table.m), kids),
                      fmt, table.p)

PrintArray(m, p, depth, fmt) ==
    IF Children(m, p) = <<>> THEN Store(m, <<"[", "]">>, 3, 3)
    ELSE ArrayEntries(Store(m, <<>>, 0, 0), Children(m, p), depth, fmt)

ComposeObject(done, depth, fmt, tables) ==
    Compose(done, ObjectText(done.m, done.names, done.outs, depth, fmt),
            7 + SumOf(done.m, done.names) + SumOf(done.m, done.outs) + Len(done.outs) * 2
              + (IF fmt THEN (depth + 1) + Len(done.outs) * (2 + depth + 1) ELSE 0), tables)

ObjectEntries(table, other, kids, depth, fmt) ==
    IF table.p = NULL THEN table
    ELSE IF other.p = NULL THEN [m |-> Release(other.m, table.p), p |-> NULL]
    ELSE ComposeObject(FoldLeft(LAMBDA acc, c : PrintMember(acc, c, depth, fmt), NoEntries(other.m), kids),
                       depth, fmt, <<other.p, table.p>>)

PrintObject(m, p, depth, fmt) ==
    LET none  == <<"{">> \o Spaces(IF fmt THEN 1 + (IF depth = 0 THEN 0 ELSE depth - 1) ELSE 0) \o <<"}">>
        table == Store(m, <<>>, 0, 0)
    IN  IF Children(m, p) = <<>> THEN Store(m, none, Len(none) + 1, IF fmt THEN depth + 4 ELSE 3)
        ELSE ObjectEntries(table, Store(table.m, <<>>, 0, 0), Children(m, p), depth, fmt)

PrintValue(m, p, depth, fmt) ==
    LET n == m.nodes[p]
    IN  CASE n.type \in Leaves -> Strdup(m, <<n.type>>)
          [] n.type = "string" -> PrintString(m, n.val)
          [] n.type = "array" -> PrintArray(m, p, depth, fmt)
          [] n.type = "object" -> PrintObject(m, p, depth, fmt)

-----------------------------------------------------------------------------
(* Copies.                                                                 *)

\* A string of the copy, where the original has one.
CopyOf(m, s) == IF s = NULL THEN [m |-> m, p |-> NULL] ELSE Strdup(m, m.strs[s])

RECURSIVE Duplicate(_, _, _)

\* The loop over the children: acc has the copy of the last one, d is the next.
AddCopy(acc, d, c) ==
    IF d.p = NULL THEN [m |-> d.m, last |-> NULL, fail |-> TRUE]
    ELSE [m |-> IF acc.last = NULL THEN [d.m EXCEPT !.nodes[c].child = d.p]
                ELSE Append1(d.m, acc.last, d.p),
          last |-> d.p, fail |-> FALSE]

CopyKids(m, p, c) ==
    FoldLeft(LAMBDA acc, kid : IF acc.fail THEN acc ELSE AddCopy(acc, Duplicate(acc.m, kid, TRUE), c),
             [m |-> m, last |-> NULL, fail |-> FALSE], Children(m, p))

\* The copy c, or NULL after what there is of it is deleted.
CopyOrNull(m, c, fail) == IF fail THEN [m |-> Delete(m, c), p |-> NULL] ELSE [m |-> m, p |-> c]
EndOfCopy(all, c) == CopyOrNull(all.m, c, all.fail)

CopyName(name, p, c, recurse) ==
    LET named == [name.m EXCEPT !.nodes[c].string = name.p]
    IN  IF ~recurse \/ (name.p = NULL /\ named.nodes[p].string # NULL)
        THEN CopyOrNull(named, c, name.p = NULL /\ named.nodes[p].string # NULL)
        ELSE EndOfCopy(CopyKids(named, p, c), c)

CopyValue(val, p, c, recurse) ==
    LET valued == [val.m EXCEPT !.nodes[c].val = val.p]
    IN  IF val.p = NULL /\ valued.nodes[p].val # NULL THEN CopyOrNull(valued, c, TRUE)
        ELSE CopyName(CopyOf(valued, valued.nodes[p].string), p, c, recurse)

CopyItem(new, p, recurse) ==
    LET typed == [new.m EXCEPT !.nodes[new.p].type = new.m.nodes[p].type]
    IN  IF new.p = NULL THEN new
        ELSE CopyValue(CopyOf(typed, typed.nodes[p].val), p, new.p, recurse)

Duplicate(m, p, recurse) == CopyItem(NewItem(m), p, recurse)
=============================================================================
