--------------------------- MODULE ConfigRoundTrip ---------------------------
(***************************************************************************)
(* config_write followed by config_read: a program builds a tree with the  *)
(* calls of libconfig.c, writes it, and the parser of ConfigGrammar reads  *)
(* the tokens written.  Or the file is not the program's: any tokens may   *)
(* come.  Characters, indentation and line breaks are left out: the writer *)
(* is modelled by the tokens that the scanner finds in its output.         *)
(***************************************************************************)
EXTENDS ConfigGrammar

CONSTANTS Tokens,      \* the tokens another's file may hold
          MaxTokens,   \* bound on the length of such a file
          MaxSettings, \* bound on the tree that is written
          BuildTypes,  \* types config_setting_add is used with
          Elements,    \* pairs <<kind, value>> the program stores
          Semicolons,  \* CONFIG_OPTION_SEMICOLON_SEPARATORS
          DefaultHex   \* config_t.default_format = CONFIG_FORMAT_HEX

VARIABLES source,      \* the tree to be written
          written      \* its text, Nil while the program still builds it, or Foreign

\* A file of someone else; what the library writes has an end at least.
Foreign == <<>>

rtVars == <<vars, source, written>>

Token(sym, v) == <<[sym |-> sym, v |-> v]>>
\* Mutant: the setting's own format is not looked at.
HexByDefault(h, s) == DefaultHex

Hex(h, s) == h[s].hex \/ DefaultHex

\* An integer written with %X is its two's complement; strtoul and fromhex read it
\* back into the same width.
ThroughHex(bits, v) == LET u == v % 2^bits IN IF u < 2^(bits - 1) THEN u ELSE u - 2^bits

RECURSIVE WriteValue(_, _), WriteSetting(_, _)

\* The members of a group, in braces unless it is the root.
WriteGroup(h, s) ==
  LET members == FoldLeft(LAMBDA out, x : out \o WriteSetting(h, x), <<>>, h[s].kids)
  IN  IF s = Root THEN members ELSE Token(TOK_GROUP_START, 0) \o members \o Token(TOK_GROUP_END, 0)

\* The elements of a vector, with commas between them.
WriteElements(h, s) ==
  FoldLeft(LAMBDA out, x : out \o (IF out = <<>> THEN <<>> ELSE Token(TOK_COMMA, 0)) \o WriteValue(h, x),
           <<>>, h[s].kids)

\* __config_write_value
WriteValue(h, s) ==
  LET v == h[s].val
  IN  CASE h[s].type = "BOOL" -> Token(TOK_BOOLEAN, IF v # 0 THEN 1 ELSE 0)
        [] h[s].type = "INT" -> IF Hex(h, s) THEN Token(TOK_HEX, ThroughHex(IntBits, v))
                                ELSE Token(TOK_INTEGER, v)
        [] h[s].type = "INT64" -> IF Hex(h, s) THEN Token(TOK_HEX64, ThroughHex(LongBits, v))
                                  ELSE Token(TOK_INTEGER64, v)
        [] h[s].type = "FLOAT" -> Token(TOK_FLOAT, v)
        [] h[s].type = "STRING" -> Token(TOK_STRING, v)
        [] h[s].type = "LIST" -> Token(TOK_LIST_START, 0) \o WriteElements(h, s) \o Token(TOK_LIST_END, 0)
        [] h[s].type = "ARRAY" -> Token(TOK_ARRAY_START, 0) \o WriteElements(h, s) \o Token(TOK_ARRAY_END, 0)
        [] h[s].type = "GROUP" -> WriteGroup(h, s)
        [] OTHER -> Token(TOK_GARBAGE, 0) \o Token(TOK_GARBAGE, 0) \o Token(TOK_GARBAGE, 0)

\* __config_write_setting
WriteSetting(h, s) ==
  (IF h[s].name # Nil THEN Token(TOK_NAME, h[s].name) \o Token(TOK_EQUALS, 0) ELSE <<>>)
    \o WriteValue(h, s)
    \o (IF s # Root /\ Semicolons THEN Token(TOK_SEMICOLON, 0) ELSE <<>>)

-----------------------------------------------------------------------------
RTInit == Init /\ source = InitialHeap /\ written \in {Nil, Foreign}

Build ==
  /\ written = Nil /\ Cardinality(DOMAIN source) < MaxSettings
  /\ \/ \E p \in DOMAIN source, n \in ValidNames, t \in BuildTypes :
          source' = AddSetting(source, p, n, t)[1]
     \/ \E s \in DOMAIN source, in \in Elements :
          \/ source' = SetScalar(source, FALSE, s, in[1], in[2])[1]
          \/ source' = SetElem(source, FALSE, s, -1, in[1], in[2])[1]
     \/ \E s \in DOMAIN source : source' = SetFormat(source, s, TRUE)[1]
  /\ UNCHANGED <<vars, written>>

config_write ==
  /\ written = Nil
  /\ written' = WriteSetting(source, Root) \o Token(TOK_EOF, 0)
  /\ UNCHANGED <<vars, source>>

\* What the scanner finds next in the file.
NextToken ==
  IF written = Foreign
  THEN {t \in Tokens : Len(read) < MaxTokens} \cup {[sym |-> TOK_EOF, v |-> 0]}
  ELSE {written[i] : i \in {Len(read) + 1} \cap DOMAIN written}

config_read ==
  /\ written # Nil
  /\ Parse \/ \E t \in NextToken : yylex(t)
  /\ UNCHANGED <<source, written>>

RTNext == Build \/ config_write \/ config_read
RTSpec == RTInit /\ [][RTNext]_rtVars /\ WF_rtVars(config_read)

-----------------------------------------------------------------------------
\* What a file can hold: settings with a type, and arrays of scalars of one type.
Storable(h) ==
  \A s \in DOMAIN h :
    /\ h[s].type # "NONE"
    /\ h[s].type = "ARRAY" => \A i \in DOMAIN h[s].kids :
         h[h[s].kids[i]].type \in Types \ Aggregates /\ h[h[s].kids[i]].type = h[Head(h[s].kids)].type

RECURSIVE Shape(_, _, _)
Shape(h, s, hex) ==
  [type |-> h[s].type, name |-> h[s].name,
   val |-> IF h[s].type = "BOOL" /\ h[s].val # 0 THEN 1 ELSE h[s].val,
   hex |-> h[s].type \in {"INT", "INT64"} /\ (h[s].hex \/ hex),
   kids |-> [i \in DOMAIN h[s].kids |-> Shape(h, h[s].kids[i], hex)]]

\* A tree that a file can hold survives being written and read: same settings, in
\* the same order, same values (a bool: same truth), same formats.  Every other
\* one is refused when it is read, not read as something else; so is one nested
\* deeper than the stack, or than there is memory for (libconfig.c:173-397,
\* 636-670, grammar.c:1206-1217).
ComesBack ==
  /\ result # "exhausted" => (result = "accept" <=> Storable(source))
  /\ result = "accept" => Shape(heap, Root, FALSE) = Shape(source, Root, DefaultHex)

\* Reading any file comes to an end, and a written one comes back: reductions
\* cannot go round in circles, nor errors be tried again (grammar.c:1671-1803).
SurvivesTheFile ==
  written # Nil ~> result # "running" /\ (written # Foreign => ComesBack)
=============================================================================
