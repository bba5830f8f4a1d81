---------------------------- MODULE ConfigGrammar ----------------------------
(***************************************************************************)
(* yyparse of libconfig (linux/linux_libconfig/grammar.c): the automaton   *)
(* with the tables that bison generated, its growing stack, and the actions *)
(* of the grammar, which build the tree of ConfigHeap.  ConfigRoundTrip    *)
(* gives it the tokens.                                                    *)
(*                                                                         *)
(* A token is a record [sym, v]: its number in yytokentype, and its value. *)
(* States, rules and symbols have the numbers of the C file.               *)
(***************************************************************************)
EXTENDS ConfigHeap, TLC

CONSTANTS YYINITDEPTH, YYMAXDEPTH

ASSUME DepthAssumption == /\ {YYINITDEPTH, YYMAXDEPTH} \subseteq Nat
                          /\ 2 <= YYINITDEPTH /\ YYINITDEPTH <= YYMAXDEPTH

VARIABLES heap,      \* the tree under config_t.root
          parent, setting, \* parse_context
          pieces,    \* parse_context.string: the pieces appended so far
          stack,     \* yyss, the bottom first
          vals,      \* yyvs: the tokens whose values lie on the value stack
          size,      \* yystacksize
          look,      \* yychar and yylval, or Nil for YYEMPTY
          lexeme,    \* yytext of the scanner: the last token it returned
          read,      \* all tokens returned so far
          leaked,    \* strings of the scanner that nobody will free
          error,     \* config_t.error_text
          result     \* what yyparse returned, or "running"

vars == <<heap, parent, setting, pieces, stack, vals, size, look, lexeme, read, leaked, error, result>>

-----------------------------------------------------------------------------
\* Token numbers and the tables

TOK_EOF == 0
TOK_BOOLEAN == 258
TOK_INTEGER == 259
TOK_HEX == 260
TOK_INTEGER64 == 261
TOK_HEX64 == 262
TOK_FLOAT == 263
TOK_STRING == 264
TOK_NAME == 265
TOK_EQUALS == 266
TOK_ARRAY_START == 268
TOK_ARRAY_END == 269
TOK_LIST_START == 270
TOK_LIST_END == 271
TOK_COMMA == 272
TOK_GROUP_START == 273
TOK_GROUP_END == 274
TOK_SEMICOLON == 275
TOK_GARBAGE == 276
TOK_ERROR == 277

\* The symbol of a token; what is no token is symbol 2, which no rule mentions.
YYTRANSLATE(tok) == IF tok = TOK_EOF THEN 0 ELSE IF tok \in 256 .. TOK_ERROR THEN tok - 255 ELSE 2

YYFINAL == 6
YYLAST == 35
YYNTOKENS == 23
NINF == -26

yypact ==
  <<-8, NINF, 12, -8, NINF, 5, NINF, NINF, 0, NINF, NINF, NINF, NINF, NINF, NINF, NINF, NINF, NINF,
    NINF, NINF, NINF, -6, 10, NINF, NINF, 23, 0, -8, NINF, NINF, NINF, NINF, NINF, 3, 7, NINF, 6, 8,
    -8, 14, 23, NINF, 0, NINF, NINF, NINF, NINF>>
yydefact ==
  <<2, 11, 0, 3, 4, 0, 1, 5, 0, 23, 24, 26, 25, 27, 28, 21, 13, 15, 38, 18, 19, 8, 29, 17, 20, 36,
    32, 6, 10, 9, 12, 22, 34, 37, 0, 30, 33, 0, 7, 0, 0, 14, 0, 16, 39, 35, 31>>
yypgoto ==
  <<NINF, NINF, -5, NINF, NINF, -3, NINF, NINF, NINF, NINF, NINF, -25, NINF, -15, NINF, NINF, NINF,
    NINF, NINF, NINF>>
yydefgoto == <<-1, 2, 3, 39, 30, 4, 5, 19, 25, 20, 26, 21, 22, 23, 36, 37, 33, 34, 24, 27>>
yytable ==
  <<7, 35, 1, 9, 10, 11, 12, 13, 14, 15, 32, 28, 6, 16, 29, 17, 8, 46, 18, 31, 40, 41, 38, 42, 43,
    45, 9, 10, 11, 12, 13, 14, 15, 44, 0, 7>>
yycheck ==
  <<3, 26, 10, 3, 4, 5, 6, 7, 8, 9, 25, 17, 0, 13, 20, 15, 11, 42, 18, 9, 17, 14, 27, 17, 16, 40, 3,
    4, 5, 6, 7, 8, 9, 19, -1, 38>>
yyr1 ==
  <<23, 24, 24, 25, 25, 26, 26, 27, 27, 27, 29, 28, 31, 30, 33, 32, 34, 34, 34, 34, 35, 35, 36, 36,
    36, 36, 36, 36, 36, 37, 37, 38, 38, 39, 39, 40, 40, 42, 41>>
yyr2 ==
  <<2, 0, 1, 1, 2, 0, 1, 0, 1, 1, 0, 5, 0, 4, 0, 4, 1, 1, 1, 1, 1, 2, 1, 1, 1, 1, 1, 1, 1, 1, 3, 0, 1,
    1, 3, 0, 1, 0, 4>>

\* C arrays count from 0.  Rule 0 does not exist, so that yyr1 and yyr2 start at 1.
At(array, i) == array[i + 1]
Checked(i, sym) == i \in 0 .. YYLAST /\ At(yycheck, i) = sym

State == Last(stack)
NeedsNoToken(s) == At(yypact, s) = NINF
\* Mutant: yycheck is not compared.
HasEntryUnchecked(s, tok) == ~NeedsNoToken(s) /\ At(yypact, s) + YYTRANSLATE(tok) \in 0 .. YYLAST

HasEntry(s, tok) ==
  ~NeedsNoToken(s) /\ Checked(At(yypact, s) + YYTRANSLATE(tok), YYTRANSLATE(tok))
Goto(s, rule) ==
  LET nt == yyr1[rule] - YYNTOKENS
      i == At(yypgoto, nt) + s
  IN  IF Checked(i, s) THEN At(yytable, i) ELSE At(yydefgoto, nt)

-----------------------------------------------------------------------------
Init ==
  /\ heap = InitialHeap /\ parent = Root /\ setting = Nil /\ pieces = <<>>
  /\ stack = <<0>> /\ vals = <<>> /\ size = YYINITDEPTH
  /\ look = Nil /\ lexeme = Nil /\ read = <<>> /\ leaked = {}
  /\ error = "none" /\ result = "running"

\* libconfig_yyerror keeps the first error.
yyerror(text) == error' = IF error = "none" THEN text ELSE error

Exhausted == yyerror("memory exhausted") /\ result' = "exhausted"
Entered(st) == result' = (IF Last(st) = YYFINAL THEN "accept" ELSE "running") /\ UNCHANGED error

\* yynewstate: the state pushed must leave room for one more; the stack doubles
\* up to YYMAXDEPTH, if there is memory for it: its new size is kept either way.
\* The final state accepts.
NewState(st) ==
  /\ stack' = st
  /\ IF Len(st) < size THEN UNCHANGED size /\ Entered(st)
     ELSE IF YYMAXDEPTH <= size THEN UNCHANGED size /\ Exhausted
     ELSE /\ size' = Min({2 * size, YYMAXDEPTH})
          /\ \/ IF Len(st) >= size' THEN result' = "abort" /\ UNCHANGED error ELSE Entered(st)
             \/ Exhausted

\* yylex returns t.
yylex(t) ==
  /\ result = "running" /\ ~NeedsNoToken(State) /\ look = Nil
  /\ look' = t /\ lexeme' = t /\ read' = Append(read, t)
  \* the scanner has already reported what it returns TOK_ERROR for
  /\ IF t.sym = TOK_ERROR THEN yyerror("scanner") ELSE UNCHANGED error
  /\ UNCHANGED <<heap, parent, setting, pieces, stack, vals, size, leaked, result>>

Shift ==
  /\ result = "running" /\ look # Nil /\ HasEntry(State, look.sym)
  /\ NewState(Append(stack, At(yytable, At(yypact, State) + YYTRANSLATE(look.sym))))
  /\ vals' = Append(vals, look)
  /\ look' = Nil
  /\ UNCHANGED <<heap, parent, setting, pieces, lexeme, read, leaked>>

\* yyerrlab: no rule of the grammar mentions the error token, so that every state
\* is popped and the parse ends.  yydestruct frees nothing: a string that is
\* still the lookahead is lost.
SyntaxError ==
  /\ result = "running" /\ look # Nil
  /\ ~HasEntry(State, look.sym) /\ At(yydefact, State) = 0
  /\ yyerror("syntax error")
  /\ result' = "abort" /\ stack' = <<0>> /\ vals' = <<>>
  /\ leaked' = leaked \cup (IF look.sym = TOK_STRING THEN {Len(read)} ELSE {})
  /\ UNCHANGED <<heap, parent, setting, pieces, size, look, lexeme, read>>

-----------------------------------------------------------------------------
\* Reductions

\* IN_ARRAY() || IN_LIST()
InVector == parent # Nil /\ heap[parent].type \in Vectors
InList == parent # Nil /\ heap[parent].type = "LIST"

Reducing(rule) ==
  /\ result = "running"
  /\ At(yydefact, State) = rule
  /\ NeedsNoToken(State) \/ (look # Nil /\ ~HasEntry(State, look.sym))

\* The stacks after the reduction; $$ is $1, or garbage for an empty rule.
Reduced(rule) ==
  LET n == yyr2[rule]
      st == SubSeq(stack, 1, Len(stack) - n)
  IN  /\ NewState(Append(st, Goto(Last(st), rule)))
      /\ vals' = SubSeq(vals, 1, Len(vals) - n)
                   \o <<IF n = 0 THEN [sym |-> TOK_GARBAGE, v |-> 0] ELSE vals[Len(vals) - n + 1]>>
  /\ UNCHANGED <<look, lexeme, read, leaked>>

Abort(text) ==
  /\ yyerror(text)
  /\ result' = "abort" /\ stack' = <<0>> /\ vals' = <<>>
  /\ leaked' = leaked \cup (IF look # Nil /\ look.sym = TOK_STRING THEN {Len(read)} ELSE {})
  /\ UNCHANGED <<size, look, lexeme, read>>

\* Mutant: the new setting is not kept in the parse context.
StartSettingForgets ==
  /\ Reducing(11)
  /\ LET res == AddSetting(heap, parent, lexeme.v, "NONE")
     IN  heap' = res[1] /\ IF res[2] = Nil THEN Abort("duplicate setting name") ELSE Reduced(11)
  /\ UNCHANGED <<parent, setting, pieces>>

\* Rule 11, the start of a setting.  Its name is read through the pointer that the
\* scanner put into yylval: its yytext, which the next token overwrites.
StartSetting ==
  /\ Reducing(11)
  /\ LET res == AddSetting(heap, parent, lexeme.v, "NONE")
     IN  /\ heap' = res[1] /\ setting' = res[2]
         /\ IF res[2] = Nil THEN Abort("duplicate setting name") ELSE Reduced(11)
  /\ UNCHANGED <<parent, pieces>>

\* Rules 13, 15 and 38: the start of an array, a list or a group.
Opens == (13 :> "ARRAY") @@ (15 :> "LIST") @@ (38 :> "GROUP")
OpenAggregate(rule) ==
  /\ Reducing(rule)
  /\ IF InList
     THEN LET res == AddSetting(heap, parent, Nil, Opens[rule])
          IN  heap' = res[1] /\ parent' = res[2] /\ UNCHANGED setting
     ELSE heap' = [heap EXCEPT ![setting].type = Opens[rule]] /\ parent' = setting /\ setting' = Nil
  /\ Reduced(rule)
  /\ UNCHANGED pieces

\* Rules 14, 16 and 39
CloseAggregate(rule) ==
  /\ Reducing(rule)
  /\ parent' = IF parent = Nil THEN Nil ELSE heap[parent].parent
  /\ Reduced(rule)
  /\ UNCHANGED <<heap, setting, pieces>>

\* Rules 21 and 22: the piece is copied and the scanner's string freed.
AppendString(rule) ==
  /\ Reducing(rule)
  /\ pieces' = Append(pieces, Last(vals).v)
  /\ Reduced(rule)
  /\ UNCHANGED <<heap, parent, setting>>

\* Rules 23 to 29: a scalar, an element of the open vector or the value of the
\* setting.  Hexadecimal integers keep their format.
Scalars == [r \in 23 .. 29 |-> <<"BOOL", "INT", "INT64", "INT", "INT64", "FLOAT", "STRING">>[r - 22]]
Joined(ps) == FoldLeft(LAMBDA acc, p : 10 * acc + p, 0, ps)
StoreScalar(rule) ==
  LET kind == Scalars[rule]
      v == IF rule = 29 THEN Joined(pieces) ELSE Last(vals).v
      elem == SetElem(heap, FALSE, parent, -1, kind, v)
      set == SetScalar(heap, FALSE, setting, kind, v)
      formatted(h, s) == IF rule \in 24 .. 27 THEN SetFormat(h, s, rule \in {26, 27})[1] ELSE h
  IN  /\ Reducing(rule)
      /\ pieces' = IF rule = 29 THEN <<>> ELSE pieces
      /\ IF InVector
         THEN IF elem[2] = Nil
              THEN heap' = heap /\ Abort("mismatched element type in array")
              ELSE heap' = formatted(elem[1], elem[2]) /\ Reduced(rule)
         ELSE heap' = formatted(set[1], setting) /\ Reduced(rule)
      /\ UNCHANGED <<parent, setting>>

\* The other rules only rearrange the stacks.
ReduceOnly ==
  /\ \E rule \in (1 .. 39) \ ({11, 13, 14, 15, 16, 21, 22, 38, 39} \cup 23 .. 29) :
       Reducing(rule) /\ Reduced(rule)
  /\ UNCHANGED <<heap, parent, setting, pieces>>

\* What yyparse does between two tokens.
Parse ==
  \/ Shift \/ SyntaxError \/ StartSetting \/ ReduceOnly
  \/ \E rule \in {13, 15, 38} : OpenAggregate(rule)
  \/ \E rule \in {14, 16, 39} : CloseAggregate(rule)
  \/ \E rule \in {21, 22} : AppendString(rule)
  \/ \E rule \in 23 .. 29 : StoreScalar(rule)

-----------------------------------------------------------------------------
\* Properties

\* The language of configuration files, said without tables: what is open, and
\* what may come next.
Wrong == [open |-> <<>>, next |-> "wrong"]
Step(at, sym) ==
  LET inside == IF at.open = <<>> THEN "file" ELSE Last(at.open)
      go(next) == [at EXCEPT !.next = next]
      push(a, next) == [open |-> Append(at.open, a), next |-> next]
      pop == [open |-> Front(at.open), next |-> "after"]
      simple == sym \in TOK_BOOLEAN .. TOK_FLOAT
      wantsValue == at.next \in {"value", "first"}
      closes == (TOK_ARRAY_END :> "ARRAY") @@ (TOK_LIST_END :> "LIST") @@ (TOK_GROUP_END :> "GROUP")
  IN  CASE sym = TOK_NAME /\ at.next \in {"name", "after", "string"} /\ inside \in {"file", "GROUP"} -> go("equals")
        [] sym = TOK_EQUALS /\ at.next = "equals" -> go("value")
        [] simple /\ wantsValue -> go("after")
        [] sym = TOK_STRING /\ (wantsValue \/ at.next = "string") -> go("string")
        [] sym = TOK_ARRAY_START /\ wantsValue /\ inside # "ARRAY" -> push("ARRAY", "first")
        [] sym = TOK_LIST_START /\ wantsValue /\ inside # "ARRAY" -> push("LIST", "first")
        [] sym = TOK_GROUP_START /\ wantsValue /\ inside # "ARRAY" -> push("GROUP", "name")
        [] sym = TOK_COMMA /\ at.next \in {"after", "string"} ->
             go(IF inside \in Vectors THEN "value" ELSE "name")
        [] sym = TOK_SEMICOLON /\ at.next \in {"after", "string"} /\ inside \in {"file", "GROUP"} -> go("name")
        [] sym \in DOMAIN closes /\ inside = closes[sym] /\ at.next \notin {"value", "equals"} -> pop
        [] sym = TOK_EOF /\ inside = "file" /\ at.next \in {"name", "after", "string"} -> go("end")
        [] OTHER -> Wrong
Recognised(ts) == FoldLeft(LAMBDA at, t : Step(at, t.sym), [open |-> <<>>, next |-> "name"], ts)

\* The tables parse the language and nothing else: a parse goes on or succeeds
\* only on the beginning of a configuration, and reports a syntax error only at
\* a token that cannot come there (grammar.c:574-655, 1246-1306, 1671-1803).
ParsesTheLanguage ==
  /\ result = "accept" <=> Recognised(read).next = "end" /\ State = YYFINAL
  /\ error = "syntax error" => Recognised(read).next = "wrong" /\ Recognised(Front(read)).next # "wrong"
  /\ result = "running" /\ look = Nil => Recognised(read).next # "wrong"

\* Whenever the next token is read, ctx->parent is the innermost aggregate that is
\* open, and those around it are open too, in order: the mid-rule actions and the
\* closing ones are never skipped nor done late (grammar.c:1358-1410, 1603-1628).
ParentFollowsNesting ==
  result = "running" /\ look = Nil /\ ~NeedsNoToken(State) =>
    LET chain[n \in 0 .. Len(stack)] ==
          IF n = 0 THEN parent
          ELSE IF chain[n - 1] = Nil THEN Nil ELSE heap[chain[n - 1]].parent
        open == Recognised(read).open
    IN  /\ chain[Len(open)] = Root
        /\ \A n \in 1 .. Len(open) : heap[chain[Len(open) - n]].type = open[n]

\* A setting gets the name that stands in the file, not the text of a token read
\* since: yytext is still the name's when rule 11 is reduced, because state 1
\* reduces without a lookahead (scanner.c:1136, grammar.c:1340-1356).
NameStillInPlace == Reducing(11) => lexeme = Last(vals)

\* ctx->setting is there whenever an action stores into it: outside vectors, a
\* value follows the setting it belongs to, whatever was closed in between.
SettingAwaitsItsValue ==
  \A rule \in {13, 15, 38} \cup 23 .. 29 :
    Reducing(rule) /\ ~(IF rule \in 23 .. 29 THEN InVector ELSE InList) =>
      setting \in DOMAIN heap /\ heap[setting].type = "NONE"

\* The actions keep the promises of the tree at every step: one list for each
\* setting, one type for each array, no name twice in a group.
TreeIsSound ==
  /\ Below(heap, Root) = DOMAIN heap
  /\ \A s \in DOMAIN heap :
       /\ \A i \in DOMAIN heap[s].kids : heap[heap[s].kids[i]].parent = s
       /\ heap[s].type = "ARRAY" =>
            \A i, j \in DOMAIN heap[s].kids : heap[heap[s].kids[i]].type = heap[heap[s].kids[j]].type
       /\ heap[s].type = "GROUP" =>
            \A i, j \in DOMAIN heap[s].kids : i # j => heap[heap[s].kids[i]].name # heap[heap[s].kids[j]].name

\* An accepted file has given every setting its value and has put every string
\* away; only a failed parse loses a string (grammar.c:1069-1083, 1412-1601).
AcceptedIsComplete ==
  result = "accept" =>
    /\ parent = Root /\ pieces = <<>> /\ leaked = {}
    /\ \A s \in DOMAIN heap : heap[s].type # "NONE"

\* The stack is never written beyond its end, and only YYMAXDEPTH stops it, or
\* memory that is refused when it grows.
StackWithinMemory ==
  /\ Len(stack) <= size /\ size <= YYMAXDEPTH
  /\ Len(stack) = YYMAXDEPTH => result = "exhausted"
  /\ result = "exhausted" => Len(stack) \in {YYMAXDEPTH} \cup (size + 1) \div 2 .. size - 1

\* Why the actions fit the parse: the context they share names the right settings
\* at every step, and what they build and push stays sound.
ActionsFitTheParse ==
  /\ ParentFollowsNesting /\ NameStillInPlace /\ SettingAwaitsItsValue
  /\ TreeIsSound /\ AcceptedIsComplete /\ StackWithinMemory
=============================================================================
