----------------------------- MODULE ConfigScan -----------------------------
(***************************************************************************)
(* Reading a configuration with libconfig: config_read_file and            *)
(* config_read_string (libconfig.c), the rules, start conditions and        *)
(* buffers of the scanner (scanner.c), and the stack of included files      *)
(* (scanctx.c).  A file is a sequence of the pieces that the scanner's      *)
(* rules match: a word, a newline, a quote, the two ends of a comment, and   *)
(* the word @include.  The parser is whatever takes tokens: it may reject    *)
(* any of them (ConfigGrammar says which it does).                          *)
(***************************************************************************)
EXTENDS Integers, Sequences, SequencesExt, FiniteSets

CONSTANTS Nil,
          Disk,            \* [directory -> [name -> contents]]; "." is where no
                           \* include directory is set
          Directories,     \* names that fopen opens and that are no files
          Texts,           \* contents for config_read_string
          TopNames,        \* names config_read_file is called with
          MaxDepth,        \* MAX_INCLUDE_DEPTH
          MaxReads         \* bound on the reads of one config_t

Kinds == {"word", "newline", "quote", "open", "close", "include"}
Conditions == {"INITIAL", "COMMENT", "STRING", "INCLUDE"}
IsText(ps) == ps \in Seq(ToSet(ps)) /\ \A i \in DOMAIN ps : ps[i].kind \in Kinds

ASSUME DiskAssumption ==
  /\ "." \in DOMAIN Disk /\ MaxDepth \in Nat /\ MaxReads \in Nat
  /\ \A d \in DOMAIN Disk : \A f \in DOMAIN Disk[d] : IsText(Disk[d][f])
  /\ \A contents \in Texts : IsText(contents)
  /\ Nil \notin Nat \cup TopNames

\* What there is to read, what it consists of, and the tokens.
Files == Texts \cup UNION {{Disk[d][f] : f \in DOMAIN Disk[d]} : d \in DOMAIN Disk}
Pieces == UNION {ToSet(contents) : contents \in Files}
Tokens == [kind : {"NAME", "STRING", "GARBAGE", "ERROR", "EOF"}, v : Seq(Pieces)]

VARIABLES status,     \* "idle", "reading" or "crashed"
          config,     \* the fields of config_t that a read touches
          buffers,    \* the yy_buffer_states allocated
          current,    \* YY_CURRENT_BUFFER
          streams,    \* [stream -> "open" or "closed"], numbered as opened
          stack,      \* scan_context: streams, files and buffers up to depth
          start,      \* the start condition
          text,       \* scan_context.string
          top,        \* what is being read: [stream, name, contents, dir]
          tokens,     \* the tokens returned in this read
          place,      \* the piece that ended the last token: its buffer and position
          fault,      \* something was closed or freed twice
          reads

vars == <<status, config, buffers, current, streams, stack, start, text, top, tokens, place, fault, reads>>

NoError == [type |-> "NONE", file |-> Nil, line |-> 0]

Init ==
  /\ status = "idle" /\ reads = 0 /\ fault = FALSE
  /\ config = [error |-> NoError, filenames |-> <<>>, includeDir |-> "."]
  /\ buffers = <<>> /\ current = Nil /\ streams = <<>> /\ stack = <<>>
  /\ start = "INITIAL" /\ text = <<>> /\ top = [stream |-> Nil, name |-> Nil, contents |-> <<>>, dir |-> "."]
  /\ tokens = <<>> /\ place = [buffer |-> 1, pos |-> 0]

-----------------------------------------------------------------------------
\* Buffers, streams and names

\* yy_create_buffer: a buffer at the first line of its input.
NewBuffer(contents) == [contents |-> contents, pos |-> 1, line |-> 1, live |-> TRUE]

\* fopen
Opened == Append(streams, "open")

\* fclose of several streams, in order, and yy_delete_buffer of several buffers.
CloseTwice(ss) == ~IsInjective(ss) \/ \E i \in DOMAIN ss : streams[ss[i]] = "closed"
\* Mutant: only the innermost file is closed.
CloseInnermost(ss) == [s \in DOMAIN streams |-> IF ss # <<>> /\ s = Head(ss) THEN "closed" ELSE streams[s]]

Close(ss) == [s \in DOMAIN streams |-> IF s \in ToSet(ss) THEN "closed" ELSE streams[s]]
DeleteTwice(bs) == ~IsInjective(bs) \/ \E i \in DOMAIN bs : ~buffers[bs[i]].live
Delete(bs) == [b \in DOMAIN buffers |-> [buffers[b] EXCEPT !.live = @ /\ b \notin ToSet(bs)]]

\* __scanctx_add_filename keeps each name once.
AddFilename(names, f) == IF f \in ToSet(names) THEN names ELSE Append(names, f)

\* scanctx_current_filename
CurrentFile == IF stack = <<>> THEN top.name ELSE Last(stack).file

\* The input of the current buffer.
Contents == buffers[current].contents
Pos == buffers[current].pos
AtEnd == Pos > Len(Contents)
Piece == Contents[Pos]
AtBol == Pos = 1 \/ Contents[Pos - 1].kind = "newline"
Scanning(cond) == status = "reading" /\ start = cond /\ ~AtEnd

-----------------------------------------------------------------------------
\* The start of a read

\* __config_read reinitialises the config_t but for its destructor, include
\* directory, tab width and options.
Begin(stream, name, contents) ==
  /\ config' = [error |-> NoError, filenames |-> IF name = Nil THEN <<>> ELSE <<name>>,
                includeDir |-> config.includeDir]
  /\ buffers' = <<NewBuffer(contents)>> /\ current' = 1
  /\ streams' = IF stream = Nil THEN <<>> ELSE <<"open">>
  /\ stack' = <<>> /\ start' = "INITIAL" /\ text' = <<>>
  /\ top' = [stream |-> stream, name |-> name, contents |-> contents, dir |-> config.includeDir]
  /\ tokens' = <<>> /\ place' = [buffer |-> 1, pos |-> 0]
  /\ status' = "reading"

Reading == reads < MaxReads /\ status = "idle" /\ reads' = reads + 1 /\ UNCHANGED fault

config_read_string ==
  /\ Reading
  /\ \E contents \in Texts : Begin(Nil, Nil, contents)

\* fopen fails: fclose(NULL) ends the program.  A directory opens, and is refused.
config_read_file ==
  /\ Reading
  /\ \E f \in TopNames :
       IF f \in DOMAIN Disk["."] THEN Begin(1, f, Disk["."][f])
       ELSE /\ UNCHANGED <<buffers, current, stack, start, text, tokens, place>>
            /\ top' = [top EXCEPT !.stream = Nil, !.name = f, !.contents = <<>>]
            /\ IF f \in Directories
               THEN /\ streams' = <<"closed">>
                    /\ config' = [config EXCEPT !.error = [@ EXCEPT !.type = "FILE_IO"]]
                    /\ UNCHANGED status
               ELSE status' = "crashed" /\ UNCHANGED <<streams, config>>

\* config_set_include_dir
SetIncludeDir ==
  /\ status = "idle" /\ reads < MaxReads
  /\ \E d \in DOMAIN Disk \ {"."} : config' = [config EXCEPT !.includeDir = d]
  /\ UNCHANGED <<status, buffers, current, streams, stack, start, text, top, tokens, place, fault, reads>>

-----------------------------------------------------------------------------
\* The end of a read

\* __config_read after yyparse: a failed parse unwinds the include stack; the rest
\* is freed by yylex_destroy, scanctx_cleanup and the fclose of config_read_file.
End(ok, failedAt, knownError) ==
  LET unwound == IF ok THEN <<>> ELSE stack
      deleted == [i \in DOMAIN unwound |-> unwound[i].buffer] \o <<failedAt.buffer>>
      closed == [i \in DOMAIN unwound |-> unwound[i].stream]
                  \o [i \in 1 .. Len(stack) - Len(unwound) |-> stack[i].stream]
                  \o (IF top.stream = Nil THEN <<>> ELSE <<top.stream>>)
  IN  /\ fault' = (fault \/ CloseTwice(closed) \/ DeleteTwice(deleted))
      /\ streams' = Close(closed) /\ buffers' = Delete(deleted) /\ current' = Nil
      /\ stack' = SubSeq(stack, 1, Len(stack) - Len(unwound))
      /\ config' = IF ok THEN config
                   ELSE [config EXCEPT !.error = [type |-> "PARSE", file |-> CurrentFile,
                                                  line |-> IF knownError # Nil THEN knownError ELSE failedAt.line]]
      /\ status' = "idle"

\* Mutant: the lines of the outermost file are reported.
HereInTop == [buffer |-> current, line |-> buffers[1].line]

Here == [buffer |-> current, line |-> buffers[current].line]

\* A token is returned; the parser takes it or gives up.
Return(tok, newStart, newText) ==
  /\ tokens' = Append(tokens, tok)
  /\ place' = [buffer |-> current, pos |-> Pos]
  /\ start' = newStart /\ text' = newText
  /\ \/ /\ buffers' = [buffers EXCEPT ![current].pos = @ + 1]
        /\ UNCHANGED <<status, config, current, streams, stack, fault>>
     \/ End(FALSE, Here, Nil)
  /\ UNCHANGED <<top, reads>>

\* A rule that returns nothing.
Skip(n, lines, newStart, newText) ==
  /\ buffers' = [buffers EXCEPT ![current].pos = @ + n, ![current].line = @ + lines]
  /\ start' = newStart /\ text' = newText
  /\ UNCHANGED <<status, config, current, streams, stack, top, tokens, place, fault, reads>>

-----------------------------------------------------------------------------
\* The rules

Initial ==
  /\ Scanning("INITIAL")
  /\ CASE Piece.kind = "word" -> Return([kind |-> "NAME", v |-> <<Piece>>], start, text)
       [] Piece.kind = "newline" -> Skip(1, 1, start, text)
       [] Piece.kind = "quote" -> Skip(1, 0, "STRING", text)
       [] Piece.kind = "open" -> Skip(1, 0, "COMMENT", text)
       [] Piece.kind = "include" /\ AtBol /\ Pos < Len(Contents) /\ Contents[Pos + 1].kind = "quote" ->
            Skip(2, 0, "INCLUDE", text)
       [] OTHER -> Return([kind |-> "GARBAGE", v |-> <<Piece>>], start, text)

Comment ==
  /\ Scanning("COMMENT")
  /\ CASE Piece.kind = "close" -> Skip(1, 0, "INITIAL", text)
       [] Piece.kind = "newline" -> Skip(1, 1, start, text)
       [] OTHER -> Skip(1, 0, start, text)

\* Mutant: the text is not taken out of the scan context.
StringKept ==
  /\ Scanning("STRING")
  /\ CASE Piece.kind = "quote" -> Return([kind |-> "STRING", v |-> text], "INITIAL", text)
       [] Piece.kind = "newline" -> Skip(1, 1, start, Append(text, Piece))
       [] OTHER -> Skip(1, 0, start, Append(text, Piece))

String ==
  /\ Scanning("STRING")
  /\ CASE Piece.kind = "quote" -> Return([kind |-> "STRING", v |-> text], "INITIAL", <<>>)
       [] Piece.kind = "newline" -> Skip(1, 1, start, Append(text, Piece))
       [] OTHER -> Skip(1, 0, start, Append(text, Piece))

IncludePath ==
  /\ Scanning("INCLUDE") /\ Piece.kind # "quote"
  /\ Skip(1, IF Piece.kind = "newline" THEN 1 ELSE 0, start, Append(text, Piece))

\* Rule 20, the quote that ends the path: scanctx_push_include, and the buffer
\* switch.  The path names a file if it is one word.
NamesFile(dir, str) == Len(str) = 1 /\ str[1].kind = "word" /\ str[1].v \in DOMAIN Disk[dir]
Found == NamesFile(config.includeDir, text)
\* A directory is opened like a file, and reading it is a fatal error: exit(2).
\* The empty path is the include directory itself, if one is set, and no name at all
\* if none is.
IsDirectory == \/ text = <<>> /\ config.includeDir # "."
               \/ Len(text) = 1 /\ text[1].kind = "word" /\ text[1].v \in Directories
PushInclude ==
  /\ Scanning("INCLUDE") /\ Piece.kind = "quote"
  /\ IF Len(stack) < MaxDepth /\ Found
     THEN /\ streams' = Opened
          /\ stack' = Append(stack, [stream |-> Len(Opened), file |-> text[1].v, buffer |-> current])
          /\ buffers' = Append([buffers EXCEPT ![current].pos = @ + 1],
                               NewBuffer(Disk[config.includeDir][text[1].v]))
          /\ current' = Len(buffers')
          /\ config' = [config EXCEPT !.filenames = AddFilename(@, text[1].v)]
          /\ start' = "INITIAL" /\ text' = <<>>
          /\ UNCHANGED <<status, top, tokens, place, fault, reads>>
     ELSE IF Len(stack) < MaxDepth /\ IsDirectory
     THEN /\ status' = "crashed"
          /\ UNCHANGED <<config, buffers, current, streams, stack, start, text, top, tokens, place, fault, reads>>
     ELSE \* TOK_ERROR, which no rule of the grammar accepts
          /\ tokens' = Append(tokens, [kind |-> "ERROR", v |-> <<>>])
          /\ place' = [buffer |-> current, pos |-> Pos]
          /\ End(FALSE, Here, buffers[current].line)
          /\ text' = IF Len(stack) = MaxDepth THEN text ELSE <<>>
          /\ UNCHANGED <<start, top, reads>>

\* The end of a file, in every start condition, which stays as it is.
EndOfFile ==
  /\ status = "reading" /\ AtEnd
  /\ IF stack # <<>>
     THEN /\ streams' = Close(<<Last(stack).stream>>)
          /\ buffers' = Delete(<<current>>)
          /\ fault' = (fault \/ CloseTwice(<<Last(stack).stream>>) \/ DeleteTwice(<<current>>))
          /\ current' = Last(stack).buffer /\ stack' = Front(stack)
          /\ UNCHANGED <<status, config, tokens, place>>
     ELSE /\ tokens' = Append(tokens, [kind |-> "EOF", v |-> <<>>])
          /\ place' = [buffer |-> current, pos |-> Pos - 1]
          /\ \E ok \in BOOLEAN : End(ok, Here, Nil)
  /\ UNCHANGED <<start, text, top, reads>>

Next ==
  \/ config_read_string \/ config_read_file \/ SetIncludeDir
  \/ Initial \/ Comment \/ String \/ IncludePath \/ PushInclude \/ EndOfFile

Spec == Init /\ [][Next]_vars
        /\ WF_vars(Initial \/ Comment \/ String \/ IncludePath \/ PushInclude \/ EndOfFile)

-----------------------------------------------------------------------------
\* Properties

\* While a read is under way its files are open, innermost last, and only they: the
\* scanner never reads from a stream or a buffer that is gone.
OpenFilesAreTheStack ==
  status = "reading" =>
    /\ {s \in DOMAIN streams : streams[s] = "open"}
         = {stack[i].stream : i \in DOMAIN stack} \cup ({top.stream} \ {Nil})
    /\ {b \in DOMAIN buffers : buffers[b].live} = {stack[i].buffer : i \in DOMAIN stack} \cup {current}
    /\ Len(stack) <= MaxDepth
    /\ {stack[i].file : i \in DOMAIN stack} \subseteq ToSet(config.filenames)

\* No stream is closed twice and no buffer freed twice, however deep the includes
\* and wherever the parse stops; when a read is over nothing is left open or
\* allocated (libconfig.c:598-613, scanctx.c:78-152, scanner.c:1741-1755, 2279-2311).
NothingLeftOpen ==
  /\ ~fault
  /\ OpenFilesAreTheStack
  /\ status = "idle" => /\ \A s \in DOMAIN streams : streams[s] = "closed"
                        /\ \A b \in DOMAIN buffers : ~buffers[b].live

\* Inclusion without buffers: what is left to read is one text, where the text of a
\* file stands in the place of the directive.  Back marks its end, which is not the
\* beginning of a line.
Back == [kind |-> "back", v |-> Nil]
Unread(dir, pieces) ==
  [dir |-> dir, pieces |-> pieces, bol |-> TRUE, cond |-> "INITIAL", str |-> <<>>, out |-> <<>>]
Unreads == [dir : DOMAIN Disk, pieces : Seq(Pieces \cup {Back}), bol : BOOLEAN, cond : Conditions,
            str : Seq(Pieces), out : Seq(Tokens)]

Go(r, c, str, out) ==
  [dir |-> r.dir, pieces |-> Tail(r.pieces), bol |-> Head(r.pieces).kind = "newline",
   cond |-> c, str |-> str, out |-> out]
TokenFrom(r, kind, v, str) == Go(r, "INITIAL", str, Append(r.out, [kind |-> kind, v |-> v]))

ConsumeInitial(r) ==
  LET p == Head(r.pieces)
      rest == Tail(r.pieces)
  IN  CASE p.kind = "word" -> TokenFrom(r, "NAME", <<p>>, r.str)
        [] p.kind = "newline" -> Go(r, "INITIAL", r.str, r.out)
        [] p.kind = "quote" -> Go(r, "STRING", r.str, r.out)
        [] p.kind = "open" -> Go(r, "COMMENT", r.str, r.out)
        [] p.kind = "include" /\ r.bol /\ rest # <<>> /\ rest[1].kind = "quote" ->
             [Go(r, "INCLUDE", r.str, r.out) EXCEPT !.pieces = Tail(rest)]
        [] OTHER -> TokenFrom(r, "GARBAGE", <<p>>, r.str)

\* A directive whose file is missing is an error, after which nothing is read.
ConsumeDirective(r) ==
  IF NamesFile(r.dir, r.str)
  THEN [Unread(r.dir, Disk[r.dir][r.str[1].v] \o <<Back>> \o Tail(r.pieces)) EXCEPT !.out = r.out]
  ELSE [TokenFrom(r, "ERROR", <<>>, r.str) EXCEPT !.pieces = <<>>]

Consume(r) ==
  LET p == Head(r.pieces)
  IN  CASE p = Back -> Go(r, r.cond, r.str, r.out)
        [] p # Back /\ r.cond = "INITIAL" -> ConsumeInitial(r)
        [] p # Back /\ r.cond = "COMMENT" ->
             Go(r, IF p.kind = "close" THEN "INITIAL" ELSE "COMMENT", r.str, r.out)
        [] p # Back /\ r.cond \in {"STRING", "INCLUDE"} /\ p.kind # "quote" ->
             Go(r, r.cond, Append(r.str, p), r.out)
        [] p # Back /\ r.cond = "STRING" /\ p.kind = "quote" -> TokenFrom(r, "STRING", r.str, <<>>)
        [] p # Back /\ r.cond = "INCLUDE" /\ p.kind = "quote" -> ConsumeDirective(r)

\* The tokens of a text.
Lex[r \in Unreads] == IF r.pieces = <<>> THEN r.out ELSE Lex[Consume(r)]

WithEOF(out) == Append(out, [kind |-> "EOF", v |-> <<>>])
ReadToTheEnd == status = "idle" /\ reads > 0 /\ config.error.type = "NONE" /\ tokens # <<>>

\* A file read to its end gives the tokens of its text with every directive replaced
\* by the file it names: after an include the scanner resumes exactly behind the
\* directive, whatever it was in the middle of (scanner.c:1067-1090, 1204-1220,
\* 1666-1705).
IncludeIsTextual == ReadToTheEnd => tokens = WithEOF(Lex[Unread(top.dir, top.contents)])

\* A failed read reports where the token ended that failed: the line is that of
\* its piece, counted from the beginning of the text it stands in, and the file is
\* one with that text, although the line is kept with each buffer across the files
\* included in between, and the name is only looked up after the parse; a later
\* read starts without it (libconfig.c:563-604, grammar.c:114-120, scanner.c:1067-1090,
\* scanctx.c:165-168).
LineAt(contents, pos) == 1 + Cardinality({i \in 1 .. pos : contents[i].kind = "newline"})
HasText(file, contents) ==
  \/ file = top.name /\ contents = top.contents
  \/ file \in DOMAIN Disk[top.dir] /\ contents = Disk[top.dir][file]
ErrorIsInPlace ==
  /\ status = "idle" /\ config.error.type = "PARSE" =>
       LET contents == buffers[place.buffer].contents
       IN  /\ config.error.line = LineAt(contents, place.pos)
           /\ HasText(config.error.file, contents)
  /\ status = "reading" => config.error = NoError /\ IsInjective(config.filenames)

\* "Read the file. If there is an error, report it and exit." (main.c:16): a read
\* that cannot open its file comes back with an error.
MissingFileIsReported == status # "crashed"

\* Every read comes to an end, a file that includes itself too, and then all it
\* opened is closed and all it allocated is freed, each once.  Only the attempt to
\* include a directory ends the program instead (scanner.c:770-799).
ReadsEndClean ==
  status = "reading" ~> status = "crashed" \/ (status = "idle" /\ NothingLeftOpen)
=============================================================================
