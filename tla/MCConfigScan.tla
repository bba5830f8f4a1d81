---------------------------- MODULE MCConfigScan ----------------------------
(* Small disks for ConfigScan: nested, repeated, endless, missing and unfinished includes. *)
EXTENDS ConfigScan

Word(x) == [kind |-> "word", v |-> x]
Mark(k) == [kind |-> k, v |-> Nil]
NL == <<Mark("newline")>>
Include(f) == <<Mark("include"), Mark("quote"), Word(f), Mark("quote")>>
Str(ps) == <<Mark("quote")>> \o ps \o <<Mark("quote")>>

Main == <<Word("x")>> \o NL \o Include("sub") \o <<Word("y")>> \o NL \o Include("sub") \o NL \o <<Word("z")>>
Sub == NL \o Include("leaf") \o Str(<<Word("s")>> \o NL) \o <<Mark("include")>>
Leaf == <<Word("l"), Mark("open"), Word("c")>> \o NL \o <<Mark("close")>>

MCDisk ==
  [d \in {".", "etc"} |->
     IF d = "."
     THEN [main |-> Main, sub |-> Sub, leaf |-> Leaf,
           loop |-> NL \o Include("loop"),
           lost |-> Include("nothing"),
           wide |-> Include("open") \o NL \o <<Word("w"), Mark("close")>> \o NL \o Include("leaf") \o <<Word("v")>>,
           open |-> <<Word("o"), Mark("open")>>,
           odd |-> NL \o Include("dir"),
           part |-> Include("cut") \o NL \o <<Word("leaf"), Mark("quote")>>,
           cut |-> <<Mark("include"), Mark("quote")>>,
           join |-> Include("cut") \o <<Word("leaf"), Mark("quote"), Word("j")>>]
     ELSE [sub |-> <<Word("other")>>, leaf |-> NL \o NL]]

MCDirectories == {"dir"}
Nameless == <<Mark("include"), Mark("quote"), Mark("quote")>>
MCTexts == {<<>>, Include("sub"), Nameless, Str(<<Mark("open")>> \o NL) \o NL \o Str(<<Word("t")>>), NL \o <<Mark("quote"), Word("u")>>}
MCTopNames == {"main", "loop", "lost", "wide", "part", "join", "cut", "odd", "dir"}
MissingTopNames == {"main", "nothing"}
=============================================================================
