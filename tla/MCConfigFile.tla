---------------------------- MODULE MCConfigFile ----------------------------
(* Instance of ConfigRoundTrip: trees of a few settings, and every file of a  *)
(* few tokens over one name twice, one kind of number and all punctuation.    *)
EXTENDS ConfigRoundTrip

CONSTANTS a, b

MCValid == {a, b}
Tok(s, v) == [sym |-> s, v |-> v]
MCTokens ==
  {Tok(TOK_NAME, n) : n \in MCValid}
    \cup {Tok(s, 0) : s \in {TOK_EQUALS, TOK_ARRAY_START, TOK_ARRAY_END, TOK_LIST_START, TOK_LIST_END,
                             TOK_COMMA, TOK_GROUP_START, TOK_GROUP_END, TOK_SEMICOLON, TOK_ERROR}}
    \cup {Tok(TOK_INTEGER, 1), Tok(TOK_STRING, 1)}

MCBuildTypes == {"NONE", "GROUP", "ARRAY", "LIST"}
MCElements == {<<"BOOL", 7>>, <<"INT", -3>>, <<"INT64", 100>>, <<"FLOAT", 5>>, <<"STRING", 1>>}
=============================================================================
