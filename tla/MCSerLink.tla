------------------------------ MODULE MCSerLink ------------------------------
(* Instance of SerLink for TLC: the command _send_10 sends, which has no     *)
(* handler, its reply not wanted; an echo of the bytes that begin a frame,   *)
(* whose reply is kept; the discover of the README; and a command that looks *)
(* like a reply.                                                             *)
EXTENDS SerLink, Bitwise

XorTable == [p \in Byte \X Byte |-> p[1] ^^ p[2]]
XorBytes(a, b) == XorTable[<<a, b>>]
MCCommands ==
  {<<16, <<>>, FALSE>>, <<97, <<64, 62>>, TRUE>>, <<0, <<>>, FALSE>>, <<144, <<>>, TRUE>>}
MCNoise    == {64, 62, 6, 7, 128}
=============================================================================
