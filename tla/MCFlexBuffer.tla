---------------------------- MODULE MCFlexBuffer ----------------------------
(* Inputs for FlexBuffer: every short text over letters that make the scanner *)
(* back up, start comments and strings, and include a file; every form of     *)
(* number that the library writes.                                            *)
EXTENDS FlexBuffer

\* 1 . e - / * newline NUL
NumberLetters == {<<17>>, <<14>>, <<39>>, <<13>>, <<15>>, <<10>>, <<3>>, <<0>>}
\* @include " (one piece), f, ", backslash, newline, #
IncludePieces == {<<21, 41, 43, 37, 42, 46, 38, 39, 2, 6>>, <<26>>, <<6>>, <<34>>, <<3>>, <<7>>}
\* /* newline */ f newline "
MCIncluded == <<15, 10, 3, 10, 15, 26, 3, 6, 3>>

\* Printed numbers: sign, digits, L; 0x, hexadecimal digits, L; %g with its ".0".
Digits == {<<16>>, <<17>>, <<17, 16>>, <<17, 17, 17>>}
HexDigits == {<<16>>, <<23>>, <<25, 17>>, <<17, 24, 22>>}
Signed(ds) == ds \cup {<<13>> \o d : d \in ds}
Exponents == {<<39, s, 16, 17>> : s \in {11, 13}}
Floats == {i \o <<14>> \o f : i \in Digits, f \in Digits}
            \cup {i \o e : i \in Digits, e \in Exponents}
            \cup {i \o <<14>> \o f \o e : i \in Digits, f \in Digits, e \in Exponents}
MCWritten ==
  {[text |-> d, rule |-> 31] : d \in Signed(Digits)}
    \cup {[text |-> d \o <<27>>, rule |-> 32] : d \in Signed(Digits)}
    \cup {[text |-> <<16, 32>> \o d, rule |-> 33] : d \in HexDigits}
    \cup {[text |-> <<16, 32>> \o d \o <<27>>, rule |-> 34] : d \in HexDigits}
    \cup {[text |-> f, rule |-> 30] : f \in Signed(Floats)}
Concatenated(fragments, max) == {FlattenSeq(fs) : fs \in BoundedSeq(fragments, max)}
MCTexts == Concatenated(NumberLetters, 4) \cup Concatenated(IncludePieces, 3) \cup {w.text : w \in MCWritten}
=============================================================================
