----------------------------- MODULE MCPiString -----------------------------
(* Strings that fit, that need one doubling and that need several.          *)
EXTENDS PiString

MCLetters == {"a", "b"}
MCStrings == {<< >>, <<"a">>, <<"b", "a", "b">>, [i \in 1 .. 9 |-> "a"]}
MCSizes == {0, 5}
=============================================================================
