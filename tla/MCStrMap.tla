------------------------------ MODULE MCStrMap ------------------------------
(* Three keys in two buckets, two of them colliding, and values that are    *)
(* empty, blank, padded and of different lengths.                           *)
EXTENDS StrMap

MCKeys == {"host", "accept", "cookie"}
MCHash == [k \in MCKeys |-> IF k = "host" THEN 1 ELSE IF k = "accept" THEN 2 ELSE 3]
MCLetters == {"a", "b"}
MCInputs == {<<Blank>>, <<"a">>, <<Blank, "b">>}
=============================================================================
