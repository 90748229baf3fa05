------------------------------- MODULE Texts --------------------------------
(* The C strings that pi_strmap.c stores, as sequences of characters: only  *)
(* their length, the blanks at their ends and the comma of a list matter.   *)
EXTENDS Integers, Sequences, FiniteSetsExt

CONSTANT Letters    \* the characters that are neither a blank nor a comma

Blank == " "
Comma == ","
Chars == Letters \cup {Blank, Comma}
Text == Seq(Chars)

\* trim_whitespace(): the text between its first and its last solid character.
Solid(text) == {i \in 1 .. Len(text) : text[i] /= Blank}

Trim(text) ==
  IF Solid(text) = {} THEN << >>
  ELSE SubSeq(text, Min(Solid(text)), Max(Solid(text)))

\* asprintf("%s, %s"): one more entry of a comma delimited list.
Listed(old, new) == old \o <<Comma, Blank>> \o new
=============================================================================
