----------------------------- MODULE HttpRequest ----------------------------
(***************************************************************************)
(* What the debug server makes of the text of a request                    *)
(* (pi_timer_server.c).  A text is a sequence of tokens: a token is a      *)
(* character the code looks for, or a run of characters that it compares   *)
(* as a whole, such as "GET" (in any case) or the "health" of "/health".   *)
(* No token begins another, so that a prefix of the text is a prefix of    *)
(* the tokens.                                                             *)
(***************************************************************************)
EXTENDS Integers, Sequences

CONSTANT Token

ASSUME TokenAssumption ==
  {"CR", "LF", "SP", "TAB", ":", "?", "/", "GET", "health", "buildInfo"} \subseteq Token

Text     == Seq(Token)
LineEnds == {"CR", "LF"}
Blanks   == {"SP", "TAB"}
PathEnds == Blanks \cup {"?"}

Answers == {"health", "buildInfo", "monitor", "notFound"}

StartsWith(text, prefix) == /\ Len(prefix) <= Len(text)
                            /\ \A i \in 1 .. Len(prefix) : text[i] = prefix[i]

\* The first position from i on with a token of C, or the end of the text.
IsFind(text, i, C, j) == /\ \A k \in i .. (j - 1) : text[k] \notin C
                         /\ j <= Len(text) => text[j] \in C
Find(text, i, C) == CHOOSE j \in i .. (Len(text) + 1) : IsFind(text, i, C, j)

-----------------------------------------------------------------------------
PathOneBlankMut(line) == LET space == Find(line, 1, Blanks)
                             to    == IF space < Len(line) THEN Find(line, space + 1, PathEnds) ELSE space + 1
                         IN  SubSeq(line, space + 1, to - 1)
\* http_parse_path(): past the method, past the blanks, up to a blank or "?".
Path(line) == LET space == Find(line, 1, Blanks)
                  from  == Find(line, space, Token \ Blanks)
                  to    == Find(line, from, PathEnds)
              IN  SubSeq(line, from, to - 1)

\* http_output_response(): the paths are compared as prefixes, in this order.
PageOf(path) ==
  CASE StartsWith(path, <<"/", "health">>)    -> "health"
    [] StartsWith(path, <<"/", "buildInfo">>) -> "buildInfo"
    [] /\ StartsWith(path, <<"/">>)
       /\ ~StartsWith(path, <<"/", "health">>)
       /\ ~StartsWith(path, <<"/", "buildInfo">>) -> "monitor"
    [] ~StartsWith(path, <<"/">>)             -> "notFound"

\* Only http_get is served; http_map_string_to_method() compares prefixes.
Response(line) == IF StartsWith(line, <<"GET">>) THEN PageOf(Path(line)) ELSE "notFound"

-----------------------------------------------------------------------------
\* clean_string(): cut at the last line feed, then at the last carriage
\* return, then drop one leading space.
CutAtLast(text, c) ==
  LET at == {i \in 1 .. Len(text) : text[i] = c}
  IN  IF at = {} THEN text
      ELSE SubSeq(text, 1, (CHOOSE i \in at : \A j \in at : j <= i) - 1)

CleanSpaceOnlyMut(text) == IF StartsWith(text, <<"SP">>) THEN Tail(text) ELSE text
Clean(text) == LET cut == CutAtLast(CutAtLast(text, "LF"), "CR")
               IN  IF StartsWith(cut, <<"SP">>) THEN Tail(cut) ELSE cut

\* parse_headers(): a header line is split at its first ":".
Key(line)   == Clean(SubSeq(line, 1, Find(line, 1, {":"}) - 1))
Value(line) == Clean(SubSeq(line, Find(line, 1, {":"}) + 1, Len(line)))
=============================================================================
