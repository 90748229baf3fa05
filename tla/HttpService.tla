----------------------------- MODULE HttpService ----------------------------
(***************************************************************************)
(* What the debug server promises its clients: it takes them in the order  *)
(* in which they call, one at a time, and gives each one the answer its    *)
(* first line asks for, once.  No buffers and no bytes in flight.          *)
(***************************************************************************)
EXTENDS HttpRequest

CONSTANTS Clients, Scripts, Nobody

VARIABLES
  script,   \* script[c]: the text client c means to send
  waiting,  \* the clients that wait for the server, in order
  called,   \* the clients that have called so far
  gone,     \* the clients that stopped sending
  serving,  \* the client being served
  answer    \* answer[c]: what c was sent, or "none"

vars == <<script, waiting, called, gone, serving, answer>>

Init ==
  /\ script \in [Clients -> Scripts]
  /\ waiting = <<>> /\ called = {} /\ gone = {} /\ serving = Nobody
  /\ answer = [c \in Clients |-> "none"]

\* The first line of text is its first n tokens, or more by its end.
FirstLineEnds(text, n) == /\ \A i \in 1 .. n : text[i] \notin LineEnds
                          /\ n < Len(text) => text[n + 1] \in LineEnds

\* The path is what follows the first blanks of the line, up to a blank or "?".
PathIs(line, space, from, to) == /\ space <= from /\ from <= to
                                 /\ IsFind(line, 1, Blanks, space)
                                 /\ IsFind(line, space, Token \ Blanks, from)
                                 /\ IsFind(line, from, PathEnds, to)

Deserves(line, a) ==
  IF StartsWith(line, <<"GET">>)
  THEN \E space, from, to \in 1 .. (Len(line) + 1) :
         PathIs(line, space, from, to) /\ a = PageOf(SubSeq(line, from, to - 1))
  ELSE a = "notFound"

HasLine(text) == \E i \in 1 .. Len(text) : text[i] \in LineEnds

-----------------------------------------------------------------------------
Call(c) == /\ c \notin called
           /\ called' = called \cup {c}
           /\ waiting' = Append(waiting, c)
           /\ UNCHANGED <<script, gone, serving, answer>>

HangUp(c) == /\ gone' = gone \cup {c}
             /\ UNCHANGED <<script, waiting, called, serving, answer>>

Take == /\ serving = Nobody /\ waiting /= <<>>
        /\ serving' = Head(waiting) /\ waiting' = Tail(waiting)
        /\ UNCHANGED <<script, called, gone, answer>>

\* The answer is the one that what the server has seen asks for: a whole line,
\* unless the client has gone.
Reply == /\ serving /= Nobody /\ answer[serving] = "none"
         /\ \E n \in 0 .. Len(script[serving]), a \in Answers :
              LET seen == SubSeq(script[serving], 1, n)
              IN  /\ HasLine(seen) \/ serving \in gone
                  /\ \E m \in 0 .. n : FirstLineEnds(seen, m) /\ Deserves(SubSeq(seen, 1, m), a)
                  /\ answer' = [answer EXCEPT ![serving] = a]
         /\ UNCHANGED <<script, waiting, called, gone, serving>>

Release == /\ serving /= Nobody /\ answer[serving] /= "none"
           /\ serving' = Nobody /\ gone' = gone \cup {serving}
           /\ UNCHANGED <<script, waiting, called, answer>>

\* The service ends: who still waits is turned away.
Close == /\ serving = Nobody
         /\ waiting' = <<>>
         /\ UNCHANGED <<script, called, gone, serving, answer>>

Next == \/ \E c \in Clients : Call(c) \/ HangUp(c)
        \/ Take \/ Reply \/ Release \/ Close

Spec == Init /\ [][Next]_vars
=============================================================================
