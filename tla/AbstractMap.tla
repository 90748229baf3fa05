---------------------------- MODULE AbstractMap -----------------------------
(* What pi_strmap.h promises of puts and adds: a map from keys to values,   *)
(* where either takes effect as a whole and returns true or leaves the map  *)
(* as it was and returns false.  How memory is found is not visible here,   *)
(* and what pi_strmap_enum() returns is left open.                          *)
EXTENDS Texts

CONSTANTS Keys, Inputs

VARIABLES
  live,       \* pi_strmap_new() gave a map that is not deleted yet
  table,      \* the value of every key that has one
  asked,      \* the association the call under way is to make, if any
  result      \* what the last call returned

vars == <<live, table, asked, result>>

Empty == [k \in {} |-> << >>]

Init ==
  /\ live = FALSE
  /\ table = Empty
  /\ asked = {}
  /\ result = TRUE

Create ==
  /\ ~live
  /\ live' = TRUE
  /\ UNCHANGED <<table, asked, result>>

Delete ==
  /\ live /\ asked = {}
  /\ live' = FALSE
  /\ table' = Empty
  /\ UNCHANGED <<asked, result>>

Ask(k, v) ==
  /\ live /\ asked = {}
  /\ asked' = {[key |-> k, value |-> v]}
  /\ UNCHANGED <<live, table, result>>

\* An add appends to the list of its key.
AskAdd(k, v) ==
  /\ Trim(v) /= << >>
  /\ Ask(k, IF k \in DOMAIN table THEN Listed(table[k], Trim(v)) ELSE v)

\* Nothing to add is a success; no map, or no memory at once, is a failure; an
\* enumeration may answer either.
Answer(r) ==
  /\ asked = {}
  /\ result' = r
  /\ UNCHANGED <<live, table, asked>>

Succeed ==
  \E a \in asked :
    /\ table' = [k \in DOMAIN table \cup {a.key} |->
                   IF k = a.key THEN a.value ELSE table[k]]
    /\ asked' = {}
    /\ result' = TRUE
    /\ UNCHANGED live

Fail ==
  /\ asked /= {}
  /\ asked' = {}
  /\ result' = FALSE
  /\ UNCHANGED <<live, table>>

Next ==
  \/ Create
  \/ Delete
  \/ \E k \in Keys, v \in Inputs : Ask(k, v) \/ AskAdd(k, v)
  \/ Answer(TRUE)
  \/ Answer(FALSE)
  \/ Succeed
  \/ Fail

Spec == Init /\ [][Next]_vars
=============================================================================
