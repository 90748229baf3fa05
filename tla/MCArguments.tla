----------------------------- MODULE MCArguments ----------------------------
(***************************************************************************)
(* Arguments for TLC: a small machine and a choice of arguments.           *)
(***************************************************************************)
EXTENDS Arguments

Long(o, v)  == [opt |-> o, short |-> FALSE, value |-> v]
Short(o, v) == [opt |-> o, short |-> TRUE, value |-> v]

\* LongMax is 7: 9 is out of its range, and a negative number and a word count.
MCItems ==
  {Long("run", v) : v \in {<<0>>, <<9>>, <<Dash, 3>>, Absent}}
    \cup {Short("run", v) : v \in {<<5>>, Absent}}
    \cup {Long("sleep", <<4>>), Long("gpio", <<7>>), Long("port", <<Dash, 1>>)}
    \cup {Long("daemon", True), Short("random", True), Long("random", <<1>>)}
    \cup {Long("up_time", v) : v \in {<<2, Dash, 4>>, <<Dash, 0, Dash, 3, Dash, 5>>, <<6>>, <<>>}}
    \cup {Long("help", Absent), Long("word", Absent), Long("--", Absent)}

MCDefault == [run |-> 5, sleep |-> 6, gpio |-> 3, port |-> 3, daemon |-> FALSE, random |-> FALSE,
              start |-> 1, end |-> 2]
=============================================================================
