---------------------------- MODULE MCInitScript ----------------------------
(***************************************************************************)
(* InitScript for TLC.  Calls and processes are alike.                     *)
(***************************************************************************)
EXTENDS InitScript, TLC

Symmetry == Permutations(Calls) \cup Permutations(Procs)
=============================================================================
