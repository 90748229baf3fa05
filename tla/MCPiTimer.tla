------------------------------ MODULE MCPiTimer -----------------------------
(***************************************************************************)
(* Small instances of the timer for TLC; the cfg files give the values.    *)
(***************************************************************************)
EXTENDS PiTimerProperties, PiTimerFan
=============================================================================
