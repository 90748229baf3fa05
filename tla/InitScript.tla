------------------------------ MODULE InitScript ----------------------------
(***************************************************************************)
(* The init script (pitimer.sh) and the processes it starts and kills      *)
(* (main.c, fork_process()).  A call of the script takes one listing of    *)
(* the processes named pi-timer, and then acts on it: start launches a     *)
(* timer if the list is empty, stop kills what is in it.  Nothing keeps    *)
(* two calls apart, and stop does not wait for the processes to end.       *)
(*                                                                         *)
(* at[c] is where call c of the script stands:                             *)
(*   new    - not made yet            list   - about to list the processes *)
(*   decide - the list is in listed[c]  kill - killing them one by one     *)
(*   wait   - for the process it launched to return                        *)
(*   done   - exit 0                                                       *)
(* proc[p] is what process p is doing:                                     *)
(*   none     - there is no process p yet                                  *)
(*   parent   - launched; it has not called fork() yet                     *)
(*   leaving  - fork() is done and its exit(0) is next                     *)
(*   child    - the daemon, its signal handlers not installed yet          *)
(*   timer    - the daemon in its loop                                     *)
(*   dying    - the daemon, its main thread in signal_shutdown()           *)
(*   dead                                                                  *)
(* faulted is the timers whose debug thread is in a signal handler of its  *)
(* own and has turned the pin off there; the main thread goes on until     *)
(* that handler has called exit().                                         *)
(***************************************************************************)
EXTENDS Integers, FiniteSets

CONSTANTS
  Calls,       \* calls of the script
  Procs,       \* bound: the processes there may ever be
  MaxFaults,   \* bound: the timers a signal of their debug thread may end
  MayFail,     \* fork() and setsid() may fail, a timer may crash
  NoProc

ASSUME ScriptAssumption == NoProc \notin Procs /\ MayFail \in BOOLEAN /\ MaxFaults \in Nat

VARIABLES
  at, cmd, listed, launched,
  proc,
  faulted,
  on,         \* the timers that have set the pin high and not low again
  level,      \* the level of the pin they share
  overlapped, \* a call was made while another was under way
  failed      \* something failed so far

scriptVars == <<at, cmd, listed, launched>>
boardVars  == <<on, level>>
procVars   == <<proc, faulted>>
vars == <<scriptVars, procVars, boardVars, overlapped, failed>>

Phases == {"none", "parent", "leaving", "child", "timer", "dying", "dead"}
Listed == {"parent", "leaving", "child", "timer", "dying"}
Active == {"list", "decide", "kill", "wait"}

TypeOK ==
  /\ at \in [Calls -> Active \cup {"new", "done"}]
  /\ cmd \in [Calls -> {"start", "stop"}]
  /\ listed \in [Calls -> SUBSET Procs]
  /\ launched \in [Calls -> Procs \cup {NoProc}]
  /\ \A c \in Calls : at[c] = "kill" => listed[c] /= {}
  /\ proc \in [Procs -> Phases]
  /\ faulted \subseteq Procs
  /\ on \subseteq Procs
  /\ level \in {"LOW", "HIGH"}
  /\ overlapped \in BOOLEAN /\ failed \in BOOLEAN

Init ==
  /\ at = [c \in Calls |-> "new"]
  /\ cmd \in [Calls -> {"start", "stop"}]
  /\ listed = [c \in Calls |-> {}]
  /\ launched = [c \in Calls |-> NoProc]
  /\ proc = [p \in Procs |-> "none"]
  /\ faulted = {} /\ on = {} /\ level = "LOW"
  /\ overlapped = FALSE /\ failed = FALSE

-----------------------------------------------------------------------------
(***************************************************************************)
(* The script.                                                             *)
(***************************************************************************)
Trans(c, from, to) == at[c] = from /\ at' = [at EXCEPT ![c] = to]

Call(c) == /\ Trans(c, "new", "list")
           /\ overlapped' = (overlapped \/ \E d \in Calls : at[d] \in Active)
           /\ UNCHANGED <<cmd, listed, launched, procVars, boardVars, failed>>

ListTimersMut(c) ==
  /\ Trans(c, "list", "decide")
  /\ listed' = [listed EXCEPT ![c] = {p \in Procs : proc[p] = "timer"}]
  /\ UNCHANGED <<cmd, launched, procVars, boardVars, overlapped, failed>>
\* ps -e | grep pi-timer
List(c) == /\ Trans(c, "list", "decide")
           /\ listed' = [listed EXCEPT ![c] = {p \in Procs : proc[p] \in Listed}]
           /\ UNCHANGED <<cmd, launched, procVars, boardVars, overlapped, failed>>

LaunchAnywayMut(c) ==
  /\ cmd[c] = "start"
  /\ Trans(c, "decide", "wait")
  /\ \E p \in Procs : /\ proc[p] = "none"
                      /\ proc' = [proc EXCEPT ![p] = "parent"]
                      /\ launched' = [launched EXCEPT ![c] = p]
  /\ UNCHANGED <<cmd, listed, faulted, boardVars, overlapped, failed>>
\* start with an empty list: /bin/bash -c becomes the pi-timer process.
Launch(c) == /\ cmd[c] = "start" /\ listed[c] = {}
             /\ Trans(c, "decide", "wait")
             /\ \E p \in Procs : /\ proc[p] = "none"
                                 /\ proc' = [proc EXCEPT ![p] = "parent"]
                                 /\ launched' = [launched EXCEPT ![c] = p]
             /\ UNCHANGED <<cmd, listed, faulted, boardVars, overlapped, failed>>

ReturnAtOnceMut(c) ==
  /\ Trans(c, "wait", "done")
  /\ UNCHANGED <<cmd, listed, launched, procVars, boardVars, overlapped, failed>>
Return(c) == /\ Trans(c, "wait", "done")
             /\ proc[launched[c]] = "dead"
             /\ UNCHANGED <<cmd, listed, launched, procVars, boardVars, overlapped, failed>>

\* "pi-timer is already running", or "pi-timer is not running"
Refuse(c) == /\ (cmd[c] = "start") = (listed[c] /= {})
             /\ Trans(c, "decide", "done")
             /\ UNCHANGED <<cmd, listed, launched, procVars, boardVars, overlapped, failed>>

BeginKillUncheckedMut(c) ==
  /\ cmd[c] = "stop"
  /\ Trans(c, "decide", "kill")
  /\ UNCHANGED <<cmd, listed, launched, procVars, boardVars, overlapped, failed>>
BeginKill(c) == /\ cmd[c] = "stop" /\ listed[c] /= {}
                /\ Trans(c, "decide", "kill")
                /\ UNCHANGED <<cmd, listed, launched, procVars, boardVars, overlapped, failed>>

\* kill sends SIGTERM to one process after another: it ends one that has no
\* handlers, and one that is gone is passed over.  Linux gives it to the main
\* thread, unless a handler is there already.
After(phase) == CASE phase \in {"parent", "leaving", "child"} -> "dead"
                  [] phase = "timer"                          -> "dying"
                  [] OTHER                                    -> phase

Kill(c) == /\ at[c] = "kill"
           /\ \E p \in listed[c] :
                /\ proc' = [proc EXCEPT ![p] = After(@)]
                /\ listed' = [listed EXCEPT ![c] = @ \ {p}]
                /\ at' = [at EXCEPT ![c] = IF listed[c] = {p} THEN "done" ELSE "kill"]
           /\ UNCHANGED <<cmd, launched, faulted, boardVars, overlapped, failed>>

-----------------------------------------------------------------------------
(***************************************************************************)
(* The processes.                                                          *)
(***************************************************************************)
Turn(p, from, to) == proc[p] = from /\ proc' = [proc EXCEPT ![p] = to]
NotTheScripts == UNCHANGED <<scriptVars, overlapped>>
NothingElse   == UNCHANGED <<scriptVars, overlapped, faulted>>

Fork(p) == /\ proc[p] = "parent"
           /\ \E q \in Procs : /\ proc[q] = "none"
                               /\ proc' = [proc EXCEPT ![p] = "leaving", ![q] = "child"]
           /\ NothingElse /\ UNCHANGED <<boardVars, failed>>

Leave(p) == Turn(p, "leaving", "dead") /\ NothingElse /\ UNCHANGED <<boardVars, failed>>

\* pi_timer_process_setup(), the set-up of the pin and the first pi_timer_stop().
SetUp(p) == /\ Turn(p, "child", "timer")
            /\ level' = "LOW"
            /\ NothingElse /\ UNCHANGED <<on, failed>>

\* fork() or setsid() fails, or the timer is ended by what it has no handler for.
Fail(p) == /\ MayFail
           /\ \E phase \in {"parent", "child", "timer"} : Turn(p, phase, "dead")
           /\ failed' = TRUE
           /\ on' = on \ {p}
           /\ NothingElse /\ UNCHANGED level

\* pi_timer_start() and pi_timer_stop() of the loop.
SwitchOn(p) == /\ proc[p] = "timer" /\ p \notin on
               /\ on' = on \cup {p} /\ level' = "HIGH"
               /\ NothingElse /\ UNCHANGED <<proc, failed>>

SwitchOff(p) == /\ proc[p] = "timer" /\ p \in on
                /\ on' = on \ {p} /\ level' = "LOW"
                /\ NothingElse /\ UNCHANGED <<proc, failed>>

ExitAsIsMut(p) == /\ Turn(p, "dying", "dead")
                  /\ on' = on \ {p}
                  /\ NothingElse /\ UNCHANGED <<level, failed>>
\* signal_shutdown() turns the pin off and exits; its thread is the one that
\* would turn the pin on.
Exit(p) == /\ Turn(p, "dying", "dead")
           /\ on' = on \ {p} /\ level' = "LOW"
           /\ NothingElse /\ UNCHANGED failed

\* SIGPIPE, or SIGSEGV, on the debug thread: the handler turns the pin off, and
\* the loop may turn it on again before the handler calls exit().
DebugFault(p) == /\ proc[p] \in {"timer", "dying"} /\ p \notin faulted
                 /\ Cardinality(faulted) < MaxFaults
                 /\ faulted' = faulted \cup {p}
                 /\ on' = on \ {p} /\ level' = "LOW"
                 /\ NotTheScripts /\ UNCHANGED <<proc, failed>>

FaultExit(p) == /\ p \in faulted
                /\ \E phase \in {"timer", "dying"} : Turn(p, phase, "dead")
                /\ on' = on \ {p}
                /\ NothingElse /\ UNCHANGED <<level, failed>>

Script(c)  == List(c) \/ Launch(c) \/ Return(c) \/ Refuse(c) \/ BeginKill(c) \/ Kill(c)
Process(p) == Fork(p) \/ Leave(p) \/ SetUp(p) \/ Exit(p)
Loop(p)    == SwitchOn(p) \/ SwitchOff(p)
Faults(p)  == Fail(p) \/ DebugFault(p) \/ FaultExit(p)

Next == \/ \E c \in Calls : Call(c) \/ Script(c)
        \/ \E p \in Procs : Process(p) \/ Loop(p) \/ Faults(p)

Spec == Init /\ [][Next]_vars

-----------------------------------------------------------------------------
\* No process failed, and none was ended by a signal of its debug thread.
Undisturbed == ~failed /\ faulted = {}

Drives(p) == proc[p] \in {"child", "timer", "dying"}

\* As long as calls of the script do not overlap there is never a second timer:
\* start launches nothing while the list shows one, even one that is ending, and
\* returns only when the list shows its own.
OneTimer == ~overlapped => \A p, q \in Procs : Drives(p) /\ Drives(q) => p = q

\* One timer has the pin to itself: while it is in its run, the pin is high.
PinFollowsTimer ==
  ~overlapped => \A p \in on : level = "HIGH"

\* When no timer is left the pin is low, whatever calls overlapped, unless one
\* ended without its handler or by a handler on its debug thread.  Such a handler
\* (signal_SIGPIPE(), main.c:156) does not stop the loop, which may turn the pin
\* on between the handler's pi_timer_stop() and its exit().
LowWithoutTimer ==
  Undisturbed /\ (\A p \in Procs : proc[p] \in {"none", "dead"}) => level = "LOW"

Ends(c, what) == at[c] \in Active /\ at'[c] = "done" /\ cmd[c] = what

\* When a stop that overlapped no other call returns, every timer has been told
\* to end.
StopReachesAll ==
  [][\A c \in Calls : Ends(c, "stop") /\ ~overlapped =>
       \A p \in Procs : proc'[p] \in {"none", "dying", "dead"}]_vars

\* When a start that overlapped no other call returns, and no process failed or was
\* ended by its debug thread, a timer runs - or the one that was listed as "already
\* running" was about to end, and none will run.
StartLeavesOne ==
  [][\A c \in Calls : Ends(c, "start") /\ ~overlapped /\ Undisturbed =>
       \/ \E p \in Procs : proc[p] \in {"child", "timer"}
       \/ \E p \in listed[c] : proc[p] \in {"dying", "dead"}]_vars
=============================================================================
