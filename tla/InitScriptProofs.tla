--------------------------- MODULE InitScriptProofs -------------------------
(***************************************************************************)
(* Proofs about the init script, for any number of calls and processes.    *)
(***************************************************************************)
EXTENDS InitScript, TLAPS

\* The pin is set high by timers and low again by them, unless one
\* fails or is ended by its debug thread.
PinInv == /\ \A p \in on : proc[p] \in {"timer", "dying"}
          /\ Undisturbed /\ level = "HIGH" => \E p \in Procs : proc[p] \in {"timer", "dying"}

WhatWaits == \A c \in Calls : /\ at[c] = "wait" => cmd[c] = "start"
                              /\ at[c] = "kill" => cmd[c] = "stop"

\* While calls do not overlap: one call at a time, and what it knows is true.
OneCall == \A c, d \in Calls : at[c] \in Active /\ at[d] \in Active => c = d

ParentAwaited == \A p \in Procs : proc[p] \in {"parent", "leaving"} =>
                   \E c \in Calls : at[c] = "wait" /\ launched[c] = p

Alone == \A p, q \in Procs : /\ Drives(p) /\ Drives(q) => p = q
                             /\ proc[p] = "parent" => ~Drives(q)

ListKnown ==
  \A c \in Calls :
    /\ at[c] = "decide" => \A p \in Procs :
         /\ proc[p] \in Listed => p \in listed[c]
         /\ p \in listed[c] => proc[p] \in {"child", "timer", "dying", "dead"}
    /\ at[c] = "kill" => \A p \in Procs : proc[p] \in Listed \ {"dying"} => p \in listed[c]

LaunchKnown ==
  \A c \in Calls : at[c] = "wait" =>
    /\ launched[c] \in Procs
    /\ Undisturbed => proc[launched[c]] = "parent" \/ \E q \in Procs : proc[q] \in {"child", "timer"}

Serial == OneCall /\ ParentAwaited /\ Alone /\ ListKnown /\ LaunchKnown

ScriptInv == TypeOK /\ PinInv /\ WhatWaits /\ PinFollowsTimer /\ (~overlapped => Serial)

-----------------------------------------------------------------------------
LEMMA ScriptInit == Init => ScriptInv
<1> SUFFICES ASSUME Init PROVE ScriptInv
  OBVIOUS
<1>1. TypeOK
  BY DEF Init, TypeOK, Phases, Active
<1>2. PinInv /\ WhatWaits /\ PinFollowsTimer
  BY DEF Init, PinInv, WhatWaits, PinFollowsTimer
<1>3. Serial
  BY DEF Init, Serial, OneCall, ParentAwaited, Alone, ListKnown, LaunchKnown, Drives, Listed, Active
<1>4. QED
  BY <1>1, <1>2, <1>3 DEF ScriptInv

\* Types.
LEMMA TypeStep == ASSUME TypeOK, [Next]_vars PROVE TypeOK'
<1> USE DEF TypeOK, scriptVars, procVars, boardVars, Active, Trans, Turn, NotTheScripts, NothingElse
<1>1. ASSUME NEW c \in Calls, Call(c)  PROVE TypeOK'
  BY <1>1 DEF Call
<1>2. ASSUME NEW c \in Calls, List(c)  PROVE TypeOK'
  BY <1>2 DEF List
<1>3. ASSUME NEW c \in Calls, Launch(c)  PROVE TypeOK'
  BY <1>3 DEF Launch, Phases
<1>4. ASSUME NEW c \in Calls, Return(c)  PROVE TypeOK'
  BY <1>4 DEF Return
<1>5. ASSUME NEW c \in Calls, Refuse(c)  PROVE TypeOK'
  BY <1>5 DEF Refuse
<1>6. ASSUME NEW c \in Calls, BeginKill(c)  PROVE TypeOK'
  BY <1>6 DEF BeginKill
<1>7. ASSUME NEW c \in Calls, Kill(c)  PROVE TypeOK'
  BY <1>7 DEF Kill, After, Phases
<1>8. ASSUME NEW p \in Procs, Fork(p)  PROVE TypeOK'
  BY <1>8 DEF Fork, Phases
<1>9. ASSUME NEW p \in Procs, Leave(p)  PROVE TypeOK'
  BY <1>9 DEF Leave, Phases
<1>10. ASSUME NEW p \in Procs, SetUp(p)  PROVE TypeOK'
  BY <1>10 DEF SetUp, Phases
<1>11. ASSUME NEW p \in Procs, Faults(p)  PROVE TypeOK'
  BY <1>11 DEF Faults, Fail, DebugFault, FaultExit, Phases
<1>12. ASSUME NEW p \in Procs, Loop(p)  PROVE TypeOK'
  BY <1>12 DEF Loop, SwitchOn, SwitchOff
<1>13. ASSUME NEW p \in Procs, Exit(p)  PROVE TypeOK'
  BY <1>13 DEF Exit, Phases
<1>14. CASE UNCHANGED vars
  BY <1>14 DEF vars
<1>15. QED
  BY <1>1, <1>2, <1>3, <1>4, <1>5, <1>6, <1>7, <1>8, <1>9, <1>10, <1>11, <1>12, <1>13, <1>14
  DEF Next, Script, Process

-----------------------------------------------------------------------------
(* The steps of the script.                                                 *)

LEMMA CallStep == ASSUME ScriptInv, NEW c \in Calls, Call(c) PROVE ScriptInv'
<1>1. TypeOK /\ TypeOK'
  BY TypeStep DEF ScriptInv, Next, Faults
<1>2. /\ at[c] = "new" /\ at' = [at EXCEPT ![c] = "list"]
      /\ ~overlapped' => ~overlapped /\ \A d \in Calls : at[d] \notin Active
      /\ UNCHANGED <<cmd, listed, launched, proc, on, level, Undisturbed>>
  BY DEF Call, Trans, procVars, boardVars, Undisturbed
<1>3. \A d \in Calls : at'[d] = IF d = c THEN "list" ELSE at[d]
  BY <1>1, <1>2 DEF TypeOK
<1>4. PinInv' /\ PinFollowsTimer'
  BY <1>2 DEF ScriptInv, PinInv, PinFollowsTimer
<1>5. WhatWaits'
  BY <1>2, <1>3 DEF ScriptInv, WhatWaits
<1>6. ~overlapped' => Serial'
  <2> SUFFICES ASSUME ~overlapped' PROVE Serial'
    OBVIOUS
  <2>1. Serial
    BY <1>2 DEF ScriptInv
  <2>2. OneCall'
    BY <1>2, <1>3 DEF OneCall
  <2>3. ParentAwaited'
    BY <1>2, <1>3, <2>1 DEF Serial, ParentAwaited
  <2>4. Alone' /\ ListKnown' /\ LaunchKnown'
    BY <1>2, <1>3, <2>1 DEF Serial, Alone, Drives, ListKnown, LaunchKnown
  <2>5. QED
    BY <2>2, <2>3, <2>4 DEF Serial
<1>7. QED
  BY <1>1, <1>4, <1>5, <1>6 DEF ScriptInv

\* The call that lists is the only one, so no parent is on its way.
LEMMA ListStep == ASSUME ScriptInv, NEW c \in Calls, List(c) PROVE ScriptInv'
<1>1. TypeOK /\ TypeOK'
  BY TypeStep DEF ScriptInv, Next, Script
<1>2. /\ at[c] = "list" /\ at' = [at EXCEPT ![c] = "decide"]
      /\ listed' = [listed EXCEPT ![c] = {p \in Procs : proc[p] \in Listed}]
      /\ UNCHANGED <<cmd, launched, proc, on, level, overlapped, Undisturbed>>
  BY DEF List, Trans, procVars, boardVars, Undisturbed
<1>3. \A d \in Calls : /\ at'[d] = IF d = c THEN "decide" ELSE at[d]
                       /\ listed'[d] = IF d = c THEN {p \in Procs : proc[p] \in Listed} ELSE listed[d]
  BY <1>1, <1>2 DEF TypeOK
<1>4. PinInv' /\ PinFollowsTimer' /\ WhatWaits'
  BY <1>2, <1>3 DEF ScriptInv, PinInv, PinFollowsTimer, WhatWaits
<1>5. ~overlapped' => Serial'
  <2> SUFFICES ASSUME ~overlapped' PROVE Serial'
    OBVIOUS
  <2>1. Serial
    BY <1>2 DEF ScriptInv
  <2>2. OneCall'
    BY <1>2, <1>3, <2>1 DEF Serial, OneCall, Active
  <2>3. ParentAwaited'
    BY <1>2, <1>3, <2>1 DEF Serial, ParentAwaited
  <2>4. \A p \in Procs : proc[p] \notin {"parent", "leaving"}
    BY <1>2, <2>1 DEF Serial, ParentAwaited, OneCall, Active
  <2>5. ListKnown'
    <3>1. \A p \in Procs : p \in listed'[c] <=> proc[p] \in Listed
      BY <1>3
    <3>2. \A p \in Procs : p \in listed'[c] => proc[p] \in {"child", "timer", "dying", "dead"}
      BY <2>4, <3>1 DEF Listed
    <3>3. \A d \in Calls : d /= c => at'[d] = at[d] /\ listed'[d] = listed[d]
      BY <1>3
    <3>4. at'[c] = "decide" /\ proc' = proc
      BY <1>2, <1>3
    <3> QED
      BY <2>1, <3>1, <3>2, <3>3, <3>4 DEF Serial, ListKnown
  <2>6. Alone' /\ LaunchKnown'
    BY <1>2, <1>3, <2>1 DEF Serial, Alone, Drives, LaunchKnown
  <2>7. QED
    BY <2>2, <2>3, <2>5, <2>6 DEF Serial
<1>6. QED
  BY <1>1, <1>4, <1>5 DEF ScriptInv

LEMMA LaunchStep == ASSUME ScriptInv, NEW c \in Calls, Launch(c) PROVE ScriptInv'
<1>1. TypeOK /\ TypeOK'
  BY TypeStep DEF ScriptInv, Next, Script
<1>2. PICK p \in Procs : /\ proc[p] = "none"
                         /\ proc' = [proc EXCEPT ![p] = "parent"]
                         /\ launched' = [launched EXCEPT ![c] = p]
  BY DEF Launch
<1>3. /\ at[c] = "decide" /\ at' = [at EXCEPT ![c] = "wait"]
      /\ cmd[c] = "start" /\ listed[c] = {}
      /\ UNCHANGED <<cmd, listed, on, level, overlapped, Undisturbed>>
  BY DEF Launch, Trans, procVars, boardVars, Undisturbed
<1>4. /\ \A d \in Calls : /\ at'[d] = IF d = c THEN "wait" ELSE at[d]
                          /\ launched'[d] = IF d = c THEN p ELSE launched[d]
      /\ \A q \in Procs : proc'[q] = IF q = p THEN "parent" ELSE proc[q]
  BY <1>1, <1>2, <1>3 DEF TypeOK
<1>5. PinInv' /\ PinFollowsTimer' /\ WhatWaits'
  BY <1>1, <1>2, <1>3, <1>4 DEF ScriptInv, PinInv, PinFollowsTimer, WhatWaits, TypeOK
<1>6. ~overlapped' => Serial'
  <2> SUFFICES ASSUME ~overlapped' PROVE Serial'
    OBVIOUS
  <2>1. Serial
    BY <1>3 DEF ScriptInv
  <2>2. OneCall'
    BY <1>3, <1>4, <2>1 DEF Serial, OneCall, Active
  <2>3. \A q \in Procs : proc[q] \notin Listed
    BY <1>3, <2>1 DEF Serial, ListKnown
  <2>4. ParentAwaited' /\ Alone' /\ LaunchKnown'
    BY <1>3, <1>4, <2>1, <2>3 DEF ParentAwaited, Alone, Drives, Serial, LaunchKnown, Listed, OneCall, Active
  <2>5. ListKnown'
    BY <1>3, <1>4, <2>1 DEF Serial, ListKnown, OneCall, Active
  <2>6. QED
    BY <2>2, <2>4, <2>5 DEF Serial
<1>7. QED
  BY <1>1, <1>5, <1>6 DEF ScriptInv

\* A call that ends takes nothing with it.
LEMMA DoneStep == ASSUME ScriptInv, NEW c \in Calls, Return(c) \/ Refuse(c) PROVE ScriptInv'
<1>1. TypeOK /\ TypeOK'
  BY TypeStep DEF ScriptInv, Next, Script
<1>2. /\ at[c] \in {"wait", "decide"} /\ at' = [at EXCEPT ![c] = "done"]
      /\ at[c] = "wait" => proc[launched[c]] = "dead"
      /\ UNCHANGED <<cmd, listed, launched, proc, on, level, overlapped, Undisturbed>>
  BY DEF Return, Refuse, Trans, procVars, boardVars, Undisturbed
<1>3. \A d \in Calls : at'[d] = IF d = c THEN "done" ELSE at[d]
  BY <1>1, <1>2 DEF TypeOK
<1>4. PinInv' /\ PinFollowsTimer' /\ WhatWaits'
  BY <1>2, <1>3 DEF ScriptInv, PinInv, PinFollowsTimer, WhatWaits
<1>5. ~overlapped' => Serial'
  <2> SUFFICES ASSUME ~overlapped' PROVE Serial'
    OBVIOUS
  <2>1. Serial
    BY <1>2 DEF ScriptInv
  <2>2. OneCall'
    BY <1>3, <2>1 DEF Serial, OneCall, Active
  <2>3. ParentAwaited'
    BY <1>2, <1>3, <2>1 DEF Serial, ParentAwaited
  <2>4. Alone' /\ ListKnown' /\ LaunchKnown'
    BY <1>2, <1>3, <2>1 DEF Serial, Alone, Drives, ListKnown, LaunchKnown
  <2>5. QED
    BY <2>2, <2>3, <2>4 DEF Serial
<1>6. QED
  BY <1>1, <1>4, <1>5 DEF ScriptInv

LEMMA BeginKillStep == ASSUME ScriptInv, NEW c \in Calls, BeginKill(c) PROVE ScriptInv'
<1>1. TypeOK /\ TypeOK'
  BY TypeStep DEF ScriptInv, Next, Script
<1>2. /\ at[c] = "decide" /\ at' = [at EXCEPT ![c] = "kill"] /\ cmd[c] = "stop"
      /\ UNCHANGED <<cmd, listed, launched, proc, on, level, overlapped, Undisturbed>>
  BY DEF BeginKill, Trans, procVars, boardVars, Undisturbed
<1>3. \A d \in Calls : at'[d] = IF d = c THEN "kill" ELSE at[d]
  BY <1>1, <1>2 DEF TypeOK
<1>4. PinInv' /\ PinFollowsTimer' /\ WhatWaits'
  BY <1>2, <1>3 DEF ScriptInv, PinInv, PinFollowsTimer, WhatWaits
<1>5. ~overlapped' => Serial'
  <2> SUFFICES ASSUME ~overlapped' PROVE Serial'
    OBVIOUS
  <2>1. Serial
    BY <1>2 DEF ScriptInv
  <2>2. OneCall'
    BY <1>2, <1>3, <2>1 DEF Serial, OneCall, Active
  <2>3. ParentAwaited'
    BY <1>2, <1>3, <2>1 DEF Serial, ParentAwaited
  <2>4. Alone' /\ ListKnown' /\ LaunchKnown'
    BY <1>2, <1>3, <2>1 DEF Serial, Alone, Drives, ListKnown, LaunchKnown
  <2>5. QED
    BY <2>2, <2>3, <2>4 DEF Serial
<1>6. QED
  BY <1>1, <1>4, <1>5 DEF ScriptInv

\* kill ends a process that has no handlers and tells a timer to end.
LEMMA KillStep == ASSUME ScriptInv, NEW c \in Calls, Kill(c) PROVE ScriptInv'
<1>1. TypeOK /\ TypeOK'
  BY TypeStep DEF ScriptInv, Next, Script
<1>2. PICK p \in listed[c] : /\ proc' = [proc EXCEPT ![p] = After(@)]
                             /\ listed' = [listed EXCEPT ![c] = @ \ {p}]
                             /\ at' = [at EXCEPT ![c] = IF listed[c] = {p} THEN "done" ELSE "kill"]
  BY DEF Kill
<1>3. at[c] = "kill" /\ UNCHANGED <<cmd, launched, on, level, overlapped, Undisturbed>> /\ p \in Procs
  BY <1>1 DEF Kill, procVars, boardVars, TypeOK, Undisturbed
<1>4. /\ \A d \in Calls : /\ at'[d] = IF d = c THEN IF listed[c] = {p} THEN "done" ELSE "kill" ELSE at[d]
                          /\ listed'[d] = IF d = c THEN listed[c] \ {p} ELSE listed[d]
      /\ \A q \in Procs : proc'[q] = IF q = p THEN After(proc[p]) ELSE proc[q]
  BY <1>1, <1>2, <1>3 DEF TypeOK
<1>5. /\ proc[p] \in Phases
      /\ After(proc[p]) \in {proc[p], "dead", "dying"}
      /\ After(proc[p]) = "dying" <=> proc[p] \in {"timer", "dying"}
      /\ After(proc[p]) \notin Listed \ {"dying"}
  BY <1>1, <1>3 DEF TypeOK, After, Phases, Listed
<1>6. PinInv'
  <2>1. \A q \in Procs : proc'[q] \in {"timer", "dying"} <=> proc[q] \in {"timer", "dying"}
    BY <1>4, <1>5 DEF Listed
  <2>2. QED
    BY <1>1, <1>3, <2>1 DEF ScriptInv, PinInv, TypeOK
<1>7. PinFollowsTimer' /\ WhatWaits'
  BY <1>3, <1>4 DEF ScriptInv, PinFollowsTimer, WhatWaits
<1>8. ~overlapped' => Serial'
  <2> SUFFICES ASSUME ~overlapped' PROVE Serial'
    OBVIOUS
  <2>1. Serial
    BY <1>3 DEF ScriptInv
  <2>2. OneCall'
    BY <1>3, <1>4, <2>1 DEF Serial, OneCall, Active
  <2>3. \A d \in Calls : at[d] \in Active => d = c
    BY <1>3, <2>1 DEF Serial, OneCall, Active
  <2>4. \A q \in Procs : proc[q] \notin {"parent", "leaving"}
    BY <1>3, <2>1, <2>3 DEF Serial, ParentAwaited, Active
  <2>5. ParentAwaited'
    BY <1>4, <1>5, <2>4 DEF ParentAwaited, Listed
  <2>6. Alone'
    BY <1>4, <1>5, <2>1, <2>4 DEF Serial, Alone, Drives, Listed
  <2>7. ListKnown' /\ LaunchKnown'
    BY <1>3, <1>4, <1>5, <2>1, <2>3 DEF Serial, ListKnown, LaunchKnown, Active
  <2>8. QED
    BY <2>2, <2>5, <2>6, <2>7 DEF Serial
<1>9. QED
  BY <1>1, <1>6, <1>7, <1>8 DEF ScriptInv
-----------------------------------------------------------------------------
(* The steps of the processes.                                              *)

\* The parent whose call waits for it makes the only daemon there is.
LEMMA ForkStep == ASSUME ScriptInv, NEW p \in Procs, Fork(p) PROVE ScriptInv'
<1>1. TypeOK /\ TypeOK'
  BY TypeStep DEF ScriptInv, Next, Process
<1>2. PICK q \in Procs : proc[q] = "none" /\ proc' = [proc EXCEPT ![p] = "leaving", ![q] = "child"]
  BY DEF Fork
<1>3. proc[p] = "parent" /\ UNCHANGED <<at, cmd, listed, launched, on, level, overlapped, Undisturbed>>
  BY DEF Fork, NothingElse, scriptVars, boardVars, Undisturbed
<1>4. \A r \in Procs : proc'[r] = IF r = q THEN "child" ELSE IF r = p THEN "leaving" ELSE proc[r]
  BY <1>1, <1>2, <1>3 DEF TypeOK
<1>5. PinInv'
  BY <1>1, <1>2, <1>3, <1>4 DEF ScriptInv, PinInv, TypeOK
<1>6. PinFollowsTimer' /\ WhatWaits'
  BY <1>3 DEF ScriptInv, PinFollowsTimer, WhatWaits
<1>7. ~overlapped' => Serial'
  <2> SUFFICES ASSUME ~overlapped' PROVE Serial'
    OBVIOUS
  <2>1. Serial
    BY <1>3 DEF ScriptInv
  <2>2. PICK c \in Calls : at[c] = "wait" /\ launched[c] = p /\ \A d \in Calls : at[d] \in Active => d = c
    BY <1>3, <2>1 DEF Serial, ParentAwaited, OneCall, Active
  <2>3. OneCall'
    BY <1>3, <2>1 DEF Serial, OneCall
  <2>4. ParentAwaited'
    BY <1>3, <1>4, <2>1, <2>2 DEF Serial, ParentAwaited
  <2>5. \A r \in Procs : proc[r] = "parent" => r = p
    BY <2>1, <2>2 DEF Serial, ParentAwaited, Active
  <2>6. Alone'
    BY <1>3, <1>4, <2>1, <2>5 DEF Serial, Alone, Drives
  <2>7. ListKnown' /\ LaunchKnown'
    BY <1>3, <1>4, <2>1, <2>2 DEF Serial, ListKnown, LaunchKnown, Active
  <2>8. QED
    BY <2>3, <2>4, <2>6, <2>7 DEF Serial
<1>8. QED
  BY <1>1, <1>5, <1>6, <1>7 DEF ScriptInv

\* No daemon and no parent comes up.
LEMMA AloneKept ==
  ASSUME Alone,
         \A q \in Procs : /\ proc'[q] \in {"child", "timer", "dying"} => proc[q] \in {"child", "timer", "dying"}
                          /\ proc'[q] = "parent" => proc[q] = "parent"
  PROVE  Alone'
BY DEF Alone, Drives

\* What a list says stays true.
LEMMA ListKept ==
  ASSUME ListKnown, UNCHANGED <<at, listed>>,
         \A q \in Procs : /\ proc'[q] \in Listed => proc[q] \in Listed
                          /\ proc'[q] \in Listed \ {"dying"} => proc[q] \in Listed \ {"dying"}
                          /\ proc[q] \in {"child", "timer", "dying", "dead"} => proc'[q] \in {"child", "timer", "dying", "dead"}
  PROVE  ListKnown'
BY DEF ListKnown

\* A process that only moves on: from leaving to dead, or from child to timer.
LEMMA MovesOn ==
  ASSUME ScriptInv, TypeOK', NEW p \in Procs,
         \/ proc[p] = "leaving" /\ proc' = [proc EXCEPT ![p] = "dead"]
         \/ proc[p] = "child" /\ proc' = [proc EXCEPT ![p] = "timer"]
         \/ proc[p] = "dying" /\ proc' = [proc EXCEPT ![p] = "dead"]
         \/ proc[p] \in {"parent", "child", "timer"} /\ proc' = [proc EXCEPT ![p] = "dead"] /\ ~Undisturbed'
         \/ proc' = proc,
         Undisturbed' => Undisturbed,
         UNCHANGED <<at, cmd, listed, launched, overlapped>>
  PROVE  WhatWaits' /\ (~overlapped' => Serial')
<1>1. \A q \in Procs : q /= p => proc'[q] = proc[q]
  BY DEF ScriptInv, TypeOK
<1>2. \/ proc'[p] = "dead" /\ proc[p] \in {"leaving", "dying"}
      \/ proc'[p] = "dead" /\ proc[p] \in {"parent", "child", "timer"} /\ ~Undisturbed'
      \/ proc'[p] = "timer" /\ proc[p] = "child"
      \/ proc'[p] = proc[p]
  BY DEF ScriptInv, TypeOK
<1>3. WhatWaits'
  BY DEF ScriptInv, WhatWaits
<1>4. ASSUME ~overlapped'  PROVE Serial'
  <2>1. Serial
    BY <1>4 DEF ScriptInv
  <2>2. OneCall'
    BY <2>1 DEF Serial, OneCall
  <2>3. ParentAwaited'
    <3>1. \A q \in Procs : proc'[q] \in {"parent", "leaving"} => proc[q] \in {"parent", "leaving"}
      BY <1>1, <1>2
    <3>2. QED
      BY <2>1, <3>1 DEF Serial, ParentAwaited
  <2>4. Alone'
    <3>1. \A q \in Procs : /\ proc'[q] \in {"child", "timer", "dying"} => proc[q] \in {"child", "timer", "dying"}
                           /\ proc'[q] = "parent" => proc[q] = "parent"
      BY <1>1, <1>2
    <3>2. Alone
      BY <2>1 DEF Serial
    <3>3. QED
      BY <3>1, <3>2, AloneKept, Zenon
  <2>5. ListKnown'
    <3>1. \A q \in Procs : /\ proc'[q] \in Listed => proc[q] \in Listed
                           /\ proc'[q] \in Listed \ {"dying"} => proc[q] \in Listed \ {"dying"}
                           /\ proc[q] \in {"child", "timer", "dying", "dead"} => proc'[q] \in {"child", "timer", "dying", "dead"}
      BY <1>1, <1>2 DEF Listed
    <3>2. ListKnown
      BY <2>1 DEF Serial
    <3>3. QED
      BY <3>1, <3>2, ListKept, Zenon
  <2>6. LaunchKnown'
    <3>1. Undisturbed' => \A q \in Procs :
            /\ proc[q] = "parent" => proc'[q] = "parent"
            /\ proc[q] \in {"child", "timer"} => proc'[q] \in {"child", "timer"}
      BY <1>1, <1>2
    <3>2. QED
      BY <2>1, <3>1 DEF Serial, LaunchKnown
  <2>7. QED
    BY <2>2, <2>3, <2>4, <2>5, <2>6 DEF Serial
<1>5. QED
  BY <1>3, <1>4

LEMMA LeaveStep == ASSUME ScriptInv, NEW p \in Procs, Leave(p) PROVE ScriptInv'
<1>1. TypeOK /\ TypeOK'
  BY TypeStep DEF ScriptInv, Next, Process
<1>2. /\ proc[p] = "leaving" /\ proc' = [proc EXCEPT ![p] = "dead"]
      /\ UNCHANGED <<at, cmd, listed, launched, on, level, overlapped, Undisturbed>>
  BY DEF Leave, Turn, NothingElse, scriptVars, boardVars, Undisturbed
<1>3. WhatWaits' /\ (~overlapped' => Serial')
  BY <1>1, <1>2, MovesOn
<1>4. PinInv' /\ PinFollowsTimer'
  BY <1>1, <1>2 DEF ScriptInv, PinInv, PinFollowsTimer, TypeOK
<1>5. QED
  BY <1>1, <1>3, <1>4 DEF ScriptInv

LEMMA SetUpStep == ASSUME ScriptInv, NEW p \in Procs, SetUp(p) PROVE ScriptInv'
<1>1. TypeOK /\ TypeOK'
  BY TypeStep DEF ScriptInv, Next, Process
<1>2. /\ proc[p] = "child" /\ proc' = [proc EXCEPT ![p] = "timer"] /\ level' = "LOW"
      /\ UNCHANGED <<at, cmd, listed, launched, on, overlapped, Undisturbed>>
  BY DEF SetUp, Turn, NothingElse, scriptVars, Undisturbed
<1>3. WhatWaits' /\ (~overlapped' => Serial')
  BY <1>1, <1>2, MovesOn
<1>4. PinInv'
  BY <1>1, <1>2 DEF ScriptInv, PinInv, TypeOK
<1>5. ASSUME ~overlapped'  PROVE on' = {}
  <2>1. Serial /\ PinInv
    BY <1>2, <1>5 DEF ScriptInv
  <2>2. \A q \in on : q \in Procs /\ Drives(q) /\ q /= p /\ Drives(p)
    BY <1>1, <1>2, <2>1 DEF PinInv, Drives, TypeOK
  <2>3. QED
    BY <1>2, <2>1, <2>2 DEF Serial, Alone
<1>6. PinFollowsTimer'
  BY <1>5 DEF PinFollowsTimer
<1>7. QED
  BY <1>1, <1>3, <1>4, <1>6 DEF ScriptInv

LEMMA FailStep == ASSUME ScriptInv, NEW p \in Procs, Fail(p) PROVE ScriptInv'
<1>1. TypeOK /\ TypeOK'
  BY TypeStep DEF ScriptInv, Next, Faults
<1>2. /\ proc[p] \in {"parent", "child", "timer"} /\ proc' = [proc EXCEPT ![p] = "dead"]
      /\ ~Undisturbed' /\ on' = on \ {p}
      /\ UNCHANGED <<at, cmd, listed, launched, level, overlapped>>
  BY DEF Fail, Turn, NothingElse, scriptVars, Undisturbed
<1>3. WhatWaits' /\ (~overlapped' => Serial')
  BY <1>1, <1>2, MovesOn
<1>4. PinInv' /\ PinFollowsTimer'
  BY <1>1, <1>2 DEF ScriptInv, PinInv, PinFollowsTimer, TypeOK
<1>5. QED
  BY <1>1, <1>3, <1>4 DEF ScriptInv

\* A timer has the pin to itself.
LEMMA SwitchStep == ASSUME ScriptInv, NEW p \in Procs, Loop(p) PROVE ScriptInv'
<1>1. TypeOK /\ TypeOK'
  BY TypeStep DEF ScriptInv, Next, Faults
<1>2. /\ proc[p] = "timer"
      /\ UNCHANGED <<at, cmd, listed, launched, proc, overlapped, Undisturbed>>
      /\ \/ on' = on \cup {p} /\ level' = "HIGH"
         \/ p \in on /\ on' = on \ {p} /\ level' = "LOW"
  BY DEF Loop, SwitchOn, SwitchOff, NothingElse, scriptVars, Undisturbed
<1>3. WhatWaits' /\ (~overlapped' => Serial')
  BY <1>1, <1>2, MovesOn
<1>4. PinInv'
  BY <1>1, <1>2 DEF ScriptInv, PinInv, TypeOK
<1>5. ASSUME ~overlapped'  PROVE on' \subseteq {p}
  <2>1. Serial /\ PinInv
    BY <1>2, <1>5 DEF ScriptInv
  <2>2. \A q \in on : q \in Procs /\ Drives(q) /\ Drives(p)
    BY <1>1, <1>2, <2>1 DEF PinInv, Drives, TypeOK
  <2>3. QED
    BY <1>2, <2>1, <2>2 DEF Serial, Alone
<1>6. PinFollowsTimer'
  BY <1>2, <1>5 DEF PinFollowsTimer
<1>7. QED
  BY <1>1, <1>3, <1>4, <1>6 DEF ScriptInv

LEMMA ExitStep == ASSUME ScriptInv, NEW p \in Procs, Exit(p) PROVE ScriptInv'
<1>1. TypeOK /\ TypeOK'
  BY TypeStep DEF ScriptInv, Next, Process
<1>2. /\ proc[p] = "dying" /\ proc' = [proc EXCEPT ![p] = "dead"]
      /\ on' = on \ {p} /\ level' = "LOW"
      /\ UNCHANGED <<at, cmd, listed, launched, overlapped, Undisturbed>>
  BY DEF Exit, Turn, NothingElse, scriptVars, Undisturbed
<1>3. WhatWaits' /\ (~overlapped' => Serial')
  BY <1>1, <1>2, MovesOn
<1>4. PinInv'
  BY <1>1, <1>2 DEF ScriptInv, PinInv, TypeOK
<1>5. ASSUME ~overlapped'  PROVE on' = {}
  <2>1. Serial /\ PinInv
    BY <1>2, <1>5 DEF ScriptInv
  <2>2. \A q \in on : q \in Procs /\ Drives(q) /\ Drives(p)
    BY <1>1, <1>2, <2>1 DEF PinInv, Drives, TypeOK
  <2>3. QED
    BY <1>2, <2>1, <2>2 DEF Serial, Alone
<1>6. PinFollowsTimer'
  BY <1>5 DEF PinFollowsTimer
<1>7. QED
  BY <1>1, <1>3, <1>4, <1>6 DEF ScriptInv

\* A handler on the debug thread ends no process yet, and nothing is claimed of
\* the level once there has been one.
LEMMA DebugFaultStep == ASSUME ScriptInv, NEW p \in Procs, DebugFault(p) PROVE ScriptInv'
<1>1. TypeOK /\ TypeOK'
  BY TypeStep DEF ScriptInv, Next, Faults
<1>2. /\ proc[p] \in {"timer", "dying"} /\ faulted' = faulted \cup {p}
      /\ on' = on \ {p} /\ level' = "LOW"
      /\ UNCHANGED <<at, cmd, listed, launched, proc, overlapped, failed>>
  BY DEF DebugFault, NotTheScripts, scriptVars
<1>3. ~Undisturbed'
  BY <1>2 DEF Undisturbed
<1>4. WhatWaits' /\ (~overlapped' => Serial')
  BY <1>1, <1>2, <1>3, MovesOn
<1>5. PinInv'
  BY <1>1, <1>2, <1>3 DEF ScriptInv, PinInv, TypeOK
<1>6. ASSUME ~overlapped'  PROVE on' = {}
  <2>1. Serial /\ PinInv
    BY <1>2, <1>6 DEF ScriptInv
  <2>2. \A q \in on : q \in Procs /\ Drives(q) /\ Drives(p)
    BY <1>1, <1>2, <2>1 DEF PinInv, Drives, TypeOK
  <2>3. QED
    BY <1>2, <2>1, <2>2 DEF Serial, Alone
<1>7. PinFollowsTimer'
  BY <1>6 DEF PinFollowsTimer
<1>8. QED
  BY <1>1, <1>4, <1>5, <1>7 DEF ScriptInv

LEMMA FaultExitStep == ASSUME ScriptInv, NEW p \in Procs, FaultExit(p) PROVE ScriptInv'
<1>1. TypeOK /\ TypeOK'
  BY TypeStep DEF ScriptInv, Next, Faults
<1>2. /\ proc[p] \in {"timer", "dying"} /\ proc' = [proc EXCEPT ![p] = "dead"]
      /\ on' = on \ {p} /\ ~Undisturbed'
      /\ UNCHANGED <<at, cmd, listed, launched, level, overlapped>>
  BY DEF FaultExit, Turn, NothingElse, scriptVars, Undisturbed
<1>3. WhatWaits' /\ (~overlapped' => Serial')
  BY <1>1, <1>2, MovesOn
<1>4. PinInv' /\ PinFollowsTimer'
  BY <1>1, <1>2 DEF ScriptInv, PinInv, PinFollowsTimer, TypeOK
<1>5. QED
  BY <1>1, <1>3, <1>4 DEF ScriptInv

-----------------------------------------------------------------------------
LEMMA ScriptStep == ScriptInv /\ [Next]_vars => ScriptInv'
<1> SUFFICES ASSUME ScriptInv, [Next]_vars PROVE ScriptInv'
  OBVIOUS
<1>1. ASSUME NEW c \in Calls, Call(c) \/ Script(c)  PROVE ScriptInv'
  BY <1>1, CallStep, ListStep, LaunchStep, DoneStep, BeginKillStep, KillStep DEF Script
<1>2. ASSUME NEW p \in Procs, Process(p) \/ Loop(p) \/ Faults(p)  PROVE ScriptInv'
  BY <1>2, ForkStep, LeaveStep, SetUpStep, ExitStep, SwitchStep, FailStep, DebugFaultStep, FaultExitStep
  DEF Process, Faults
<1>3. CASE UNCHANGED vars
  BY <1>3 DEF vars, scriptVars, procVars, boardVars, ScriptInv, TypeOK, PinInv, Undisturbed, WhatWaits,
              PinFollowsTimer, Serial, OneCall, ParentAwaited, Alone, Drives, ListKnown, LaunchKnown
<1>4. QED
  BY <1>1, <1>2, <1>3 DEF Next

LEMMA ScriptInvHolds == Spec => []ScriptInv
BY ScriptInit, ScriptStep, PTL DEF Spec

-----------------------------------------------------------------------------
\* The script's and the processes' variables keep their types; no call is left
\* killing with nothing to kill.
THEOREM TypesHold == Spec => []TypeOK
<1>1. ScriptInv => TypeOK
  BY DEF ScriptInv
<1>2. QED
  BY <1>1, ScriptInvHolds, PTL

\* Calls of the script that do not overlap never bring about a second timer.
THEOREM OneTimerHolds == Spec => []OneTimer
<1>1. ScriptInv => OneTimer
  BY DEF ScriptInv, Serial, Alone, OneTimer
<1>2. QED
  BY <1>1, ScriptInvHolds, PTL

\* The pin is high while a timer is in its run: no other process touches it.
THEOREM PinFollowsTimerHolds == Spec => []PinFollowsTimer
<1>1. ScriptInv => PinFollowsTimer
  BY DEF ScriptInv
<1>2. QED
  BY <1>1, ScriptInvHolds, PTL

\* Whatever calls overlapped, the last timer to end leaves the pin low if all of
\* them ended by the handler of a signal sent to them; one that a signal of its
\* debug thread ended may leave it high.
THEOREM LowWithoutTimerHolds == Spec => []LowWithoutTimer
<1>1. ScriptInv => LowWithoutTimer
  BY DEF ScriptInv, PinInv, LowWithoutTimer, TypeOK
<1>2. QED
  BY <1>1, ScriptInvHolds, PTL

\* A call's end is a step of its own.
LEMMA EndIs ==
  ASSUME ScriptInv, [Next]_vars, NEW c \in Calls, at[c] \in Active, at'[c] = "done"
  PROVE  \/ Return(c) \/ Refuse(c)
         \/ at[c] = "kill" /\ \E p \in listed[c] : listed[c] = {p} /\ proc' = [proc EXCEPT ![p] = After(@)]
<1>1. TypeOK /\ at' /= at
  BY DEF ScriptInv, TypeOK, Active
<1>2. ASSUME NEW d \in Calls, Call(d) \/ List(d) \/ Launch(d) \/ BeginKill(d)  PROVE FALSE
  BY <1>1, <1>2 DEF Call, List, Launch, BeginKill, Trans, TypeOK, Active
<1>3. ASSUME NEW d \in Calls, Return(d) \/ Refuse(d)  PROVE c = d
  BY <1>1, <1>3 DEF Return, Refuse, Trans, TypeOK, Active
<1>4. ASSUME NEW d \in Calls, Kill(d)
      PROVE  at[c] = "kill" /\ \E p \in listed[c] : listed[c] = {p} /\ proc' = [proc EXCEPT ![p] = After(@)]
  BY <1>1, <1>4 DEF Kill, TypeOK, Active
<1>5. ASSUME NEW p \in Procs, Process(p) \/ Loop(p) \/ Faults(p)  PROVE FALSE
  BY <1>1, <1>5 DEF Process, Fork, Leave, SetUp, Exit, Loop, SwitchOn, SwitchOff,
                    Faults, Fail, DebugFault, FaultExit, NotTheScripts, NothingElse, scriptVars
<1>6. QED
  BY <1>1, <1>2, <1>3, <1>4, <1>5 DEF Next, Script, vars, scriptVars

\* A stop that no other call overlapped has reached every process when it ends.
THEOREM StopReachesAllHolds == Spec => StopReachesAll
<1> DEFINE Reaches == \A c \in Calls : Ends(c, "stop") /\ ~overlapped =>
                        \A p \in Procs : proc'[p] \in {"none", "dying", "dead"}
<1>1. ScriptInv /\ [Next]_vars => Reaches
  <2> SUFFICES ASSUME ScriptInv, [Next]_vars, NEW c \in Calls, Ends(c, "stop"), ~overlapped, NEW p \in Procs
               PROVE  proc'[p] \in {"none", "dying", "dead"}
    OBVIOUS
  <2>1. TypeOK /\ Serial /\ WhatWaits /\ cmd[c] = "stop" /\ at[c] \in Active /\ at'[c] = "done" /\ proc[p] \in Phases
    BY DEF ScriptInv, Ends, TypeOK
  <2>2. CASE Return(c)
    BY <2>1, <2>2 DEF Return, Trans, WhatWaits
  <2>3. CASE Refuse(c)
    <3>1. at[c] = "decide" /\ listed[c] = {} /\ proc' = proc
      BY <2>1, <2>3 DEF Refuse, Trans, procVars
    <3>2. proc[p] \notin Listed
      BY <2>1, <3>1 DEF Serial, ListKnown
    <3>3. QED
      BY <2>1, <3>1, <3>2 DEF Listed, Phases
  <2>4. ASSUME at[c] = "kill", NEW q \in listed[c], listed[c] = {q}, proc' = [proc EXCEPT ![q] = After(@)]
        PROVE  proc'[p] \in {"none", "dying", "dead"}
    <3>1. CASE p = q
      BY <2>1, <2>4, <3>1 DEF TypeOK, After, Phases
    <3>2. CASE p /= q
      <4>1. proc[p] \notin Listed \ {"dying"}
        BY <2>1, <2>4, <3>2 DEF Serial, ListKnown
      <4>2. proc'[p] = proc[p]
        BY <2>1, <2>4, <3>2 DEF TypeOK
      <4>3. QED
        BY <2>1, <4>1, <4>2 DEF Listed, Phases
    <3>3. QED
      BY <3>1, <3>2
  <2>5. QED
    BY <2>1, <2>2, <2>3, <2>4, EndIs
<1>2. QED
  BY <1>1, ScriptInvHolds, PTL DEF Spec, StopReachesAll

\* A start that no other call overlapped leaves a timer, or was refused because
\* of one that was about to end, unless a process failed or was ended by its debug
\* thread.
THEOREM StartLeavesOneHolds == Spec => StartLeavesOne
<1> DEFINE Leaves == \A c \in Calls : Ends(c, "start") /\ ~overlapped /\ Undisturbed =>
                       \/ \E p \in Procs : proc[p] \in {"child", "timer"}
                       \/ \E p \in listed[c] : proc[p] \in {"dying", "dead"}
<1>1. ScriptInv /\ [Next]_vars => Leaves
  <2> SUFFICES ASSUME ScriptInv, [Next]_vars, NEW c \in Calls, Ends(c, "start"), ~overlapped, Undisturbed
               PROVE  \/ \E p \in Procs : proc[p] \in {"child", "timer"}
                      \/ \E p \in listed[c] : proc[p] \in {"dying", "dead"}
    OBVIOUS
  <2>1. TypeOK /\ Serial /\ WhatWaits /\ cmd[c] = "start" /\ at[c] \in Active /\ at'[c] = "done"
    BY DEF ScriptInv, Ends
  <2>2. CASE Return(c)
    <3>1. at[c] = "wait" /\ proc[launched[c]] = "dead"
      BY <2>2 DEF Return, Trans
    <3>2. QED
      BY <2>1, <3>1 DEF Serial, LaunchKnown
  <2>3. CASE Refuse(c)
    <3>1. at[c] = "decide" /\ listed[c] /= {} /\ listed[c] \subseteq Procs
      BY <2>1, <2>3 DEF Refuse, Trans, TypeOK
    <3>2. QED
      BY <2>1, <3>1 DEF Serial, ListKnown
  <2>4. CASE at[c] = "kill"
    BY <2>1, <2>4 DEF WhatWaits
  <2>5. QED
    BY <2>1, <2>2, <2>3, <2>4, EndIs
<1>2. QED
  BY <1>1, ScriptInvHolds, PTL DEF Spec, StartLeavesOne
=============================================================================
