----------------------------- MODULE MainThread -----------------------------
(***************************************************************************)
(* The main thread (main.c): it sets the process up, then for ever asks    *)
(* whether the hour lets the fan run, and runs and rests it, or idles.     *)
(*                                                                         *)
(* mpc is where the thread stands:                                         *)
(*   exec, pinLog, pinMode, openLog, running, spawn, clearLog, clear       *)
(*                                     - the set-up                        *)
(*   check, decide                     - is_operation_enabled()            *)
(*   startLog, start                   - pi_timer_start()                  *)
(*   duration, stamp, nap, asleep      - pause_minutes()                   *)
(*   stopLog, stop                     - pi_timer_stop()                   *)
(*   idleLog                           - the INFO_LOG of the else branch   *)
(***************************************************************************)
EXTENDS Platform

VARIABLES
  mpc,
  phase,   \* which pause of the loop this is: "run", "rest" or "idle"
  toWake   \* ticks that sleep() still has to wait

mainVars == <<mpc, phase, toWake>>

AfterLog == [pinLog |-> "pinMode", openLog |-> "running", clearLog |-> "clear",
             startLog |-> "start", stopLog |-> "stop", idleLog |-> "duration"]

SetUp    == {"exec", "pinLog", "pinMode", "openLog", "running", "spawn", "clearLog", "clear"}
Pausing  == {"duration", "stamp", "nap", "asleep"}
Stopping == {"stopLog", "stop"}
MainPoints == SetUp \cup Pausing \cup Stopping
                \cup {"check", "decide", "startLog", "start", "idleLog"}

MainTypeOK ==
  /\ mpc \in MainPoints
  /\ phase \in {"run", "rest", "idle"}
  /\ toWake \in Nat

MainFresh(p, f, w) == p = "exec" /\ f = "idle" /\ w = 0
MainInit  == MainFresh(mpc, phase, toWake)
MainReset == MainFresh(mpc', phase', toWake')

Step(from, to) == mpc = from /\ mpc' = to

Resting == mpc = "asleep" /\ toWake > 0

-----------------------------------------------------------------------------
\* log_message() on this thread, and create_logs(), which takes the same lock
\* in openlog(): entered and left.
LogBegin == /\ mpc \in DOMAIN AfterLog
            /\ TakeLog("main")
            /\ UNCHANGED <<settings, pinVars, lag, mainVars>>

LogEnd == /\ mpc \in DOMAIN AfterLog
          /\ DropLog("main")
          /\ mpc' = AfterLog[mpc]
          /\ UNCHANGED <<settings, pinVars, lag, phase, toWake>>

\* fork_process(): the child goes on and installs the signal handlers.
Exec == /\ Step("exec", "pinLog")
        /\ UNCHANGED <<settings, platform, phase, toWake>>

SetupWiringPi == /\ Step("pinMode", "openLog")
                 /\ SetPinMode
                 /\ UNCHANGED <<settings, logger, lag, phase, toWake>>

SetRunning == /\ Step("running", "spawn")
              /\ running' = TRUE
              /\ UNCHANGED <<now, tm, hours, pauseVars, platform, phase, toWake>>

\* The first pi_timer_stop(), before the loop.
Clear == /\ Step("clear", "check")
         /\ SetGpio("LOW")
         /\ UNCHANGED <<settings, logger, lag, phase, toWake>>

-----------------------------------------------------------------------------
\* is_operation_enabled(): localtime() fills the buffer ...
Check == /\ Step("check", "decide")
         /\ Localtime
         /\ UNCHANGED <<now, hours, pauseVars, running, platform, phase, toWake>>

\* ... and the hour is read from it.
Decide == /\ mpc = "decide"
          /\ CheckHours
          /\ IF WindowOpen THEN mpc' = "startLog" /\ phase' = "run"
                           ELSE mpc' = "idleLog" /\ phase' = "idle"
          /\ UNCHANGED <<now, tm, pauseVars, running, platform, toWake>>

Start == /\ Step("start", "duration")
         /\ SetGpio("HIGH")
         /\ UNCHANGED <<settings, logger, lag, phase, toWake>>

\* The pin goes low, and the loop rests.
StopForgottenMut == /\ Step("stop", "duration")
                    /\ phase' = "rest"
                    /\ UNCHANGED <<settings, platform, toWake>>
Stop == /\ Step("stop", "duration")
        /\ phase' = "rest"
        /\ SetGpio("LOW")
        /\ UNCHANGED <<settings, logger, lag, toWake>>

-----------------------------------------------------------------------------
\* pause_minutes(): the length, the start, then sleep().
PauseStampedFirstMut ==
  /\ mpc = "duration"
  /\ IF age /= 0 THEN StampStart /\ UNCHANGED mpc
                 ELSE mpc' = "stamp" /\ \E m \in PauseLengths(phase) : SetDuration(m)
  /\ UNCHANGED <<now, tm, hours, running, platform, phase, toWake>>
PauseLength == /\ Step("duration", "stamp")
               /\ \E m \in PauseLengths(phase) : SetDuration(m)
               /\ UNCHANGED <<now, tm, hours, running, platform, phase, toWake>>

PauseStamp == /\ Step("stamp", "nap")
              /\ StampStart
              /\ UNCHANGED <<now, tm, hours, running, platform, phase, toWake>>

Nap == /\ Step("nap", "asleep")
       /\ toWake' = SleepTicks(duration)
       /\ Waits("main")
       /\ UNCHANGED <<settings, pinVars, logger, phase>>

WakeEarlyMut == /\ mpc = "asleep"
                /\ mpc' = IF phase = "run" THEN "stopLog" ELSE "check"
                /\ UNCHANGED <<settings, platform, phase, toWake>>
Wake == /\ mpc = "asleep" /\ toWake = 0
        /\ mpc' = IF phase = "run" THEN "stopLog" ELSE "check"
        /\ UNCHANGED <<settings, platform, phase, toWake>>

\* pi_timer_service_start() is Spawn of the composing module.
MainStep == \/ LogBegin \/ LogEnd
            \/ Exec \/ SetupWiringPi \/ SetRunning \/ Clear
            \/ Check \/ Decide \/ Start \/ Stop
            \/ PauseLength \/ PauseStamp \/ Nap \/ Wake
=============================================================================
