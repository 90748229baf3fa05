------------------------------- MODULE PiTimer ------------------------------
(***************************************************************************)
(* The process as a whole: the main thread and the debug thread, the       *)
(* signal handlers that run on top of either, the passage of time, and the *)
(* board's owner, who starts, signals and kills the process.               *)
(*                                                                         *)
(* handler[t] is where the signal handler that interrupted thread t stands *)
(* ("none": no handler runs there and the thread goes on by itself):       *)
(*   announce, announcing  - the INFO_LOG of signal_shutdown() or          *)
(*                           signal_SIGPIPE(), waiting for the log lock    *)
(*                           and holding it                                *)
(*   stopLog, stopLogging  - the INFO_LOG of pi_timer_stop()               *)
(*   stop                  - its set_gpio(LOW)                             *)
(*   quit                  - set_service_running(false)                    *)
(*   close                 - close_logs(), which takes the log lock too    *)
(*   exit                  - exit()                                        *)
(***************************************************************************)
EXTENDS MainThread, DebugServer

CONSTANTS
  HasServer,      \* server_port is not 0
  RunAsDaemon,    \* the option daemon
  SignalThreads,  \* the threads a signal sent to the process may interrupt
  ClientsHangUp,  \* clients may be gone before their answer is sent
  AddressFails,   \* getaddrinfo() may fail
  MayBeKilled,    \* a signal without a handler, SIGKILL or a power cut
  MaxSignals,     \* bound: handled signals per process
  MaxLag          \* ticks in which a thread that need not wait is scheduled

ASSUME PiTimerAssumption ==
  /\ {HasServer, RunAsDaemon, ClientsHangUp, AddressFails, MayBeKilled} \subseteq BOOLEAN
  /\ SignalThreads \subseteq Threads
  /\ {MaxSignals, MaxLag} \subseteq Nat

VARIABLES
  status,   \* of the process: "off" before the first, "up", or how it ended
  handler,
  signals   \* handled signals this process has received

processVars == <<status, handler, signals>>
vars == <<settings, platform, mainVars, srvVars, processVars>>

Endings == {"handled", "killed", "failed"}

HandlerPoints == {"none", "announce", "announcing", "stopLog", "stopLogging",
                  "stop", "quit", "close", "exit"}

TypeOK ==
  /\ SettingsTypeOK /\ PlatformTypeOK /\ MainTypeOK /\ SrvTypeOK
  /\ status \in {"off", "up"} \cup Endings
  /\ handler \in [Threads -> HandlerPoints]
  /\ signals \in 0 .. MaxSignals

NoHandler == [t \in Threads |-> "none"]

Init ==
  /\ SettingsInit /\ PlatformInit /\ MainInit /\ SrvInit
  /\ status = "off" /\ handler = NoHandler /\ signals = 0

-----------------------------------------------------------------------------
(***************************************************************************)
(* The threads.                                                            *)
(***************************************************************************)
Up == status = "up"
Runs(t) == Up /\ handler[t] = "none"

\* pi_timer_service_start(): no thread is created for port 0.
Spawn == /\ Step("spawn", "clearLog")
         /\ srv' = IF HasServer THEN "hello" ELSE srv
         /\ UNCHANGED <<settings, platform, phase, toWake, elapsed, sumVars, page>>

MainActs == /\ Runs("main")
            /\ \/ MainStep /\ UNCHANGED srvVars
               \/ Spawn
            /\ UNCHANGED processVars

SrvActs == /\ Runs("server")
           /\ SrvStep
           /\ UNCHANGED <<mainVars, processVars>>

Client == /\ Runs("server")
          /\ Accept
          /\ UNCHANGED <<mainVars, processVars>>

-----------------------------------------------------------------------------
(***************************************************************************)
(* The end of the process: what it held is gone, the pin stays as it is.   *)
(***************************************************************************)
Die(how) == /\ Up
            /\ status' = how
            /\ handler' = NoHandler /\ signals' = 0
            /\ logger' = "free" /\ lag' = NoLag
            /\ SettingsReset /\ MainReset /\ SrvReset
            /\ UNCHANGED pinVars

DaemonFails == RunAsDaemon /\ mpc = "exec" /\ Die("failed")

Kill == MayBeKilled /\ Die("killed")

Launch == /\ ~Up
          /\ status' = "up"
          /\ wired' = FALSE
          /\ UNCHANGED <<settings, level, held, logger, lag, mainVars, srvVars, handler, signals>>

-----------------------------------------------------------------------------
(***************************************************************************)
(* Signals.  A handler never returns; one that is itself interrupted by    *)
(* another signal never gets to go on, so the newest is all there is.      *)
(***************************************************************************)
Interrupt(t) == /\ signals < MaxSignals
                /\ signals' = signals + 1
                /\ handler' = [handler EXCEPT ![t] = "announce"]
                /\ UNCHANGED <<status, settings, platform, mainVars, srvVars>>

Alive(t) == t = "server" => srv \notin {"off", "done"}

\* SIGTERM, SIGINT, ...: handled once fork_process() has installed handlers.
Signal(t) == Up /\ mpc /= "exec" /\ Alive(t) /\ Interrupt(t)

\* The debug thread brings a signal on itself: SIGPIPE when it sends to a client
\* that is gone, SIGSEGV when it looks into the address it was not given.
Fault == /\ Runs("server")
         /\ \/ ClientsHangUp /\ srv = "send"
            \/ AddressFails /\ srv = "socket"
         /\ Interrupt("server")

HandlerAt(t, from, to) == /\ Up /\ handler[t] = from
                          /\ handler' = [handler EXCEPT ![t] = to]

Quietly == UNCHANGED <<status, signals, mainVars, srvVars>>

HandlerLogBegin(t) == /\ \/ HandlerAt(t, "announce", "announcing")
                         \/ HandlerAt(t, "stopLog", "stopLogging")
                      /\ TakeLog(t)
                      /\ Quietly /\ UNCHANGED <<settings, pinVars, lag>>

HandlerLogEnd(t) == /\ \/ HandlerAt(t, "announcing", "stopLog")
                       \/ HandlerAt(t, "stopLogging", "stop")
                    /\ DropLog(t)
                    /\ Quietly /\ UNCHANGED <<settings, pinVars, lag>>

HandlerStopSkippedMut(t) == /\ HandlerAt(t, "stop", "quit")
                            /\ Quietly /\ UNCHANGED <<settings, platform>>
HandlerStop(t) == /\ HandlerAt(t, "stop", "quit")
                  /\ SetGpio("LOW")
                  /\ Quietly /\ UNCHANGED <<settings, logger, lag>>

HandlerQuit(t) == /\ HandlerAt(t, "quit", "close")
                  /\ running' = FALSE
                  /\ Quietly /\ UNCHANGED <<now, tm, hours, pauseVars, platform>>

HandlerClose(t) == /\ HandlerAt(t, "close", "exit")
                   /\ logger = "free"
                   /\ Quietly /\ UNCHANGED <<settings, platform>>

HandlerReturnsMut(t) == /\ HandlerAt(t, "exit", "none")
                        /\ Quietly /\ UNCHANGED <<settings, platform>>
HandlerExit(t) == handler[t] = "exit" /\ Die("handled")

HandlerActs(t) == \/ HandlerLogBegin(t) \/ HandlerLogEnd(t)
                  \/ HandlerStop(t) \/ HandlerQuit(t)
                  \/ HandlerClose(t) \/ HandlerExit(t)

\* A handler waits for the log lock its own thread took and cannot give back.
WedgedOn(t) == handler[t] \in {"announce", "stopLog", "close"} /\ logger = t
Wedged == \E t \in Threads : WedgedOn(t)

-----------------------------------------------------------------------------
(***************************************************************************)
(* Time passes.  A thread gets from one wait (sleep(), accept(), send())   *)
(* to the next within MaxLag ticks: Linux schedules it and syslog()        *)
(* answers; only a lock that nobody will give back holds it longer.        *)
(***************************************************************************)
MainAsleep == Resting /\ handler["main"] = "none"
SrvWaits   == srv \in {"off", "accept", "send", "done"} /\ handler["server"] = "none"

Due(t) == /\ Up /\ ~Wedged
          /\ IF t = "main" THEN ~MainAsleep ELSE ~SrvWaits

Tick == /\ \A t \in Threads : Due(t) => lag[t] < MaxLag
        /\ lag' = [t \in Threads |-> IF Due(t) THEN lag[t] + 1 ELSE lag[t]]
        /\ toWake' = IF Up /\ MainAsleep THEN toWake - 1 ELSE toWake
        /\ now' = NextTick(now)
        /\ age' = Older(age)
        /\ held' = Older(held)
        /\ UNCHANGED <<tm, hours, duration, running, level, wired, logger,
                       mpc, phase, srvVars, processVars>>

-----------------------------------------------------------------------------
Next == \/ MainActs \/ SrvActs \/ Client
        \/ DaemonFails \/ Kill \/ Launch
        \/ \E t \in SignalThreads : Signal(t)
        \/ Fault
        \/ \E t \in Threads : HandlerActs(t)
        \/ Tick

Spec == Init /\ [][Next]_vars

\* The threads and the handlers are scheduled and time passes; nobody has to
\* start, signal or kill the process, and no client has to call.
Fairness == /\ WF_vars(Tick)
            /\ WF_vars(MainActs)
            /\ WF_vars(SrvActs)
            /\ \A t \in Threads : WF_vars(HandlerActs(t))

FairSpec == Spec /\ Fairness
=============================================================================
