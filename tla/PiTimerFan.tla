----------------------------- MODULE PiTimerFan -----------------------------
(***************************************************************************)
(* The process implements the fan timer, as long as every signal handler   *)
(* runs on the main thread.                                                *)
(***************************************************************************)
EXTENDS PiTimerProperties

Service == CASE status \in {"off", "handled"}   -> "down"
             [] status \in {"killed", "failed"} -> "failed"
             [] Up /\ mpc \in SetUp             -> "boot"
             [] OTHER -> IF handler["main"] = "none" THEN "up" ELSE "closing"

Fan == INSTANCE FanTimer WITH
         RunTicks  <- SleepTicks(RunMinutes),
         RestTicks <- SleepTicks(SleepMinutes),
         MaxHeld   <- MaxAge,
         pin       <- level,
         service   <- Service,
         fresh     <- Service = "up" /\ level = "LOW" /\ age = EpochAge

\* Every step the threads, the handlers and the clock take is a step the fan
\* timer allows, or none at all: the fan gets its full run, then its full
\* rest, and a handled signal leaves it off.
ImplementsFan == Fan!Spec

(***************************************************************************)
(* The inductive invariant behind ImplementsFan.                           *)
(***************************************************************************)

\* The first pause is the one before which start_time was never written.
FirstPause == age = EpochAge

\* A process starts with no pause behind it, and each pause stamps its start.
Stamped == /\ mpc \in SetUp => FirstPause
           /\ mpc \in {"nap", "asleep"} \cup Stopping => ~FirstPause

\* A run lasts as long as the run option says, with the pin high throughout ...
RunsInFull ==
  Cleared /\ handler["main"] = "none" /\ RunPause =>
    /\ level = "HIGH"
    /\ mpc = "asleep" => held + toWake >= SleepTicks(RunMinutes)
    /\ mpc \in Stopping => held >= SleepTicks(RunMinutes)

\* ... and a rest at least as long as the sleep option says, but for the first.
RestsInFull ==
  Cleared /\ handler["main"] = "none" /\ ~RunPause =>
    /\ mpc \in {"stamp", "nap"} => SleepTicks(duration) >= SleepTicks(SleepMinutes)
    /\ mpc = "asleep" => held + toWake >= SleepTicks(SleepMinutes)
    /\ mpc \in {"check", "decide", "startLog", "start"} =>
         FirstPause \/ held >= SleepTicks(SleepMinutes)

FanInv == PinInv /\ ExitInv /\ Stamped /\ RunsInFull /\ RestsInFull
=============================================================================
