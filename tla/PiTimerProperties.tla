--------------------------- MODULE PiTimerProperties ------------------------
(***************************************************************************)
(* What the timer must and must not do.                                    *)
(***************************************************************************)
EXTENDS PiTimer

Cleared == Up /\ mpc \notin SetUp
RunPause == phase = "run" /\ mpc \in Pausing \cup Stopping

\* Between the boot's pi_timer_stop() and the end of the process the pin is
\* high only during the run pause of the main loop, from pi_timer_start() to
\* the pi_timer_stop() after it, whatever signal handlers do on either thread
\* (main.c, the loop of main()).
HighOnlyInRun == Cleared /\ level = "HIGH" => RunPause

\* A process that a signal handler ended leaves the pin low: signal_shutdown()
\* stops the timer before it exits (main.c, service_stop()).  Before
\* setup_wring_pi() the process cannot reach the pin.
HandledExitLow == status = "handled" /\ wired => level = "LOW"

\* The fan never runs longer than the run option asks, but for the time the
\* main thread takes to get from pi_timer_start() to sleep() and from there to
\* pi_timer_stop(), unless a handler waits for ever for its own thread's lock.
RunTimeBounded ==
  Cleared /\ level = "HIGH" /\ ~Wedged => held <= RunMinutes * MinuteTicks + 2 * MaxLag

InUpTime(tick) == UpStart <= Hour(tick) /\ Hour(tick) < UpEnd
Ago(tick, k) == (tick - k) % DayTicks
TicksAgo(k) == Ago(now, k)

\* The main loop goes by the wall clock: it runs the fan only if the hour is in
\* up_time, and idles only if it is not, as is_operation_enabled() found it at
\* most MaxLag ticks ago.
DecidesByTheClock ==
  [][mpc = "decide" /\ mpc' \in {"startLog", "idleLog"} =>
       \E k \in 0 .. MaxLag : InUpTime(TicksAgo(k)) <=> mpc' = "startLog"]_vars

UpTimeAround(tick, n) == \E k \in (-HourTicks) .. n : InUpTime(Ago(tick, k))
NearUpTime(n) == UpTimeAround(now, n)

\* A status page may rewrite the hour between the loop's localtime() and its use,
\* and may have read the minute of one time and the hour of the next for it.  Yet
\* the fan starts no more than an hour before up_time begins, and no more than
\* the lags of both threads after it ended, unless a handler is stuck.
StartsNearUpTime ==
  [][level = "LOW" /\ level' = "HIGH" /\ ~Wedged => NearUpTime(2 * MaxLag)]_vars

\* The pin is high only in up_time, or past its end for no longer than a run
\* that had begun in it.
UpTimeWithin(tick, n) == \E k \in 0 .. n : InUpTime(Ago(tick, k))
WithinUpTime(n) == UpTimeWithin(now, n)

HighNearUpTime ==
  Cleared /\ level = "HIGH" /\ ~Wedged =>
    WithinUpTime(RunMinutes * MinuteTicks + 2 * MaxLag)

\* Whatever status pages do to the hour, the pin is high only around up_time, or
\* past its end for no longer than a run that had begun there.
PinNearUpTime ==
  Cleared /\ level = "HIGH" /\ ~Wedged =>
    NearUpTime(RunMinutes * MinuteTicks + 3 * MaxLag)

\* What is left of the current pause, in ticks.
TicksLeft == CASE mpc = "asleep"          -> toWake
               [] mpc \in {"stamp", "nap"} -> SleepTicks(duration)
               [] OTHER                   -> 0

\* The minutes a status page shows are never more than what is left of the
\* pause, rounded up: get_minutes_remaining() reads start_time before
\* duration_minutes and set_timer_start() writes them in the opposite order, so
\* that a page caught between the two shows too little and never too much.
PageNeverOverstates ==
  Runs("server") /\ srv = "localtime" =>
    page.remaining * MinuteTicks <= TicksLeft + (MinuteTicks - 1) + lag["server"]

-----------------------------------------------------------------------------
(***************************************************************************)
(* The inductive invariant behind HighOnlyInRun and RunTimeBounded.        *)
(***************************************************************************)

\* No process, no threads.
DownIsReset == ~Up => mpc = "exec" /\ handler = NoHandler /\ lag = NoLag

\* The main thread is past setup_wring_pi() only with wiringPi set up.
WiredOnceSetUp == Up /\ mpc \notin {"exec", "pinLog", "pinMode"} => wired

\* The scheduling bound that Tick observes.
LagBounded == Up /\ ~Wedged => \A t \in Threads : lag[t] <= MaxLag

\* The pin goes high for a run pause, as long as the run option says ...
RunLength == /\ mpc \in {"startLog", "start"} => phase = "run"
             /\ mpc = "idleLog" => phase = "idle"
             /\ phase = "run" /\ mpc \in {"stamp", "nap"} => duration = RunMinutes

\* ... and the time the pin has been high keeps step with the pause.
RunClock ==
  Cleared /\ level = "HIGH" /\ ~Wedged =>
    /\ mpc \in {"duration", "stamp", "nap"} => held <= lag["main"]
    /\ mpc = "asleep" => held + toWake <= SleepTicks(RunMinutes) + MaxLag + lag["main"]
    /\ mpc \in Stopping => held <= SleepTicks(RunMinutes) + MaxLag + lag["main"]

PinInv == TypeOK /\ DownIsReset /\ WiredOnceSetUp /\ HighOnlyInRun /\ RunLength
RunInv == PinInv /\ LagBounded /\ RunClock

\* Behind HandledExitLow: no handler runs on the debug thread, and a handler
\* that has written the pin finds it low until it exits.
HandlerOnMain == SignalThreads \subseteq {"main"} /\ ~ClientsHangUp /\ ~AddressFails
HandlerDone   == handler["main"] \in {"quit", "close", "exit"}
ExitInv == /\ TypeOK
           /\ handler["server"] = "none"
           /\ HandlerDone /\ wired => level = "LOW"
           /\ HandledExitLow

-----------------------------------------------------------------------------
(***************************************************************************)
(* The inductive invariant behind DecidesByTheClock and HighNearUpTime.    *)
(***************************************************************************)

\* Without the debug thread no page rewrites the buffer of localtime().
NoServer == srv = "off" /\ handler["server"] = "none"

\* check_hours() leaves a window alone that begins and ends after midnight.
UpTimeKept  == UpStart /= 0 /\ UpEnd /= 0 /\ DayHours <= UIntRange
WindowAsSet == startHour = UpStart /\ endHour = UpEnd

\* The hour that is_operation_enabled() reads is that of its localtime() ...
HourRead ==
  Runs("main") /\ mpc = "decide" =>
    \E k \in 0 .. lag["main"] : tm.hour = Hour(TicksAgo(k))

\* ... and what was up_time then is past by no more than the run since.
WindowClock ==
  Cleared /\ ~Wedged /\ phase = "run" =>
    /\ mpc \in {"startLog", "start", "duration", "stamp", "nap"} => WithinUpTime(lag["main"])
    /\ mpc \in {"asleep"} \cup Stopping =>
         WithinUpTime(SleepTicks(RunMinutes) + MaxLag + lag["main"]
                      - (IF mpc = "asleep" THEN toWake ELSE 0))

WindowInv == RunInv /\ NoServer /\ WindowAsSet /\ HourRead /\ WindowClock

-----------------------------------------------------------------------------
(***************************************************************************)
(* The inductive invariant behind PageNeverOverstates.                     *)
(***************************************************************************)

\* No pause wraps in sleep(), and the ages are counted up to the longest.
LongestRest == SleepMinutes + (IF UseRandom THEN RandomRange - 1 ELSE 0)
PausesFit == \A m \in {RunMinutes, LongestRest} :
               m * MinuteTicks < UIntRange /\ m * MinuteTicks <= MaxAge

\* What the settings say is left of the pause is no more than what is left ...
PauseClock == /\ duration * MinuteTicks < UIntRange /\ duration * MinuteTicks <= MaxAge
              /\ duration * MinuteTicks - age <= TicksLeft

\* The start is read first, for the page's list and for its total.
StartReadFirst == "start" \in unread => "length" \in unread
StartInTotal   == srv = "total" /\ "start" \notin unread

\* What get_minutes_remaining() has returned, or would if the length stays.
MinutesInTotal == IF "length" \in unread THEN MinutesRemaining ELSE sum.left

\* ... which stays so for a page that has read the start, and perhaps the length.
NotOver(minutes) == minutes * MinuteTicks <= TicksLeft + (MinuteTicks - 1) + lag["server"]
PageClock ==
  Runs("server") =>
    /\ srv = "remaining" => NotOver(MinutesRemaining)
    /\ StartInTotal => NotOver(MinutesInTotal)

PageInv == /\ TypeOK /\ (~Up => srv = "off") /\ StartReadFirst
           /\ PauseClock /\ PageClock /\ PageNeverOverstates

-----------------------------------------------------------------------------
(***************************************************************************)
(* The inductive invariants behind StartsNearUpTime and PinNearUpTime, on  *)
(* what the code has: pauses of a minute or more (max(..., 1) of the       *)
(* options), threads that get their turn within half a minute, a window    *)
(* within the day, and an epoch long ago, but not so long that hours since *)
(* then wrap.                                                              *)
(***************************************************************************)
PagesInTime ==
  /\ UpTimeKept /\ UpEnd <= DayHours
  /\ PausesFit /\ RunMinutes > 0 /\ SleepMinutes > 0
  /\ 2 * MaxLag < MinuteTicks
  /\ (EpochAge \div MinuteTicks) \div HourMinutes \in (DayHours + 1) .. (UIntRange - DayHours)

\* A process starts with no pause behind it.
NeverPaused == age = EpochAge /\ duration = 0
PauseKnown == /\ mpc \in SetUp => NeverPaused
              /\ mpc \in {"stamp", "nap", "asleep"} => duration > 0
              /\ mpc \in {"nap", "asleep"} => age /= EpochAge
              /\ mpc \in {"check", "decide"} => NeverPaused \/ age /= EpochAge

\* When the loop looks at the hour the last pause is over by no more than the lags.
PauseAge ==
  Up /\ ~Wedged =>
    /\ mpc = "nap" => age <= lag["main"]
    /\ mpc = "asleep" => age + toWake <= SleepTicks(duration) + MaxLag + lag["main"]
    /\ mpc \in {"check", "decide"} =>
         NeverPaused \/ age <= SleepTicks(duration) + MaxLag + lag["main"]

\* By then a page that adds up the next trigger has not read the start of a pause
\* before the last: it would be late by a whole pause.
ElapsedInTotal == duration - MinutesInTotal
ElapsedRead ==
  Runs("main") /\ Runs("server") /\ StartInTotal =>
    /\ mpc \in SetUp \cup {"check", "decide"} /\ NeverPaused =>
         MinutesInTotal = -(EpochAge \div MinuteTicks)
    /\ mpc = "asleep" => \/ ElapsedInTotal * MinuteTicks <= age
                         \/ SleepTicks(duration) <= toWake + lag["server"]
    /\ mpc \in {"check", "decide"} => ElapsedInTotal * MinuteTicks <= age

\* The hour and the minute it adds that to are those that the loop, or itself, has
\* read since the client came, though not always of one time.
ReadLately(hour) == \E k \in 0 .. lag["server"] : hour = Hour(TicksAgo(k))
AMinute(min)     == min \in 0 .. (HourMinutes - 1)
TimeRead ==
  Runs("main") /\ Runs("server") /\ srv = "total" =>
    /\ ReadLately(tm.hour) /\ AMinute(tm.min)
    /\ "hour" \notin unread => ReadLately(sum.hour)
    /\ "min" \notin unread => AMinute(sum.min)

\* So the hour the loop goes by lets the fan run only around up_time.
HourOpen == UpStart <= tm.hour % UIntRange /\ tm.hour % UIntRange < UpEnd
HourNear ==
  Runs("main") /\ ~Wedged =>
    /\ mpc = "decide" /\ HourOpen => NearUpTime(MaxLag + lag["main"])
    /\ mpc \in {"startLog", "start"} => NearUpTime(MaxLag + lag["main"])

StartInv == /\ RunInv /\ PageInv /\ WindowAsSet
            /\ PauseKnown /\ PauseAge /\ ElapsedRead /\ TimeRead /\ HourNear

\* A run that started around up_time is past it by no more than the run so far.
RunNear ==
  Cleared /\ level = "HIGH" /\ ~Wedged =>
    /\ mpc \in {"duration", "stamp", "nap"} => NearUpTime(MaxLag + lag["main"])
    /\ mpc \in {"asleep"} \cup Stopping =>
         NearUpTime(SleepTicks(RunMinutes) + 2 * MaxLag + lag["main"]
                    - (IF mpc = "asleep" THEN toWake ELSE 0))

NearInv == StartInv /\ RunNear

-----------------------------------------------------------------------------
\* A run ends: while the process lives the pin does not stay high for ever,
\* unless a handler is stuck.
RunEnds == (Cleared /\ level = "HIGH") ~> (level = "LOW" \/ ~Up \/ Wedged)

\* As long as nobody stops the process the fan always runs again, whatever the
\* status pages do to the hour.
FanRunsAgain == (Up /\ level = "LOW") ~> (level = "HIGH" \/ ~Up)

\* Once a handler runs the process ends, unless a handler is stuck on the log
\* lock of its own thread.
ShutdownCompletes == (\E t \in Threads : handler[t] /= "none") ~> (~Up \/ Wedged)

-----------------------------------------------------------------------------
(***************************************************************************)
(* A statement of the repository that the code does not keep.              *)
(***************************************************************************)

\* main.c:151 announces "Shutting down the service": it does shut down.
ShutdownAlwaysCompletes == (\E t \in Threads : handler[t] /= "none") ~> ~Up
=============================================================================
