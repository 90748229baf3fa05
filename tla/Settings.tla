------------------------------ MODULE Settings ------------------------------
(***************************************************************************)
(* The shared settings of the timer (pi_timer_settings.c) and the clocks   *)
(* it reads (pi_utils.c): the run and sleep times, the up_time window, the *)
(* start and length of the current pause, and the one buffer in which      *)
(* localtime() hands out the broken-down time to every thread.             *)
(*                                                                         *)
(* Time is counted in ticks; the code's tick is a second, MinuteTicks = 60.*)
(***************************************************************************)
EXTENDS Integers

CONSTANTS
  MinuteTicks,              \* ticks in a minute; 60 in the code
  HourMinutes,              \* minutes in an hour; 60 in the code
  DayHours,                 \* hours in a day; 24 in the code
  UIntRange,                \* number of values of an unsigned int; 2^32
  RunMinutes, SleepMinutes, \* the options run and sleep
  UseRandom, RandomRange,   \* the option random; the 60 of rand() % 60
  UpStart, UpEnd,           \* the option up_time, as parsed
  ResetStart, ResetEnd,     \* the hours 9 and 16 check_hours() writes for 0
  MaxAge,                   \* bound: an age counts up to here and stays
  EpochAge                  \* bound: the age of a start_time still 0, the epoch

ASSUME SettingsAssumption ==
  /\ {MinuteTicks, HourMinutes, DayHours, UIntRange, RandomRange} \subseteq Nat \ {0}
  /\ {RunMinutes, SleepMinutes, UpStart, UpEnd, ResetStart, ResetEnd, MaxAge, EpochAge} \subseteq Nat
  /\ EpochAge > MaxAge
  /\ UseRandom \in BOOLEAN

VARIABLES
  now,        \* the wall clock: ticks since midnight
  tm,         \* the static struct tm localtime() returns
  startHour,  \* start_hour
  endHour,    \* end_hour
  duration,   \* duration_minutes, the length of the current pause
  age,        \* ticks since start_time
  running     \* service_running

hours     == <<startHour, endHour>>
pauseVars == <<duration, age>>
settings  == <<now, tm, hours, pauseVars, running>>

HourTicks == HourMinutes * MinuteTicks
DayTicks  == DayHours * HourTicks

Hour(tick)   == tick \div HourTicks
Minute(tick) == (tick \div MinuteTicks) % HourMinutes

SettingsTypeOK ==
  /\ now \in 0 .. (DayTicks - 1)
  /\ tm \in [hour : Int, min : Int]
  /\ startHour \in Nat /\ endHour \in Nat
  /\ duration \in Nat
  /\ age \in (0 .. MaxAge) \cup {EpochAge}
  /\ running \in BOOLEAN

(***************************************************************************)
(* What a process starts with, once its options are parsed.                *)
(***************************************************************************)
NoTime == [hour |-> 0, min |-> 0]

Fresh(t, s, e, d, a, r) ==
  /\ t = NoTime
  /\ s = UpStart /\ e = UpEnd
  /\ d = 0 /\ a = EpochAge
  /\ r = FALSE

SettingsInit ==
  /\ now \in 0 .. (DayTicks - 1)
  /\ Fresh(tm, startHour, endHour, duration, age, running)

SettingsReset ==
  /\ Fresh(tm', startHour', endHour', duration', age', running')
  /\ UNCHANGED now

-----------------------------------------------------------------------------
(***************************************************************************)
(* The clocks.                                                             *)
(***************************************************************************)
NextTick(tick) == IF tick + 1 = DayTicks THEN 0 ELSE tick + 1
Older(a)       == IF a < MaxAge THEN a + 1 ELSE a

\* localtime() breaks the current time down into the shared buffer.
Localtime == tm' = [hour |-> Hour(now), min |-> Minute(now)]

-----------------------------------------------------------------------------
(***************************************************************************)
(* is_operation_enabled(): localtime(), then the hour is read back from    *)
(* the buffer, check_hours() replaces a zero, and the hour is compared as  *)
(* an unsigned number.                                                     *)
(***************************************************************************)
CheckHours ==
  /\ startHour' = IF startHour = 0 THEN ResetStart ELSE startHour
  /\ endHour'   = IF endHour = 0 THEN ResetEnd ELSE endHour

WindowOpenLateMut == LET hour == tm.hour % UIntRange
                     IN  hour >= startHour' /\ hour <= endHour'
WindowOpenSwappedMut == LET hour == tm.hour % UIntRange
                        IN  hour >= endHour' /\ hour < startHour'
WindowOpen == LET hour == tm.hour % UIntRange
              IN  hour >= startHour' /\ hour < endHour'

-----------------------------------------------------------------------------
(***************************************************************************)
(* The current pause: set_timer_start() writes the length, then the start; *)
(* get_minutes_remaining() reads the start (and the clock), then the       *)
(* length.                                                                 *)
(***************************************************************************)
ElapsedMinutes == age \div MinuteTicks

SetDurationCarriedMut(m) == duration' = m - ElapsedMinutes /\ UNCHANGED age
SetDuration(m) == duration' = m /\ UNCHANGED age
StampStart     == age' = 0 /\ UNCHANGED duration

RandomTime == {(r + SleepMinutes) % UIntRange : r \in 0 .. (RandomRange - 1)}

\* The lengths a pause of each phase of the main loop may have, in minutes.
PauseLengthsSwappedMut(phase) == IF phase = "run" THEN {SleepMinutes} ELSE {RunMinutes}
PauseLengths(phase) ==
  CASE phase = "run"  -> {RunMinutes}
    [] phase = "rest" -> IF UseRandom THEN RandomTime ELSE {SleepMinutes}
    [] phase = "idle" -> {SleepMinutes}

\* sleep(minutes * 60): an unsigned product that wraps.
SleepTicks(m) == (m * MinuteTicks) % UIntRange
=============================================================================
