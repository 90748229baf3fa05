---------------------------- MODULE PiTimerProofs ---------------------------
(***************************************************************************)
(* Proofs about the timer for every value of its constants.                *)
(***************************************************************************)
EXTENDS PiTimerProperties, PiTimerFan, TLAPS

-----------------------------------------------------------------------------
(***************************************************************************)
(* The arithmetic of the clocks.                                           *)
(***************************************************************************)

\* The integer quotient and remainder are integers, the remainder in range.
LEMMA DivMod == ASSUME NEW a \in Int, NEW b \in Nat \ {0}
                PROVE  a \div b \in Int /\ a % b \in 0 .. (b - 1)
  BY SMT

\* A quotient of naturals is a natural.
LEMMA DivNat == ASSUME NEW a \in Nat, NEW b \in Nat \ {0}
                PROVE  a \div b \in Nat
  BY SMT

\* A product of positive numbers is positive.
LEMMA TimesPos == ASSUME NEW a \in Nat \ {0}, NEW b \in Nat \ {0}
                  PROVE  a * b \in Nat \ {0}
  BY SMT

\* What the assumptions say of each constant.
LEMMA ConstantsTyped ==
  /\ MinuteTicks \in Nat \ {0} /\ HourMinutes \in Nat \ {0} /\ DayHours \in Nat \ {0}
  /\ UIntRange \in Nat \ {0} /\ RandomRange \in Nat \ {0}
  /\ RunMinutes \in Nat /\ SleepMinutes \in Nat
  /\ UpStart \in Nat /\ UpEnd \in Nat /\ ResetStart \in Nat /\ ResetEnd \in Nat
  /\ MaxAge \in Nat /\ EpochAge \in Nat /\ EpochAge > MaxAge
  /\ MaxSignals \in Nat /\ MaxLag \in Nat
  /\ SignalThreads \subseteq Threads
  BY SettingsAssumption, PiTimerAssumption

\* An hour and a day last at least a tick.
LEMMA DayPositive == HourTicks \in Nat \ {0} /\ DayTicks \in Nat \ {0}
<1>1. HourTicks \in Nat \ {0}
  BY SettingsAssumption, TimesPos DEF HourTicks
<1>2. QED
  BY <1>1, SettingsAssumption, TimesPos DEF DayTicks

\* Both divisions of the status page are total.
LEMMA CDivTyped == ASSUME NEW a \in Int, NEW b \in Nat \ {0}
                   PROVE  CDiv(a, b) \in Int /\ CMod(a, b) \in Int
<1>1. CDiv(a, b) \in Int
  <2>1. CASE a >= 0  BY <2>1, DivMod DEF CDiv
  <2>2. CASE ~(a >= 0)
    <3>1. -a \in Int  OBVIOUS
    <3>2. (-a) \div b \in Int  BY <3>1, DivMod
    <3>3. QED  BY <2>2, <3>2 DEF CDiv
  <2>3. QED  BY <2>1, <2>2
<1>2. b * CDiv(a, b) \in Int
  BY <1>1
<1>3. QED
  BY <1>1, <1>2 DEF CMod

\* A sleep is a number of ticks no longer than what the option asks for.
LEMMA SleepTicksTyped == ASSUME NEW m \in Nat
                         PROVE  SleepTicks(m) \in Nat /\ SleepTicks(m) <= m * MinuteTicks
<1>1. m * MinuteTicks \in Nat
  BY SettingsAssumption
<1>2. ASSUME NEW x \in Nat, NEW u \in Nat \ {0}
      PROVE  x % u \in Nat /\ x % u <= x
  BY <1>2, SMT
<1>3. QED
  BY <1>1, <1>2, SettingsAssumption DEF SleepTicks

\* A pause of any phase has a length in minutes.
LEMMA PauseLengthsTyped == ASSUME NEW f \in {"run", "rest", "idle"}
                           PROVE  PauseLengths(f) \subseteq Nat
<1>1. RandomTime \subseteq Nat
  <2>1. ASSUME NEW r \in 0 .. (RandomRange - 1)
        PROVE  (r + SleepMinutes) % UIntRange \in Nat
    <3>1. r + SleepMinutes \in Int /\ UIntRange \in Nat \ {0}
      BY SettingsAssumption
    <3>2. (r + SleepMinutes) % UIntRange \in 0 .. (UIntRange - 1)
      BY <3>1, DivMod
    <3>3. QED  BY <3>1, <3>2
  <2>2. QED  BY <2>1 DEF RandomTime
<1>2. QED
  BY <1>1, SettingsAssumption DEF PauseLengths

-----------------------------------------------------------------------------
(***************************************************************************)
(* Types.                                                                  *)
(***************************************************************************)

\* Writing the pin keeps its types.
LEMMA SetGpioTyped == ASSUME PlatformTypeOK, NEW v \in {"LOW", "HIGH"}, SetGpio(v)
                      PROVE  /\ level' \in {"LOW", "HIGH"}
                             /\ held' \in 0 .. MaxAge
                             /\ wired' \in BOOLEAN
  BY SettingsAssumption DEF PlatformTypeOK, SetGpio

\* localtime() fills the buffer with integers.
LEMMA LocaltimeTyped == ASSUME SettingsTypeOK, Localtime
                        PROVE  tm' \in [hour : Int, min : Int]
<1>1. now \in Int  BY DayPositive DEF SettingsTypeOK
<1>2. Hour(now) \in Int  BY <1>1, DayPositive, DivMod DEF Hour
<1>3. MinuteTicks \in Nat \ {0} /\ HourMinutes \in Nat \ {0}  BY SettingsAssumption
<1>4. now \div MinuteTicks \in Int  BY <1>1, <1>3, DivMod
<1>5. Minute(now) \in Int  BY <1>3, <1>4, DivMod DEF Minute
<1>6. QED  BY <1>2, <1>5 DEF Localtime

\* The types hold when the process starts ...
LEMMA InitTyped == Init => TypeOK
<1> SUFFICES ASSUME Init PROVE TypeOK  OBVIOUS
<1> USE ConstantsTyped
<1>1. SettingsTypeOK
  <2>1. tm \in [hour : Int, min : Int]  BY DEF Init, SettingsInit, Fresh, NoTime
  <2>2. QED  BY <2>1 DEF Init, SettingsInit, Fresh, SettingsTypeOK
<1>2. PlatformTypeOK
  <2>1. lag \in [Threads -> Nat]  BY DEF Init, PlatformInit, NoLag
  <2>2. held \in 0 .. MaxAge  BY DEF Init, PlatformInit
  <2>3. wired \in BOOLEAN /\ level \in {"LOW", "HIGH"}  BY DEF Init, PlatformInit
  <2>4. logger \in Threads \cup {"free"}  BY DEF Init, PlatformInit
  <2>5. QED  BY <2>1, <2>2, <2>3, <2>4 DEF PlatformTypeOK
<1>3. MainTypeOK
  BY DEF Init, MainInit, MainFresh, MainTypeOK, MainPoints, SetUp
<1>4. SrvTypeOK
  BY DEF Init, SrvInit, SrvFresh, SrvTypeOK, SrvPoints, NoPage, NoSum
<1>5. QED
  BY <1>1, <1>2, <1>3, <1>4 DEF Init, TypeOK, NoHandler, HandlerPoints

\* ... every step of the main thread keeps them ...
LEMMA MainTyped == TypeOK /\ MainActs => TypeOK'
<1> SUFFICES ASSUME TypeOK, MainActs PROVE TypeOK'  OBVIOUS
<1> USE DEF TypeOK, SettingsTypeOK, PlatformTypeOK, MainTypeOK, SrvTypeOK, settings, hours,
     pauseVars, platform, pinVars, mainVars, srvVars, sumVars, processVars
<1>0. UNCHANGED processVars
  BY DEF MainActs
<1>1. CASE LogBegin /\ UNCHANGED srvVars
  BY <1>0, <1>1 DEF LogBegin, TakeLog, Threads
<1>2. CASE LogEnd /\ UNCHANGED srvVars
  BY <1>0, <1>2 DEF LogEnd, DropLog, AfterLog, MainPoints, SetUp, Pausing, Stopping
<1>3. CASE Exec /\ UNCHANGED srvVars
  BY <1>0, <1>3 DEF Exec, Step, MainPoints, SetUp
<1>4. CASE SetupWiringPi /\ UNCHANGED srvVars
  BY <1>0, <1>4 DEF SetupWiringPi, SetPinMode, Step, MainPoints, SetUp
<1>5. CASE SetRunning /\ UNCHANGED srvVars
  BY <1>0, <1>5 DEF SetRunning, Step, MainPoints, SetUp
<1>6. CASE Clear /\ UNCHANGED srvVars
  BY <1>0, <1>6, SetGpioTyped DEF Clear, Step, MainPoints
<1>7. CASE Check /\ UNCHANGED srvVars
  BY <1>0, <1>7, LocaltimeTyped DEF Check, Step, MainPoints
<1>8. CASE Decide /\ UNCHANGED srvVars
  BY <1>0, <1>8, ConstantsTyped DEF Decide, CheckHours, MainPoints
<1>9. CASE Start /\ UNCHANGED srvVars
  BY <1>0, <1>9, SetGpioTyped DEF Start, Step, MainPoints, Pausing
<1>10. CASE Stop /\ UNCHANGED srvVars
  BY <1>0, <1>10, SetGpioTyped DEF Stop, Step, MainPoints, Pausing
<1>11. CASE PauseLength /\ UNCHANGED srvVars
  BY <1>0, <1>11, PauseLengthsTyped DEF PauseLength, SetDuration, Step, MainPoints, Pausing
<1>12. CASE PauseStamp /\ UNCHANGED srvVars
  BY <1>0, <1>12, ConstantsTyped DEF PauseStamp, StampStart, Step, MainPoints, Pausing
<1>13. CASE Nap /\ UNCHANGED srvVars
  BY <1>0, <1>13, SleepTicksTyped DEF Nap, Waits, Step, MainPoints, Pausing
<1>14. CASE Wake /\ UNCHANGED srvVars
  BY <1>0, <1>14 DEF Wake, MainPoints, Stopping
<1>15. CASE Spawn
  BY <1>0, <1>15 DEF Spawn, Step, MainPoints, SetUp, SrvPoints, AfterSrvLog
<1>16. QED
  BY <1>1, <1>2, <1>3, <1>4, <1>5, <1>6, <1>7, <1>8, <1>9, <1>10, <1>11, <1>12,
     <1>13, <1>14, <1>15 DEF MainActs, MainStep

\* ... of the debug thread ...
LEMMA SrvTyped == TypeOK /\ (SrvActs \/ Client) => TypeOK'
<1> SUFFICES ASSUME TypeOK, SrvActs \/ Client PROVE TypeOK'  OBVIOUS
<1> USE DEF TypeOK, SettingsTypeOK, PlatformTypeOK, MainTypeOK, SrvTypeOK, ReadsOnly, settings,
     hours, pauseVars, platform, pinVars, mainVars, srvVars, sumVars, processVars
<1>0. UNCHANGED <<mainVars, processVars>>
  BY DEF SrvActs, Client
<1>1. CASE SrvLogBegin
  BY <1>0, <1>1 DEF SrvLogBegin, TakeLog, Threads
<1>2. CASE SrvLogEnd
  BY <1>0, <1>2 DEF SrvLogEnd, DropLog, AfterSrvLog, SrvPoints
<1>3. CASE Socket
  BY <1>0, <1>3 DEF Socket, Goto, AfterSrvLog, SrvPoints
<1>4. CASE Bind
  BY <1>0, <1>4 DEF Bind, Goto, AfterSrvLog, SrvPoints
<1>5. CASE Loop
  BY <1>0, <1>5 DEF Loop, Goto, Waits, SrvPoints
<1>6. CASE Accept
  BY <1>0, <1>6 DEF Accept, Goto, SrvPoints
<1>7. CASE ReadElapsed
  BY <1>0, <1>7, ConstantsTyped, DivNat DEF ReadElapsed, Goto, ElapsedMinutes, SrvPoints
<1>8. CASE PrintRemaining
  BY <1>0, <1>8 DEF PrintRemaining, Goto, MinutesRemaining, SrvPoints
<1>9. CASE PageTime
  BY <1>0, <1>9, LocaltimeTyped DEF PageTime, Goto, SrvPoints
<1>10. CASE ReadHour \/ ReadMin \/ ReadStart \/ ReadLength
  <2>1. ElapsedMinutes \in Nat /\ MinutesRemaining \in Int
    BY ConstantsTyped, DivNat DEF ElapsedMinutes, MinutesRemaining
  <2>2. QED
    BY <1>0, <1>10, <2>1 DEF ReadHour, ReadMin, ReadStart, ReadLength, Read, sumVars
<1>11. CASE SetHour \/ SetMin
  <2>1. TotalMinutes \in Int
    BY ConstantsTyped DEF TotalMinutes
  <2>2. CDiv(TotalMinutes, HourMinutes) \in Int /\ CMod(TotalMinutes, HourMinutes) \in Int
    BY <2>1, CDivTyped, ConstantsTyped
  <2>3. QED
    BY <1>0, <1>11, <2>2 DEF SetHour, SetMin, Goto, SrvPoints, NoSum
<1>12. CASE PrintTrigger
  BY <1>0, <1>12 DEF PrintTrigger, Goto, Waits, SrvPoints
<1>13. CASE Send
  BY <1>0, <1>13 DEF Send, Goto, NoPage, SrvPoints
<1>14. QED
  BY <1>1, <1>2, <1>3, <1>4, <1>5, <1>6, <1>7, <1>8, <1>9, <1>10, <1>11, <1>12, <1>13
     DEF SrvActs, Client, SrvStep

\* ... of a process that ends or begins ...
LEMMA DieTyped == ASSUME TypeOK, NEW how \in Endings, Die(how) PROVE TypeOK'
<1> USE DEF TypeOK, pinVars
<1>1. SettingsTypeOK'
  <2>1. tm' \in [hour : Int, min : Int]  BY DEF Die, SettingsReset, Fresh, NoTime
  <2>2. QED  BY <2>1, ConstantsTyped DEF Die, SettingsReset, Fresh, SettingsTypeOK
<1>2. PlatformTypeOK'
  <2>1. lag' \in [Threads -> Nat]  BY DEF Die, NoLag
  <2>2. QED  BY <2>1 DEF Die, PlatformTypeOK
<1>3. MainTypeOK'
  BY DEF Die, MainReset, MainFresh, MainTypeOK, MainPoints, SetUp
<1>4. SrvTypeOK'
  BY DEF Die, SrvReset, SrvFresh, SrvTypeOK, SrvPoints, NoSum, NoPage
<1>5. handler' \in [Threads -> HandlerPoints]
  BY DEF Die, NoHandler, HandlerPoints
<1>6. status' \in {"off", "up"} \cup Endings /\ signals' \in 0 .. MaxSignals
  BY ConstantsTyped DEF Die
<1>7. QED  BY <1>1, <1>2, <1>3, <1>4, <1>5, <1>6

LEMMA LaunchTyped == TypeOK /\ Launch => TypeOK'
  BY DEF TypeOK, Launch, SettingsTypeOK, PlatformTypeOK, MainTypeOK, SrvTypeOK, settings, hours,
     pauseVars, mainVars, srvVars, sumVars

\* ... of a signal ...
LEMMA InterruptTyped == ASSUME TypeOK, NEW t \in Threads, Interrupt(t) PROVE TypeOK'
<1>1. handler' \in [Threads -> HandlerPoints]
  BY DEF TypeOK, Interrupt, HandlerPoints
<1>2. signals' \in 0 .. MaxSignals
  BY ConstantsTyped DEF TypeOK, Interrupt
<1>3. QED
  BY <1>1, <1>2 DEF TypeOK, Interrupt, SettingsTypeOK, PlatformTypeOK, MainTypeOK, SrvTypeOK,
     settings, hours, pauseVars, platform, pinVars, mainVars, srvVars, sumVars

\* ... of a handler ...
LEMMA HandlerTyped == ASSUME TypeOK, NEW t \in Threads, HandlerActs(t) PROVE TypeOK'
<1> USE DEF TypeOK, SettingsTypeOK, PlatformTypeOK, MainTypeOK, SrvTypeOK, Quietly, settings,
     hours, pauseVars, platform, pinVars, mainVars, srvVars, sumVars
<1>1. ASSUME NEW from, NEW to \in HandlerPoints, HandlerAt(t, from, to)
      PROVE  handler' \in [Threads -> HandlerPoints]
  BY <1>1 DEF HandlerAt
<1>2. CASE HandlerLogBegin(t)
  <2>1. handler' \in [Threads -> HandlerPoints]
    BY <1>1, <1>2 DEF HandlerLogBegin, HandlerPoints
  <2>2. QED  BY <1>2, <2>1 DEF HandlerLogBegin, TakeLog
<1>3. CASE HandlerLogEnd(t)
  <2>1. handler' \in [Threads -> HandlerPoints]
    BY <1>1, <1>3 DEF HandlerLogEnd, HandlerPoints
  <2>2. QED  BY <1>3, <2>1 DEF HandlerLogEnd, DropLog
<1>4. CASE HandlerStop(t)
  <2>1. handler' \in [Threads -> HandlerPoints]
    BY <1>1, <1>4 DEF HandlerStop, HandlerPoints
  <2>2. QED  BY <1>4, <2>1, SetGpioTyped DEF HandlerStop
<1>5. CASE HandlerQuit(t)
  <2>1. handler' \in [Threads -> HandlerPoints]
    BY <1>1, <1>5 DEF HandlerQuit, HandlerPoints
  <2>2. QED  BY <1>5, <2>1 DEF HandlerQuit
<1>6. CASE HandlerClose(t)
  <2>1. handler' \in [Threads -> HandlerPoints]
    BY <1>1, <1>6 DEF HandlerClose, HandlerPoints
  <2>2. QED  BY <1>6, <2>1 DEF HandlerClose
<1>7. CASE HandlerExit(t)
  BY <1>7, DieTyped DEF HandlerExit, Endings
<1>8. QED
  BY <1>2, <1>3, <1>4, <1>5, <1>6, <1>7 DEF HandlerActs

\* ... and of time.
LEMMA TickTyped == TypeOK /\ Tick => TypeOK'
<1> SUFFICES ASSUME TypeOK, Tick PROVE TypeOK'  OBVIOUS
<1>1. now' \in 0 .. (DayTicks - 1)
  BY DayPositive DEF TypeOK, SettingsTypeOK, Tick, NextTick
<1>2. age' \in (0 .. MaxAge) \cup {EpochAge} /\ held' \in 0 .. MaxAge
  BY ConstantsTyped DEF TypeOK, SettingsTypeOK, PlatformTypeOK, Tick, Older
<1>3. lag' \in [Threads -> Nat]
  BY DEF TypeOK, PlatformTypeOK, Tick
<1>4. toWake' \in Nat
  BY DEF TypeOK, MainTypeOK, Tick, MainAsleep, Resting
<1>5. QED
  BY <1>1, <1>2, <1>3, <1>4 DEF TypeOK, Tick, SettingsTypeOK, PlatformTypeOK, MainTypeOK,
     SrvTypeOK, hours, srvVars, sumVars, processVars

\* Every step keeps the types.
LEMMA NextTyped == TypeOK /\ [Next]_vars => TypeOK'
<1> SUFFICES ASSUME TypeOK, [Next]_vars PROVE TypeOK'  OBVIOUS
<1>1. CASE MainActs  BY <1>1, MainTyped
<1>2. CASE SrvActs \/ Client  BY <1>2, SrvTyped
<1>3. CASE DaemonFails  BY <1>3, DieTyped DEF DaemonFails, Endings
<1>4. CASE Kill  BY <1>4, DieTyped DEF Kill, Endings
<1>5. CASE Launch  BY <1>5, LaunchTyped
<1>6. CASE \E t \in SignalThreads : Signal(t)
  BY <1>6, InterruptTyped, ConstantsTyped DEF Signal
<1>7. CASE Fault  BY <1>7, InterruptTyped DEF Fault, Threads
<1>8. CASE \E t \in Threads : HandlerActs(t)  BY <1>8, HandlerTyped
<1>9. CASE Tick  BY <1>9, TickTyped
<1>10. CASE UNCHANGED vars
  BY <1>10 DEF vars, TypeOK, SettingsTypeOK, PlatformTypeOK, MainTypeOK, SrvTypeOK, settings,
     hours, pauseVars, platform, pinVars, mainVars, srvVars, sumVars, processVars
<1>11. QED
  BY <1>1, <1>2, <1>3, <1>4, <1>5, <1>6, <1>7, <1>8, <1>9, <1>10 DEF Next

\* Type correctness: whatever the threads, the handlers and the environment do,
\* every variable keeps its type.
THEOREM TypesHold == Spec => []TypeOK
<1>1. Init => TypeOK  BY InitTyped
<1>2. TypeOK /\ [Next]_vars => TypeOK'  BY NextTyped
<1>3. QED  BY <1>1, <1>2, PTL DEF Spec

-----------------------------------------------------------------------------
(***************************************************************************)
(* The pin is high only in the run pause.                                  *)
(***************************************************************************)

LEMMA PinInvInit == Init => PinInv
<1> SUFFICES ASSUME Init PROVE PinInv  OBVIOUS
<1>1. TypeOK  BY InitTyped
<1>2. QED
  BY <1>1 DEF Init, PinInv, DownIsReset, WiredOnceSetUp, HighOnlyInRun, RunLength, Up, Cleared,
     MainInit, MainFresh, PlatformInit

\* A step of the main thread keeps the pin in step with the loop.
LEMMA PinInvMain == PinInv /\ MainActs => PinInv'
<1> SUFFICES ASSUME PinInv, MainActs PROVE PinInv'  OBVIOUS
<1>0. TypeOK' /\ Up /\ Up' /\ handler' = handler
  BY MainTyped DEF PinInv, MainActs, Runs, Up, processVars
<1> USE <1>0 DEF PinInv, DownIsReset, WiredOnceSetUp, HighOnlyInRun, RunLength, Cleared, RunPause,
                 SetUp, Pausing, Stopping, settings, pauseVars, platform, pinVars, mainVars
<1>1. CASE LogBegin
  BY <1>1 DEF LogBegin
<1>2. CASE LogEnd
  BY <1>2 DEF LogEnd, AfterLog
<1>3. CASE Exec
  BY <1>3 DEF Exec, Step
<1>4. CASE SetupWiringPi
  BY <1>4 DEF SetupWiringPi, SetPinMode, Step
<1>5. CASE SetRunning
  BY <1>5 DEF SetRunning, Step
<1>6. CASE Clear
  BY <1>6 DEF Clear, SetGpio, Step
<1>7. CASE Check
  BY <1>7 DEF Check, Step
<1>8. CASE Decide
  BY <1>8 DEF Decide
<1>9. CASE Start
  BY <1>9 DEF Start, SetGpio, Step
<1>10. CASE Stop
  BY <1>10 DEF Stop, SetGpio, Step
<1>11. CASE PauseLength
  BY <1>11 DEF PauseLength, PauseLengths, SetDuration, Step
<1>12. CASE PauseStamp
  BY <1>12 DEF PauseStamp, StampStart, Step
<1>13. CASE Nap
  BY <1>13 DEF Nap, Step
<1>14. CASE Wake
  BY <1>14 DEF Wake
<1>15. CASE Spawn
  BY <1>15 DEF Spawn, Step
<1>16. QED
  BY <1>1, <1>2, <1>3, <1>4, <1>5, <1>6, <1>7, <1>8, <1>9, <1>10, <1>11, <1>12,
     <1>13, <1>14, <1>15 DEF MainActs, MainStep

\* No other step can set the pin high, or move the main thread but to the start.
LEMMA PinInvOther ==
  ASSUME PinInv, [Next]_vars, ~MainActs PROVE PinInv'
<1>0. TypeOK'  BY NextTyped DEF PinInv
<1> USE <1>0 DEF PinInv, DownIsReset, WiredOnceSetUp, HighOnlyInRun, RunLength, Cleared, RunPause,
                 Up, SetUp, Pausing, Stopping
<1>1. CASE SrvActs \/ Client
  <2>1. /\ UNCHANGED <<mainVars, processVars>>
        /\ UNCHANGED <<level, wired, duration, lag>> \/ (UNCHANGED <<level, wired, duration>> /\ status = "up")
    BY <1>1 DEF SrvActs, Client, Runs, SrvStep, SrvLogBegin, SrvLogEnd, Socket, Bind, Loop, Accept,
     ReadElapsed, PrintRemaining, PageTime, Read, ReadHour, ReadMin, ReadStart, ReadLength, SetHour,
     SetMin, PrintTrigger, Send, ReadsOnly, settings, pauseVars, platform, pinVars
  <2>2. QED  BY <2>1 DEF mainVars, processVars
<1>2. ASSUME NEW how \in Endings, Die(how) PROVE PinInv'
  BY <1>2 DEF Die, MainReset, MainFresh, Endings
<1>3. CASE DaemonFails  BY <1>2, <1>3 DEF DaemonFails, Endings
<1>4. CASE Kill  BY <1>2, <1>4 DEF Kill, Endings
<1>5. CASE Launch
  BY <1>5 DEF Launch, mainVars, settings, pauseVars
<1>6. ASSUME NEW t \in Threads, Interrupt(t), Up PROVE PinInv'
  BY <1>6 DEF Interrupt, mainVars, settings, pauseVars, platform, pinVars
<1>7. CASE \E t \in SignalThreads : Signal(t)
  BY <1>6, <1>7, ConstantsTyped DEF Signal
<1>8. CASE Fault
  BY <1>6, <1>8 DEF Fault, Runs, Threads
<1>9. ASSUME NEW t \in Threads, HandlerActs(t) PROVE PinInv'
  <2>1. CASE HandlerExit(t)
    BY <1>2, <2>1 DEF HandlerExit, Endings
  <2>2. CASE HandlerStop(t)
    BY <2>2 DEF HandlerStop, HandlerAt, Quietly, SetGpio, mainVars, settings, pauseVars
  <2>3. CASE HandlerLogBegin(t) \/ HandlerLogEnd(t) \/ HandlerQuit(t) \/ HandlerClose(t)
    BY <2>3 DEF HandlerLogBegin, HandlerLogEnd, HandlerQuit, HandlerClose, HandlerAt, Quietly,
       mainVars, settings, pauseVars, platform, pinVars
  <2>4. QED  BY <1>9, <2>1, <2>2, <2>3 DEF HandlerActs
<1>10. CASE Tick
  <2>1. ~Up => lag' = lag
    BY <1>10 DEF Tick, Due, TypeOK, PlatformTypeOK
  <2>2. QED  BY <1>10, <2>1 DEF Tick, processVars
<1>11. CASE UNCHANGED vars
  BY <1>11 DEF vars, mainVars, processVars, settings, pauseVars, platform, pinVars
<1>12. QED
  BY <1>1, <1>3, <1>4, <1>5, <1>7, <1>8, <1>9, <1>10, <1>11 DEF Next

\* The pin is high only in the run pause of the main loop, on whichever threads
\* the handlers run.
THEOREM HighOnlyInRunHolds == Spec => []HighOnlyInRun
<1>1. Init => PinInv  BY PinInvInit
<1>2. PinInv /\ [Next]_vars => PinInv'
  BY PinInvMain, PinInvOther
<1>3. PinInv => HighOnlyInRun  BY DEF PinInv
<1>4. QED  BY <1>1, <1>2, <1>3, PTL DEF Spec

-----------------------------------------------------------------------------
(***************************************************************************)
(* A handled signal leaves the pin low, if handlers run on the main thread *)
(* only: there they hold the one thread that could set the pin high again. *)
(***************************************************************************)

LEMMA ExitInvInit == Init => ExitInv
<1>1. Init => TypeOK  BY InitTyped
<1>2. QED
  BY <1>1 DEF Init, ExitInv, HandlerDone, HandledExitLow, NoHandler, Threads

LEMMA ExitInvNext == ASSUME HandlerOnMain, ExitInv, [Next]_vars PROVE ExitInv'
<1>0. TypeOK'  BY NextTyped DEF ExitInv
<1>t. handler \in [Threads -> HandlerPoints] /\ Threads = {"main", "server"}
  BY DEF ExitInv, TypeOK, Threads
<1> USE <1>0, <1>t DEF ExitInv, HandlerDone, HandledExitLow
<1>1. CASE MainActs
  <2>1. ~HandlerDone /\ status = "up" /\ UNCHANGED <<status, handler>>
    BY <1>1 DEF MainActs, Runs, Up, processVars
  <2>2. QED  BY <2>1
<1>2. CASE SrvActs \/ Client
  <2>1. UNCHANGED <<level, wired, status, handler>>
    BY <1>2 DEF SrvActs, Client, SrvStep, SrvLogBegin, SrvLogEnd, Socket, Bind, Loop, Accept,
     ReadElapsed, PrintRemaining, PageTime, Read, ReadHour, ReadMin, ReadStart, ReadLength, SetHour,
     SetMin, PrintTrigger, Send, ReadsOnly, platform, pinVars, processVars
  <2>2. QED  BY <2>1
<1>3. ASSUME NEW how \in Endings, Die(how), how = "handled" /\ wired => level = "LOW"
      PROVE  ExitInv'
  BY <1>3 DEF Die, NoHandler, pinVars
<1>4. CASE DaemonFails  BY <1>3, <1>4 DEF DaemonFails, Endings
<1>5. CASE Kill  BY <1>3, <1>5 DEF Kill, Endings
<1>6. CASE Launch  BY <1>6 DEF Launch
<1>7. CASE \E t \in SignalThreads : Signal(t)
  <2>1. Signal("main")  BY <1>7 DEF HandlerOnMain
  <2>2. QED
    BY <2>1 DEF Signal, Interrupt, platform, pinVars
<1>8. CASE Fault  BY <1>8 DEF Fault, HandlerOnMain
<1>9. CASE \E t \in Threads : HandlerActs(t)
  <2>1. HandlerActs("main")
    BY <1>9 DEF HandlerActs, HandlerLogBegin, HandlerLogEnd, HandlerStop, HandlerQuit,
       HandlerClose, HandlerExit, HandlerAt
  <2>2. CASE HandlerLogBegin("main") \/ HandlerLogEnd("main")
    BY <2>2 DEF HandlerLogBegin, HandlerLogEnd, HandlerAt, Quietly, pinVars
  <2>3. CASE HandlerStop("main")
    BY <2>3 DEF HandlerStop, HandlerAt, Quietly, SetGpio
  <2>4. CASE HandlerQuit("main") \/ HandlerClose("main")
    BY <2>4 DEF HandlerQuit, HandlerClose, HandlerAt, Quietly, platform, pinVars
  <2>5. CASE HandlerExit("main")
    BY <1>3, <2>5 DEF HandlerExit, Endings
  <2>6. QED  BY <2>1, <2>2, <2>3, <2>4, <2>5 DEF HandlerActs
<1>10. CASE Tick  BY <1>10 DEF Tick, processVars
<1>11. CASE UNCHANGED vars  BY <1>11 DEF vars, platform, pinVars, processVars
<1>12. QED
  BY <1>1, <1>2, <1>4, <1>5, <1>6, <1>7, <1>8, <1>9, <1>10, <1>11 DEF Next

\* With every handler on the main thread, a process that ends by a signal it
\* handles leaves the pin low.
THEOREM HandledExitLowHolds == ASSUME HandlerOnMain PROVE Spec => []HandledExitLow
<1>1. Init => ExitInv  BY ExitInvInit
<1>2. ExitInv /\ [Next]_vars => ExitInv'  BY ExitInvNext
<1>3. ExitInv => HandledExitLow  BY DEF ExitInv
<1>4. QED  BY <1>1, <1>2, <1>3, PTL DEF Spec

-----------------------------------------------------------------------------
(***************************************************************************)
(* How long the pin stays high.                                            *)
(***************************************************************************)

LEMMA RunInvInit == Init => RunInv
<1> SUFFICES ASSUME Init PROVE RunInv  OBVIOUS
<1>1. PinInv  BY PinInvInit
<1>2. ~Up  BY DEF Init, Up
<1>3. QED  BY <1>1, <1>2 DEF RunInv, LagBounded, RunClock, Cleared

\* A handler that waits for its own thread's lock waits until the process ends.
LEMMA WedgedStays == ASSUME TypeOK, Next, Wedged, Up, Up' PROVE Wedged'
<1> PICK t \in Threads : WedgedOn(t)
  BY DEF Wedged
<1> SUFFICES WedgedOn(t)'
  BY DEF Wedged
<1>t. handler \in [Threads -> HandlerPoints] /\ Threads = {"main", "server"}
  BY DEF TypeOK, Threads
<1> USE <1>t DEF WedgedOn
<1>1. CASE MainActs
  <2>1. t = "server" /\ logger = "server" /\ handler' = handler
    BY <1>1 DEF MainActs, Runs, processVars
  <2>2. logger' = logger
    BY <1>1, <2>1 DEF MainActs, MainStep, LogBegin, LogEnd, TakeLog, DropLog, Exec, SetupWiringPi,
       SetRunning, Clear, Check, Decide, Start, Stop, PauseLength, PauseStamp, Nap, Wake, Spawn,
       platform
  <2>3. QED  BY <2>1, <2>2
<1>2. CASE SrvActs \/ Client
  <2>1. t = "main" /\ logger = "main" /\ handler' = handler
    BY <1>2 DEF SrvActs, Client, Runs, processVars
  <2>2. logger' = logger
    BY <1>2, <2>1 DEF SrvActs, Client, SrvStep, SrvLogBegin, SrvLogEnd, TakeLog, DropLog, Socket,
     Bind, Loop, Accept, ReadElapsed, PrintRemaining, PageTime, Read, ReadHour, ReadMin, ReadStart,
     ReadLength, SetHour, SetMin, PrintTrigger, Send, ReadsOnly, platform
  <2>3. QED  BY <2>1, <2>2
<1>3. CASE DaemonFails \/ Kill
  BY <1>3 DEF DaemonFails, Kill, Die, Up
<1>4. CASE Launch  BY <1>4 DEF Launch
<1>5. ASSUME NEW s \in Threads, Interrupt(s) PROVE WedgedOn(t)'
  BY <1>5 DEF Interrupt, platform
<1>6. CASE \E s \in SignalThreads : Signal(s)
  BY <1>5, <1>6, ConstantsTyped DEF Signal
<1>7. CASE Fault  BY <1>5, <1>7 DEF Fault
<1>8. ASSUME NEW s \in Threads, HandlerActs(s) PROVE WedgedOn(t)'
  <2>1. ~HandlerExit(s)  BY DEF HandlerExit, Die, Up
  <2>2. s /= t /\ logger' = logger /\ handler'[t] = handler[t]
    BY <1>8, <2>1 DEF HandlerActs, HandlerLogBegin, HandlerLogEnd, HandlerStop, HandlerQuit,
       HandlerClose, HandlerAt, TakeLog, DropLog, platform
  <2>3. QED  BY <2>2
<1>9. CASE Tick  BY <1>9 DEF Tick, processVars
<1>10. QED
  BY <1>1, <1>2, <1>3, <1>4, <1>6, <1>7, <1>8, <1>9 DEF Next

\* A step that leaves the loop and its lag alone, and sets no pin high, leaves
\* the run clock alone.
LEMMA RunInvIdle ==
  ASSUME RunInv, PinInv', Next, Up, Up', UNCHANGED <<mpc, toWake>>,
         lag'["main"] = lag["main"], \A t \in Threads : lag'[t] = lag[t] \/ lag'[t] = 0,
         UNCHANGED <<level, held>> \/ level' = "LOW"
  PROVE  RunInv'
<1>1. ~Wedged' => ~Wedged
  BY WedgedStays DEF RunInv, PinInv
<1>2. LagBounded'
  BY <1>1, ConstantsTyped DEF RunInv, LagBounded
<1>3. RunClock'
  BY <1>1 DEF RunInv, RunClock, Cleared, Stopping
<1>4. QED  BY <1>2, <1>3 DEF RunInv

\* A step of the main thread keeps the run clock.
LEMMA RunInvMain == RunInv /\ MainActs => RunInv'
<1> SUFFICES ASSUME RunInv, MainActs PROVE RunInv'  OBVIOUS
<1>1. PinInv /\ PinInv' /\ TypeOK /\ TypeOK'
  BY PinInvMain DEF RunInv, PinInv
<1>2. Up /\ Up'
  BY DEF MainActs, Runs, Up, processVars
<1>3. ~Wedged' => ~Wedged
  BY <1>1, <1>2, WedgedStays DEF Next
<1>4. /\ held \in Nat /\ toWake \in Nat /\ lag \in [Threads -> Nat] /\ MaxLag \in Nat
      /\ SleepTicks(RunMinutes) \in Nat /\ "main" \in Threads
  BY <1>1, ConstantsTyped, SleepTicksTyped
     DEF TypeOK, PlatformTypeOK, MainTypeOK, Threads
<1> USE <1>2, <1>3, <1>4 DEF RunInv, LagBounded, RunClock, Cleared, Stopping, mainVars, pinVars, platform
<1>5. CASE LogBegin
  BY <1>1, <1>5 DEF LogBegin
<1>6. CASE LogEnd
  <2>1. /\ UNCHANGED <<level, held, lag, toWake>>
        /\ mpc' = "duration" => mpc = "idleLog"
        /\ mpc' = "stop" => mpc = "stopLog"
        /\ mpc' \notin {"stamp", "nap", "asleep", "stopLog"}
    BY <1>6 DEF LogEnd, AfterLog
  <2>2. mpc = "idleLog" => level = "LOW"
    BY <1>1 DEF PinInv, TypeOK, PlatformTypeOK, HighOnlyInRun, RunPause, SetUp, Pausing
  <2>3. mpc \notin SetUp \/ mpc' \notin {"duration", "stop"}
    BY <1>6 DEF LogEnd, AfterLog, SetUp
  <2>4. QED  BY <1>1, <2>1, <2>2, <2>3
<1>7. CASE Exec \/ SetupWiringPi \/ SetRunning \/ Spawn
  <2>1. mpc' \in SetUp /\ UNCHANGED lag
    BY <1>7 DEF Exec, SetupWiringPi, SetRunning, Spawn, Step, SetUp
  <2>2. QED  BY <1>1, <2>1
<1>8. CASE Clear \/ Check \/ Decide
  <2>1. mpc' \in {"check", "decide", "startLog", "idleLog"} /\ UNCHANGED lag
    BY <1>8 DEF Clear, Check, Decide, Step
  <2>2. QED  BY <1>1, <2>1
<1>9. CASE Start
  <2>1. level = "LOW"
    BY <1>1, <1>9 DEF Start, Step, PinInv, TypeOK, PlatformTypeOK, HighOnlyInRun, RunPause, SetUp, Pausing
  <2>2. level' = "HIGH" => held' = 0
    BY <1>9, <2>1 DEF Start, SetGpio
  <2>3. mpc' = "duration" /\ UNCHANGED lag
    BY <1>9 DEF Start, Step
  <2>4. QED  BY <1>1, <2>2, <2>3
<1>10. CASE Stop
  <2>1. mpc' = "duration" /\ level' = "LOW" /\ UNCHANGED lag
    BY <1>1, <1>10 DEF Stop, Step, SetGpio, PinInv, WiredOnceSetUp
  <2>2. QED  BY <1>1, <2>1
<1>11. CASE PauseLength \/ PauseStamp
  <2>1. /\ UNCHANGED <<level, held, lag, toWake, logger>>
        /\ mpc \in {"duration", "stamp"} /\ mpc' \in {"stamp", "nap"}
    BY <1>11 DEF PauseLength, PauseStamp, Step
  <2>2. QED  BY <1>1, <2>1 DEF SetUp
<1>12. CASE Nap
  <2>1. UNCHANGED <<level, held, logger>> /\ mpc = "nap" /\ mpc' = "asleep"
    BY <1>12 DEF Nap, Step
  <2>2. lag'["main"] = 0 /\ \A t \in Threads : lag'[t] <= lag[t]
    BY <1>12 DEF Nap, Waits
  <2>3. Cleared /\ level = "HIGH" => toWake' = SleepTicks(RunMinutes)
    BY <1>1, <1>12, <2>1 DEF Nap, PinInv, HighOnlyInRun, RunPause, RunLength, Pausing
  <2>4. \A t \in Threads : lag'[t] \in Nat
    BY <1>1 DEF TypeOK, PlatformTypeOK
  <2>5. QED  BY <1>1, <2>1, <2>2, <2>3, <2>4 DEF SetUp
<1>13. CASE Wake
  <2>1. /\ UNCHANGED <<level, held, lag, logger>> /\ mpc = "asleep" /\ toWake = 0
        /\ mpc' \in {"stopLog", "check"}
    BY <1>13 DEF Wake
  <2>2. QED  BY <1>1, <2>1 DEF SetUp
<1>14. QED
  BY <1>5, <1>6, <1>7, <1>8, <1>9, <1>10, <1>11, <1>12, <1>13 DEF MainActs, MainStep

\* A tick lengthens the run by no more than the pause or the lag it uses up.
LEMMA RunInvTick == RunInv /\ Tick => RunInv'
<1> SUFFICES ASSUME RunInv, Tick PROVE RunInv'  OBVIOUS
<1>1. PinInv /\ PinInv' /\ TypeOK
  BY PinInvOther, PinInvMain DEF RunInv, PinInv, Next
<1>2. /\ held \in Nat /\ toWake \in Nat /\ lag \in [Threads -> Nat] /\ MaxLag \in Nat
      /\ SleepTicks(RunMinutes) \in Nat /\ Threads = {"main", "server"}
  BY <1>1, ConstantsTyped, SleepTicksTyped
     DEF TypeOK, PlatformTypeOK, MainTypeOK, Threads
<1>3. UNCHANGED <<level, logger, mpc, status, handler>>
  BY DEF Tick, processVars
<1>4. Wedged' <=> Wedged
  BY <1>3 DEF Wedged, WedgedOn
<1>5. held' \in Nat /\ held' <= held + 1
  BY <1>2 DEF Tick, Older
<1>6. LagBounded'
  <2>1. ASSUME NEW t \in Threads, Up, ~Wedged PROVE lag'[t] <= MaxLag
    BY <1>2, <2>1 DEF Tick, RunInv, LagBounded
  <2>2. QED  BY <1>3, <1>4, <2>1 DEF LagBounded, Up
<1>7. RunClock'
  <2> SUFFICES ASSUME Up, mpc \notin SetUp, level = "HIGH", ~Wedged
               PROVE  /\ mpc \in {"duration", "stamp", "nap"} => held' <= lag'["main"]
                      /\ mpc = "asleep" =>
                           held' + toWake' <= SleepTicks(RunMinutes) + MaxLag + lag'["main"]
                      /\ mpc \in Stopping =>
                           held' <= SleepTicks(RunMinutes) + MaxLag + lag'["main"]
    BY <1>3, <1>4 DEF RunClock, Cleared, Up
  <2>1. CASE MainAsleep
    <3>1. mpc = "asleep" /\ toWake' = toWake - 1 /\ lag'["main"] = lag["main"]
      BY <1>2, <2>1 DEF Tick, Due, MainAsleep, Resting
    <3>2. QED  BY <1>2, <1>5, <3>1 DEF RunInv, RunClock, Cleared, Stopping
  <2>2. CASE ~MainAsleep
    <3>1. toWake' = toWake /\ lag'["main"] = lag["main"] + 1
      BY <1>2, <2>2 DEF Tick, Due
    <3>2. QED  BY <1>2, <1>5, <3>1 DEF RunInv, RunClock, Cleared
  <2>3. QED  BY <2>1, <2>2
<1>8. QED  BY <1>1, <1>6, <1>7 DEF RunInv

\* Every step keeps the run clock.
LEMMA RunInvNext == RunInv /\ [Next]_vars => RunInv'
<1> SUFFICES ASSUME RunInv, [Next]_vars PROVE RunInv'  OBVIOUS
<1>1. PinInv /\ PinInv'
  BY PinInvOther, PinInvMain DEF RunInv
<1>2. handler \in [Threads -> HandlerPoints] /\ lag \in [Threads -> Nat] /\ "main" \in Threads
  BY <1>1 DEF PinInv, TypeOK, PlatformTypeOK, Threads
<1>3. CASE MainActs  BY <1>3, RunInvMain
<1>4. CASE SrvActs \/ Client
  <2>1. Up /\ Up' /\ UNCHANGED <<mpc, toWake>>
    BY <1>4 DEF SrvActs, Client, Runs, Up, mainVars, processVars
  <2>2. UNCHANGED <<level, held>> /\ (UNCHANGED lag \/ Waits("server"))
    BY <1>4 DEF SrvActs, Client, SrvStep, SrvLogBegin, SrvLogEnd, Socket, Bind, Loop, Accept,
     ReadElapsed, PrintRemaining, PageTime, Read, ReadHour, ReadMin, ReadStart, ReadLength, SetHour,
     SetMin, PrintTrigger, Send, ReadsOnly, platform, pinVars
  <2>3. lag'["main"] = lag["main"] /\ \A t \in Threads : lag'[t] = lag[t] \/ lag'[t] = 0
    BY <1>2, <2>2 DEF Waits
  <2>4. QED  BY <1>1, <1>4, <2>1, <2>2, <2>3, RunInvIdle DEF Next
<1>5. ASSUME ~Up' PROVE RunInv'
  BY <1>1, <1>5 DEF RunInv, LagBounded, RunClock, Cleared
<1>6. CASE DaemonFails \/ Kill
  BY <1>5, <1>6 DEF DaemonFails, Kill, Die, Up
<1>7. CASE Launch
  <2>1. lag' = NoLag /\ mpc' = "exec"
    BY <1>1, <1>7 DEF Launch, PinInv, DownIsReset, mainVars
  <2>2. QED  BY <1>1, <2>1, ConstantsTyped DEF RunInv, LagBounded, RunClock, Cleared, NoLag, SetUp
<1>8. ASSUME NEW t \in Threads, Interrupt(t), Up, Next PROVE RunInv'
  BY <1>1, <1>8, RunInvIdle DEF Interrupt, Up, mainVars, platform, pinVars
<1>9. CASE \E t \in SignalThreads : Signal(t)
  BY <1>8, <1>9, ConstantsTyped DEF Signal, Next
<1>10. CASE Fault
  BY <1>8, <1>10 DEF Fault, Runs, Threads, Next
<1>11. ASSUME NEW t \in Threads, HandlerActs(t) PROVE RunInv'
  <2>1. CASE HandlerExit(t)  BY <1>5, <2>1 DEF HandlerExit, Die, Up
  <2>2. CASE HandlerStop(t)
    <3>1. /\ Up /\ Up' /\ UNCHANGED <<mpc, toWake, lag>>
          /\ UNCHANGED <<level, held>> \/ level' = "LOW"
      BY <2>2 DEF HandlerStop, HandlerAt, Quietly, SetGpio, Up, mainVars
    <3>2. QED  BY <1>1, <1>11, <3>1, RunInvIdle DEF Next
  <2>3. CASE HandlerLogBegin(t) \/ HandlerLogEnd(t) \/ HandlerQuit(t) \/ HandlerClose(t)
    <3>1. Up /\ Up' /\ UNCHANGED <<mpc, toWake, lag, level, held>>
      BY <2>3 DEF HandlerLogBegin, HandlerLogEnd, HandlerQuit, HandlerClose, HandlerAt, Quietly,
         Up, mainVars, platform, pinVars
    <3>2. QED  BY <1>1, <1>11, <3>1, RunInvIdle DEF Next
  <2>4. QED  BY <1>11, <2>1, <2>2, <2>3 DEF HandlerActs
<1>12. CASE Tick  BY <1>12, RunInvTick
<1>13. CASE UNCHANGED vars
  BY <1>1, <1>13 DEF vars, RunInv, LagBounded, RunClock, Cleared, Stopping, Up, Wedged, WedgedOn,
     mainVars, processVars, platform, pinVars
<1>14. QED
  BY <1>3, <1>4, <1>6, <1>7, <1>9, <1>10, <1>11, <1>12, <1>13 DEF Next

\* The fan never runs longer than the run option and the scheduling allow.
THEOREM RunTimeBoundedHolds == Spec => []RunTimeBounded
<1>1. Init => RunInv  BY RunInvInit
<1>2. RunInv /\ [Next]_vars => RunInv'  BY RunInvNext
<1>3. RunInv => RunTimeBounded
  <2> SUFFICES ASSUME RunInv, Cleared, level = "HIGH", ~Wedged
               PROVE  held <= RunMinutes * MinuteTicks + 2 * MaxLag
    BY DEF RunTimeBounded
  <2>1. /\ held \in Nat /\ toWake \in Nat /\ lag["main"] \in Nat /\ MaxLag \in Nat
        /\ SleepTicks(RunMinutes) \in Nat /\ RunMinutes * MinuteTicks \in Nat
        /\ SleepTicks(RunMinutes) <= RunMinutes * MinuteTicks
    BY ConstantsTyped, SleepTicksTyped
       DEF RunInv, PinInv, TypeOK, PlatformTypeOK, MainTypeOK, Threads
  <2>2. lag["main"] <= MaxLag
    BY DEF RunInv, LagBounded, Cleared, Threads
  <2>3. mpc \in {"duration", "stamp", "nap", "asleep"} \cup Stopping
    BY DEF RunInv, PinInv, HighOnlyInRun, RunPause, Pausing
  <2>4. held <= SleepTicks(RunMinutes) + MaxLag + lag["main"]
    BY <2>1, <2>2, <2>3 DEF RunInv, RunClock
  <2>5. QED  BY <2>1, <2>2, <2>4
<1>4. QED  BY <1>1, <1>2, <1>3, PTL DEF Spec

-----------------------------------------------------------------------------
(***************************************************************************)
(* The clock on the wall.                                                  *)
(***************************************************************************)

\* A remainder does not see a whole divisor.
LEMMA ModShift == ASSUME NEW x \in Int, NEW d \in Nat \ {0}
                  PROVE  (x - d) % d = x % d
<1> DEFINE q == x \div d
           r == x % d
<1>1. q \in Int /\ r \in Int /\ 0 <= r /\ r < d /\ x = d * q + r
  BY DivMod, SMT
<1> HIDE DEF q, r
<1>2. x - d = d * (q - 1) + r
  BY <1>1, SMT
<1>3. ASSUME NEW y \in Int, NEW p \in Int, y = d * p + r
      PROVE  y % d = r
  BY <1>1, <1>3, SMT
<1>4. (x - d) % d = r
  BY <1>1, <1>2, <1>3
<1>5. QED
  BY <1>4 DEF r

\* Now is no time ago, and a tick makes everything a tick older.
LEMMA AgoNow == ASSUME NEW t \in 0 .. (DayTicks - 1) PROVE Ago(t, 0) = t
<1>1. ASSUME NEW d \in Nat \ {0}, NEW x \in 0 .. (d - 1) PROVE (x - 0) % d = x
  BY <1>1, SMT
<1>2. QED
  BY <1>1, DayPositive DEF Ago

LEMMA AgoNext == ASSUME NEW t \in 0 .. (DayTicks - 1), NEW k \in Int
                 PROVE  Ago(NextTick(t), k + 1) = Ago(t, k)
<1>1. DayTicks \in Nat \ {0} /\ t \in Int
  BY DayPositive
<1>2. CASE t + 1 /= DayTicks
  <2>1. NextTick(t) - (k + 1) = t - k
    BY <1>1, <1>2 DEF NextTick
  <2>2. QED
    BY <2>1 DEF Ago
<1>3. CASE t + 1 = DayTicks
  <2>1. NextTick(t) - (k + 1) = (t - k) - DayTicks /\ t - k \in Int
    BY <1>1, <1>3 DEF NextTick
  <2>2. QED
    BY <1>1, <2>1, ModShift DEF Ago
<1>4. QED
  BY <1>2, <1>3

\* An hour of the day.
LEMMA AgoTyped == ASSUME NEW t \in Int, NEW k \in Int
                  PROVE  Ago(t, k) \in 0 .. (DayTicks - 1)
  BY DayPositive, DivMod DEF Ago

LEMMA HourTyped == ASSUME NEW t \in 0 .. (DayTicks - 1)
                   PROVE  Hour(t) \in 0 .. (DayHours - 1)
<1>1. /\ HourTicks \in Nat \ {0} /\ DayHours \in Nat \ {0}
      /\ DayTicks = DayHours * HourTicks /\ DayTicks \in Nat
  BY DayPositive, ConstantsTyped DEF DayTicks
<1>2. ASSUME NEW a \in Nat, NEW h \in Nat \ {0}, NEW d \in Nat \ {0}, a < d * h
      PROVE  a \div h \in 0 .. (d - 1)
  <2> DEFINE q == a \div h
             r == a % h
  <2>1. q \in Int /\ r \in Int /\ 0 <= r /\ r < h /\ a = h * q + r
    BY DivMod, SMT
  <2>2. q \in Nat
    BY DivNat
  <2> HIDE DEF q, r
  <2>3. ASSUME q >= d PROVE FALSE
    <3>1. h * q >= h * d
      BY <2>2, <2>3, SMT
    <3>2. QED
      BY <1>2, <2>1, <3>1, SMT
  <2>4. q \in 0 .. (d - 1)
    BY <2>2, <2>3
  <2>5. QED
    BY <2>4 DEF q
<1>3. t \in Nat /\ t < DayHours * HourTicks
  BY <1>1
<1>4. t \div HourTicks \in 0 .. (DayHours - 1)
  BY <1>1, <1>2, <1>3
<1>5. QED
  BY <1>4 DEF Hour

\* What was within n ticks is within more, and within n + 1 a tick later.
LEMMA UpTimeMore == ASSUME NEW t, NEW n \in Int, NEW m \in Int, n <= m, UpTimeWithin(t, n)
                    PROVE  UpTimeWithin(t, m)
<1>1. PICK k \in 0 .. n : InUpTime(Ago(t, k))
  BY DEF UpTimeWithin
<1>2. k \in 0 .. m
  OBVIOUS
<1>3. QED
  BY <1>1, <1>2 DEF UpTimeWithin

LEMMA UpTimeLater ==
  ASSUME NEW t \in 0 .. (DayTicks - 1), NEW n \in Int, UpTimeWithin(t, n)
  PROVE  UpTimeWithin(NextTick(t), n + 1)
<1>1. PICK k \in 0 .. n : InUpTime(Ago(t, k))
  BY DEF UpTimeWithin
<1>2. k + 1 \in 0 .. (n + 1) /\ Ago(NextTick(t), k + 1) = Ago(t, k)
  BY AgoNext
<1>3. QED
  BY <1>1, <1>2 DEF UpTimeWithin

-----------------------------------------------------------------------------
(***************************************************************************)
(* The main loop goes by the clock when there is no debug thread.          *)
(***************************************************************************)

LEMMA NoServerNext ==
  ASSUME ~HasServer, TypeOK, NoServer, [Next]_vars PROVE NoServer'
<1>t. handler \in [Threads -> HandlerPoints] /\ Threads = {"main", "server"}
  BY DEF TypeOK, Threads
<1> USE <1>t DEF NoServer
<1>1. CASE MainActs
  BY <1>1 DEF MainActs, Spawn, srvVars, sumVars, processVars
<1>2. CASE SrvActs \/ Client
  BY <1>2 DEF SrvActs, Client, SrvStep, SrvLogBegin, SrvLogEnd, Socket, Bind, Loop, Accept,
     ReadElapsed, PrintRemaining, PageTime, Read, ReadHour, ReadMin, ReadStart, ReadLength, SetHour,
     SetMin, PrintTrigger, Send, Goto, AfterSrvLog
<1>3. ASSUME NEW how, Die(how) PROVE NoServer'
  BY <1>3 DEF Die, NoHandler, SrvReset, SrvFresh
<1>4. CASE DaemonFails \/ Kill  BY <1>3, <1>4 DEF DaemonFails, Kill
<1>5. CASE Launch  BY <1>5 DEF Launch, srvVars, sumVars
<1>6. CASE \E t \in SignalThreads : Signal(t)
  <2>1. Signal("main")  BY <1>6, ConstantsTyped DEF Signal, Alive
  <2>2. QED  BY <2>1 DEF Signal, Interrupt, srvVars, sumVars
<1>7. CASE Fault  BY <1>7 DEF Fault
<1>8. CASE \E t \in Threads : HandlerActs(t)
  <2>1. HandlerActs("main")
    BY <1>8 DEF HandlerActs, HandlerLogBegin, HandlerLogEnd, HandlerStop, HandlerQuit,
       HandlerClose, HandlerExit, HandlerAt
  <2>2. CASE HandlerExit("main")  BY <1>3, <2>2 DEF HandlerExit
  <2>3. CASE ~HandlerExit("main")
    BY <2>1, <2>3 DEF HandlerActs, HandlerLogBegin, HandlerLogEnd, HandlerStop, HandlerQuit,
     HandlerClose, HandlerAt, Quietly, srvVars, sumVars
  <2>4. QED  BY <2>2, <2>3
<1>9. CASE Tick  BY <1>9 DEF Tick, srvVars, sumVars, processVars
<1>10. CASE UNCHANGED vars  BY <1>10 DEF vars, srvVars, sumVars, processVars
<1>11. QED
  BY <1>1, <1>2, <1>4, <1>5, <1>6, <1>7, <1>8, <1>9, <1>10 DEF Next

LEMMA WindowInvInit == ASSUME ~HasServer PROVE Init => WindowInv
<1> SUFFICES ASSUME Init PROVE WindowInv  OBVIOUS
<1>1. RunInv  BY RunInvInit
<1>2. ~Up  BY DEF Init, Up
<1>3. QED
  BY <1>1, <1>2 DEF Init, WindowInv, NoServer, WindowAsSet, HourRead, WindowClock, Cleared, Runs,
     SrvInit, SrvFresh, SettingsInit, Fresh, NoHandler, Threads

\* What the invariant says of the numbers it speaks of.
LEMMA WindowTyped ==
  ASSUME WindowInv
  PROVE  /\ RunInv /\ PinInv /\ TypeOK
         /\ now \in 0 .. (DayTicks - 1) /\ now \in Int
         /\ lag \in [Threads -> Nat] /\ toWake \in Nat /\ held \in Nat
         /\ tm \in [hour : Int, min : Int]
         /\ SleepTicks(RunMinutes) \in Nat /\ MaxLag \in Nat
         /\ Threads = {"main", "server"}
         /\ Up /\ ~Wedged => lag["main"] <= MaxLag
         /\ handler["main"] = "none" => ~Wedged
<1>1. RunInv /\ PinInv /\ TypeOK
  BY DEF WindowInv, RunInv, PinInv
<1>2. handler["main"] = "none" => ~Wedged
  BY DEF WindowInv, NoServer, Wedged, WedgedOn, Threads
<1>3. QED
  BY <1>1, <1>2, ConstantsTyped, SleepTicksTyped, DayPositive
     DEF RunInv, LagBounded, TypeOK, SettingsTypeOK, PlatformTypeOK, MainTypeOK, Threads

\* The hour as read decides the same as the clock did.
LEMMA OpenInUpTime ==
  ASSUME UpTimeKept, NEW t \in Int, NEW k \in Int, tm.hour = Hour(Ago(t, k)),
         startHour' = UpStart, endHour' = UpEnd
  PROVE  WindowOpen <=> InUpTime(Ago(t, k))
<1>1. Hour(Ago(t, k)) \in 0 .. (DayHours - 1)
  BY AgoTyped, HourTyped
<1>2. ASSUME NEW h \in 0 .. (DayHours - 1) PROVE h % UIntRange = h
  BY <1>2, ConstantsTyped, SMT DEF UpTimeKept
<1>3. tm.hour % UIntRange = Hour(Ago(t, k))
  BY <1>1, <1>2
<1>4. QED
  BY <1>1, <1>3, ConstantsTyped DEF WindowOpen, InUpTime

\* A step of the main thread keeps the window clock.
LEMMA WindowInvMain ==
  ASSUME ~HasServer, UpTimeKept, WindowInv, MainActs PROVE WindowInv'
<1> DEFINE S == SleepTicks(RunMinutes)
           Clocked(t, m, n, w) ==
             /\ m \in {"startLog", "start", "duration", "stamp", "nap"} => UpTimeWithin(t, n)
             /\ m \in {"asleep"} \cup Stopping =>
                  UpTimeWithin(t, S + MaxLag + n - (IF m = "asleep" THEN w ELSE 0))
<1>1. /\ RunInv' /\ NoServer' /\ RunInv /\ PinInv /\ TypeOK /\ Runs("main") /\ ~Wedged
      /\ now \in 0 .. (DayTicks - 1) /\ now \in Int
      /\ lag \in [Threads -> Nat] /\ toWake \in Nat /\ S \in Nat /\ MaxLag \in Nat
      /\ lag["main"] \in Nat /\ lag["main"] <= MaxLag
  BY RunInvMain, NoServerNext, WindowTyped DEF WindowInv, MainActs, Runs, Next
<1>2. Up /\ Up' /\ handler' = handler /\ ~Wedged'
  BY <1>1, WindowTyped DEF MainActs, Runs, Up, processVars, Wedged, WedgedOn, NoServer, Threads
<1>3. now' = now
  BY DEF MainActs, MainStep, LogBegin, LogEnd, Exec, SetupWiringPi, SetRunning, Clear, Check,
     Decide, Start, Stop, PauseLength, PauseStamp, Nap, Wake, Spawn, settings
<1>4. WindowAsSet'
  BY DEF MainActs, MainStep, LogBegin, LogEnd, Exec, SetupWiringPi, SetRunning, Clear, Check,
     Decide, CheckHours, Start, Stop, PauseLength, PauseStamp, Nap, Wake, Spawn, settings, hours,
     WindowInv, WindowAsSet, UpTimeKept
<1>5. phase = "run" /\ mpc \notin SetUp => Clocked(now, mpc, lag["main"], toWake)
  BY <1>1, <1>2 DEF WindowInv, WindowClock, Cleared, WithinUpTime
<1> DEFINE Kept == phase' = "run" /\ mpc' \notin SetUp => Clocked(now, mpc', lag'["main"], toWake')
           Looked == mpc' = "decide" =>
                     \E k \in 0 .. lag'["main"] : tm'.hour = Hour(Ago(now, k))
<1>6. ASSUME Kept, Looked PROVE WindowInv'
  <2>1. WindowClock'
    BY <1>3, <1>6 DEF WindowClock, Cleared, WithinUpTime
  <2>2. HourRead'
    BY <1>3, <1>6 DEF HourRead, TicksAgo
  <2>3. QED
    BY <1>1, <1>4, <2>1, <2>2 DEF WindowInv
<1> USE DEF mainVars, platform, pinVars
<1>7. CASE LogBegin
  <2>1. UNCHANGED <<tm, mpc, phase, lag, toWake>>
    BY <1>7 DEF LogBegin, settings
  <2>2. Looked
    BY <1>1, <1>2, <2>1 DEF WindowInv, HourRead, TicksAgo
  <2>3. Kept
    BY <1>5, <2>1
  <2>4. QED  BY <1>6, <2>2, <2>3
<1>8. CASE LogEnd
  <2>1. /\ UNCHANGED <<phase, lag, toWake>> /\ mpc' /= "decide"
        /\ \/ mpc' \in SetUp
           \/ mpc = "startLog" /\ mpc' = "start"
           \/ mpc = "stopLog" /\ mpc' = "stop"
           \/ mpc = "idleLog" /\ mpc' = "duration"
    BY <1>8 DEF LogEnd, AfterLog, SetUp
  <2>2. mpc = "idleLog" => phase' /= "run"
    BY <1>1, <2>1 DEF PinInv, RunLength
  <2>3. Kept
    BY <1>5, <2>1, <2>2 DEF Stopping, SetUp
  <2>4. QED  BY <1>6, <2>1, <2>3
<1>9. CASE Exec \/ SetupWiringPi \/ SetRunning \/ Spawn
  <2>1. mpc' \in SetUp /\ mpc' /= "decide"
    BY <1>9 DEF Exec, SetupWiringPi, SetRunning, Spawn, Step, SetUp
  <2>2. QED  BY <1>6, <2>1
<1>10. CASE Clear
  <2>1. mpc' = "check"
    BY <1>10 DEF Clear, Step
  <2>2. QED  BY <1>6, <2>1 DEF Stopping
<1>11. CASE Check
  <2>1. mpc' = "decide" /\ tm'.hour = Hour(Ago(now, 0)) /\ UNCHANGED lag
    BY <1>1, <1>11, AgoNow DEF Check, Step, Localtime
  <2>2. Looked
    BY <1>1, <2>1
  <2>3. QED  BY <1>6, <2>1, <2>2 DEF Stopping
<1>12. CASE Decide
  <2>1. CASE mpc' = "idleLog" /\ phase' = "idle"
    BY <1>6, <2>1
  <2>2. CASE mpc' = "startLog" /\ phase' = "run" /\ WindowOpen
    <3>1. PICK k \in 0 .. lag["main"] : tm.hour = Hour(Ago(now, k))
      BY <1>1, <1>12 DEF Decide, WindowInv, HourRead, TicksAgo
    <3>2. InUpTime(Ago(now, k))
      BY <1>1, <1>4, <2>2, <3>1, OpenInUpTime DEF WindowAsSet
    <3>3. UpTimeWithin(now, lag["main"]) /\ UNCHANGED lag
      BY <1>12, <3>1, <3>2 DEF UpTimeWithin, Decide
    <3>4. QED  BY <1>6, <2>2, <3>3 DEF Stopping
  <2>3. QED  BY <1>12, <2>1, <2>2 DEF Decide
<1>13. CASE Start
  <2>1. UNCHANGED <<phase, lag>> /\ mpc = "start" /\ mpc' = "duration"
    BY <1>13 DEF Start, Step
  <2>2. Kept
    BY <1>5, <2>1 DEF Stopping, SetUp
  <2>3. QED  BY <1>6, <2>1, <2>2
<1>14. CASE Stop
  <2>1. phase' = "rest" /\ mpc' = "duration"
    BY <1>14 DEF Stop, Step
  <2>2. QED  BY <1>6, <2>1
<1>15. CASE PauseLength \/ PauseStamp
  <2>1. UNCHANGED <<phase, lag>> /\ mpc \in {"duration", "stamp"} /\ mpc' \in {"stamp", "nap"}
    BY <1>15 DEF PauseLength, PauseStamp, Step
  <2>2. Kept
    BY <1>5, <2>1 DEF Stopping, SetUp
  <2>3. QED  BY <1>6, <2>1, <2>2
<1>16. CASE Nap
  <2>1. /\ phase' = phase /\ mpc = "nap" /\ mpc' = "asleep"
        /\ lag'["main"] = 0 /\ toWake' = SleepTicks(duration)
    BY <1>1, <1>16 DEF Nap, Step, Waits, Threads
  <2>2. ASSUME phase = "run" PROVE UpTimeWithin(now, S + MaxLag + 0 - toWake')
    <3>1. toWake' = S
      BY <1>1, <2>1, <2>2 DEF PinInv, RunLength
    <3>2. UpTimeWithin(now, lag["main"])
      BY <1>5, <2>1, <2>2 DEF SetUp
    <3>3. S + MaxLag + 0 - toWake' = MaxLag
      BY <1>1, <3>1
    <3>4. QED  BY <1>1, <3>2, <3>3, UpTimeMore
  <2>3. Kept
    BY <2>1, <2>2 DEF Stopping
  <2>4. QED  BY <1>6, <2>1, <2>3
<1>17. CASE Wake
  <2>1. /\ UNCHANGED <<phase, lag, toWake>> /\ mpc = "asleep" /\ toWake = 0
        /\ mpc' \in {"stopLog", "check"}
    BY <1>17 DEF Wake
  <2>2. Kept
    BY <1>5, <2>1 DEF Stopping, SetUp
  <2>3. QED  BY <1>6, <2>1, <2>2
<1>18. QED
  BY <1>7, <1>8, <1>9, <1>10, <1>11, <1>12, <1>13, <1>14, <1>15, <1>16, <1>17
     DEF MainActs, MainStep

\* A step that leaves the loop, its lag and the clock alone leaves the window
\* clock alone; it lets a handler run on the main thread or leaves it alone.
LEMMA WindowInvIdle ==
  ASSUME WindowInv, RunInv', NoServer', Next, Up, Up',
         UNCHANGED <<now, tm, startHour, endHour, mpc, phase, toWake>>,
         lag'["main"] = lag["main"], Runs("main")' => Runs("main")
  PROVE  WindowInv'
<1>1. ~Wedged' => ~Wedged
  BY WindowTyped, WedgedStays
<1>2. WindowAsSet'
  BY DEF WindowInv, WindowAsSet
<1>3. HourRead'
  <2> SUFFICES ASSUME Runs("main")', mpc' = "decide"
               PROVE  \E k \in 0 .. lag'["main"] : tm'.hour = Hour(Ago(now', k))
    BY DEF HourRead, TicksAgo
  <2>1. \E k \in 0 .. lag["main"] : tm.hour = Hour(Ago(now, k))
    BY DEF WindowInv, HourRead, TicksAgo
  <2>2. QED
    BY <2>1
<1>4. WindowClock'
  BY <1>1 DEF WindowInv, WindowClock, Cleared, Stopping, WithinUpTime
<1>5. QED
  BY <1>2, <1>3, <1>4 DEF WindowInv

\* A tick makes what was in up_time a tick older, and so does it the lag or the
\* pause that accounts for it.
LEMMA WindowInvTick ==
  ASSUME ~HasServer, UpTimeKept, WindowInv, Tick PROVE WindowInv'
<1>1. /\ RunInv' /\ NoServer'
      /\ now \in 0 .. (DayTicks - 1)
      /\ lag \in [Threads -> Nat] /\ toWake \in Nat /\ MaxLag \in Nat
      /\ SleepTicks(RunMinutes) \in Nat /\ Threads = {"main", "server"}
      /\ handler["main"] = "none" => ~Wedged
  BY RunInvTick, NoServerNext, WindowTyped DEF WindowInv, Next
<1>2. /\ UNCHANGED <<tm, startHour, endHour, mpc, phase, logger, status, handler>>
      /\ now' = NextTick(now)
  BY DEF Tick, processVars, hours
<1>3. (Wedged' <=> Wedged) /\ (Up' <=> Up)
  BY <1>2 DEF Wedged, WedgedOn, Up
<1>4. /\ Up /\ ~Wedged /\ ~MainAsleep => lag'["main"] = lag["main"] + 1 /\ toWake' = toWake
      /\ MainAsleep => lag'["main"] = lag["main"]
      /\ Up /\ MainAsleep => toWake' = toWake - 1
  BY <1>1 DEF Tick, Due
<1>5. MainAsleep => mpc = "asleep"
  BY DEF MainAsleep, Resting
<1>6. WindowAsSet'
  BY <1>2 DEF WindowInv, WindowAsSet
<1>7. HourRead'
  <2> SUFFICES ASSUME Runs("main"), mpc = "decide"
               PROVE  \E k \in 0 .. lag'["main"] : tm.hour = Hour(Ago(now', k))
    BY <1>2, <1>3 DEF HourRead, TicksAgo, Runs
  <2>1. PICK k \in 0 .. lag["main"] : tm.hour = Hour(Ago(now, k))
    BY DEF WindowInv, HourRead, TicksAgo
  <2>2. k + 1 \in 0 .. lag'["main"]
    BY <1>1, <1>4, <1>5 DEF Runs
  <2>3. Ago(now', k + 1) = Ago(now, k)
    BY <1>1, <1>2, AgoNext
  <2>4. QED  BY <2>1, <2>2, <2>3
<1>8. WindowClock'
  <2> SUFFICES ASSUME Up, mpc \notin SetUp, ~Wedged, phase = "run"
               PROVE  /\ mpc \in {"startLog", "start", "duration", "stamp", "nap"} =>
                           UpTimeWithin(now', lag'["main"])
                      /\ mpc \in {"asleep"} \cup Stopping =>
                           UpTimeWithin(now', SleepTicks(RunMinutes) + MaxLag + lag'["main"]
                                                - (IF mpc = "asleep" THEN toWake' ELSE 0))
    BY <1>2, <1>3 DEF WindowClock, Cleared, Stopping, WithinUpTime
  <2>1. ASSUME mpc \in {"startLog", "start", "duration", "stamp", "nap"}
        PROVE  UpTimeWithin(now', lag'["main"])
    <3>1. UpTimeWithin(now, lag["main"])
      BY <2>1 DEF WindowInv, WindowClock, Cleared, WithinUpTime
    <3>2. lag'["main"] = lag["main"] + 1 /\ lag["main"] \in Int
      BY <1>1, <1>4, <1>5, <2>1
    <3>3. QED  BY <1>1, <1>2, <3>1, <3>2, UpTimeLater
  <2>2. ASSUME mpc \in {"asleep"} \cup Stopping
        PROVE  UpTimeWithin(now', SleepTicks(RunMinutes) + MaxLag + lag'["main"]
                                    - (IF mpc = "asleep" THEN toWake' ELSE 0))
    <3> DEFINE n == SleepTicks(RunMinutes) + MaxLag + lag["main"]
                      - (IF mpc = "asleep" THEN toWake ELSE 0)
    <3>1. UpTimeWithin(now, n)
      BY <2>2 DEF WindowInv, WindowClock, Cleared, WithinUpTime
    <3>2. /\ n \in Int
          /\ n + 1 = SleepTicks(RunMinutes) + MaxLag + lag'["main"]
                       - (IF mpc = "asleep" THEN toWake' ELSE 0)
      BY <1>1, <1>4, <1>5, <2>2
    <3> HIDE DEF n
    <3>3. UpTimeWithin(now', n + 1)
      BY <1>1, <1>2, <3>1, <3>2, UpTimeLater
    <3>4. QED  BY <3>2, <3>3
  <2>3. QED  BY <2>1, <2>2
<1>9. QED
  BY <1>1, <1>6, <1>7, <1>8 DEF WindowInv

\* Every step keeps the window clock.
LEMMA WindowInvNext ==
  ASSUME ~HasServer, UpTimeKept, WindowInv, [Next]_vars PROVE WindowInv'
<1>1. RunInv' /\ NoServer' /\ TypeOK
  BY RunInvNext, NoServerNext, WindowTyped DEF WindowInv
<1>2. handler \in [Threads -> HandlerPoints] /\ Threads = {"main", "server"}
  BY <1>1 DEF TypeOK, Threads
<1>3. CASE MainActs  BY <1>3, WindowInvMain
<1>4. ~SrvActs /\ ~Client /\ ~Fault
  BY DEF WindowInv, NoServer, SrvActs, Client, Fault, SrvStep, SrvLogBegin, SrvLogEnd, Socket,
     Bind, Loop, Accept, ReadElapsed, PrintRemaining, PageTime, Read, ReadHour, ReadMin, ReadStart,
     ReadLength, SetHour, SetMin, PrintTrigger, Send, Goto, AfterSrvLog
<1>5. ASSUME NEW how \in Endings, Die(how) PROVE WindowInv'
  BY <1>1, <1>5 DEF Die, Endings, WindowInv, WindowAsSet, HourRead, WindowClock, Cleared, Runs, Up,
     SettingsReset, Fresh
<1>6. CASE DaemonFails \/ Kill  BY <1>5, <1>6 DEF DaemonFails, Kill, Endings
<1>7. CASE Launch
  <2>1. mpc' = "exec" /\ UNCHANGED <<startHour, endHour>>
    BY <1>7, WindowTyped DEF Launch, PinInv, DownIsReset, mainVars, settings, hours
  <2>2. QED
    BY <1>1, <2>1 DEF WindowInv, WindowAsSet, HourRead, WindowClock, Cleared, SetUp
<1>8. CASE \E t \in SignalThreads : Signal(t)
  <2>1. PICK t \in SignalThreads : Signal(t)
    BY <1>8
  <2>2. /\ Up /\ Up' /\ UNCHANGED lag /\ handler' = [handler EXCEPT ![t] = "announce"]
        /\ UNCHANGED <<now, tm, startHour, endHour, mpc, phase, toWake>>
    BY <2>1 DEF Signal, Interrupt, Up, settings, hours, platform, mainVars
  <2>3. Runs("main")' => Runs("main")
    BY <1>2, <2>2 DEF Runs
  <2>4. QED  BY <1>1, <1>8, <2>2, <2>3, WindowInvIdle DEF Next
<1>9. ASSUME NEW t \in Threads, HandlerActs(t) PROVE WindowInv'
  <2>1. CASE HandlerExit(t)  BY <1>5, <2>1 DEF HandlerExit, Endings
  <2>2. CASE ~HandlerExit(t)
    <3>1. /\ Up /\ Up' /\ UNCHANGED lag
          /\ UNCHANGED <<now, tm, startHour, endHour, mpc, phase, toWake>>
      BY <1>9, <2>2 DEF HandlerActs, HandlerLogBegin, HandlerLogEnd, HandlerStop, HandlerQuit,
         HandlerClose, HandlerAt, Quietly, Up, settings, hours, platform, mainVars
    <3>2. handler'["main"] = "none" => handler["main"] = "none"
      BY <1>2, <1>9, <2>2 DEF HandlerActs, HandlerLogBegin, HandlerLogEnd, HandlerStop, HandlerQuit,
         HandlerClose, HandlerAt
    <3>3. Runs("main")' => Runs("main")
      BY <3>1, <3>2 DEF Runs
    <3>4. QED  BY <1>1, <1>9, <3>1, <3>3, WindowInvIdle DEF Next
  <2>3. QED  BY <2>1, <2>2
<1>10. CASE Tick  BY <1>10, WindowInvTick
<1>11. CASE UNCHANGED vars
  <2>1. /\ (Wedged' <=> Wedged) /\ (Up' <=> Up) /\ UNCHANGED <<lag, handler>>
        /\ UNCHANGED <<now, tm, startHour, endHour, mpc, phase, toWake>>
    BY <1>11 DEF vars, Wedged, WedgedOn, Up, settings, hours, platform, mainVars, processVars
  <2>2. WindowAsSet' /\ HourRead' /\ WindowClock'
    BY <2>1 DEF WindowInv, WindowAsSet, HourRead, WindowClock, Cleared, Runs, Stopping,
       WithinUpTime, TicksAgo
  <2>3. QED  BY <1>1, <2>2 DEF WindowInv
<1>12. QED
  BY <1>3, <1>4, <1>6, <1>7, <1>8, <1>9, <1>10, <1>11 DEF Next

\* Without the debug thread, the main loop runs the fan or idles as the clock
\* said at most MaxLag ticks ago.
THEOREM DecidesByTheClockHolds ==
  ASSUME ~HasServer, UpTimeKept PROVE Spec => DecidesByTheClock
<1>1. Init => WindowInv  BY WindowInvInit
<1>2. WindowInv /\ [Next]_vars => WindowInv'  BY WindowInvNext
<1> DEFINE Decided == mpc = "decide" /\ mpc' \in {"startLog", "idleLog"} =>
                        \E k \in 0 .. MaxLag : InUpTime(TicksAgo(k)) <=> mpc' = "startLog"
<1>3. WindowInv /\ [Next]_vars => [Decided]_vars
  <2> SUFFICES ASSUME WindowInv, Next, mpc = "decide", mpc' \in {"startLog", "idleLog"}
               PROVE  \E k \in 0 .. MaxLag : InUpTime(TicksAgo(k)) <=> mpc' = "startLog"
    OBVIOUS
  <2>1. MainActs
    BY DEF Next, SrvActs, Client, DaemonFails, Kill, Die, Launch, Signal, Interrupt, Fault,
     HandlerActs, HandlerLogBegin, HandlerLogEnd, HandlerStop, HandlerQuit, HandlerClose,
     HandlerExit, Quietly, Tick, MainReset, MainFresh, mainVars
  <2>2. Decide /\ Runs("main")
    BY <2>1 DEF MainActs, MainStep, LogBegin, LogEnd, AfterLog, Exec, SetupWiringPi, SetRunning,
       Clear, Check, Start, Stop, PauseLength, PauseStamp, Nap, Wake, Spawn, Step
  <2>3. PICK k \in 0 .. lag["main"] : tm.hour = Hour(Ago(now, k))
    BY <2>2 DEF WindowInv, HourRead, TicksAgo
  <2>4. lag["main"] <= MaxLag /\ lag["main"] \in Nat /\ MaxLag \in Nat /\ now \in Int
    BY <2>2, WindowTyped DEF Runs
  <2>5. startHour' = UpStart /\ endHour' = UpEnd
    BY <2>2 DEF Decide, CheckHours, WindowInv, WindowAsSet, UpTimeKept
  <2>6. WindowOpen <=> InUpTime(TicksAgo(k))
    BY <2>3, <2>4, <2>5, OpenInUpTime DEF TicksAgo
  <2>7. WindowOpen <=> mpc' = "startLog"
    BY <2>2 DEF Decide
  <2>8. k \in 0 .. MaxLag
    BY <2>4
  <2>9. QED  BY <2>6, <2>7, <2>8
<1>4. QED  BY <1>1, <1>2, <1>3, PTL DEF Spec, DecidesByTheClock

\* Without the debug thread, the pin is high only in up_time or for the rest of
\* a run that began in it.
THEOREM HighNearUpTimeHolds ==
  ASSUME ~HasServer, UpTimeKept PROVE Spec => []HighNearUpTime
<1>1. Init => WindowInv  BY WindowInvInit
<1>2. WindowInv /\ [Next]_vars => WindowInv'  BY WindowInvNext
<1>3. WindowInv => HighNearUpTime
  <2> SUFFICES ASSUME WindowInv, Cleared, level = "HIGH", ~Wedged
               PROVE  UpTimeWithin(now, RunMinutes * MinuteTicks + 2 * MaxLag)
    BY DEF HighNearUpTime, WithinUpTime
  <2> DEFINE S == SleepTicks(RunMinutes)
             L == RunMinutes * MinuteTicks
  <2>1. /\ toWake \in Nat /\ lag["main"] \in Nat /\ MaxLag \in Nat
        /\ S \in Nat /\ L \in Nat /\ S <= L /\ lag["main"] <= MaxLag
    BY ConstantsTyped, SleepTicksTyped, WindowTyped DEF Cleared
  <2>2. phase = "run" /\ mpc \in {"duration", "stamp", "nap", "asleep"} \cup Stopping
    BY WindowTyped DEF PinInv, HighOnlyInRun, RunPause, Pausing
  <2> HIDE DEF S, L
  <2>3. CASE mpc \in {"duration", "stamp", "nap"}
    <3>1. UpTimeWithin(now, lag["main"])
      BY <2>2, <2>3 DEF WindowInv, WindowClock, WithinUpTime
    <3>2. lag["main"] <= L + 2 * MaxLag
      BY <2>1
    <3>3. QED  BY <2>1, <3>1, <3>2, UpTimeMore DEF L
  <2>4. CASE mpc \in {"asleep"} \cup Stopping
    <3> DEFINE n == S + MaxLag + lag["main"] - (IF mpc = "asleep" THEN toWake ELSE 0)
    <3>1. UpTimeWithin(now, n)
      BY <2>2, <2>4 DEF WindowInv, WindowClock, WithinUpTime, S
    <3>2. n \in Int /\ n <= L + 2 * MaxLag
      BY <2>1
    <3> HIDE DEF n
    <3>3. QED  BY <2>1, <3>1, <3>2, UpTimeMore DEF L
  <2>5. QED  BY <2>2, <2>3, <2>4
<1>4. QED  BY <1>1, <1>2, <1>3, PTL DEF Spec

-----------------------------------------------------------------------------
(***************************************************************************)
(* What a status page says is left of a pause.                             *)
(***************************************************************************)

\* A pause that fits takes the minutes it is set to.
LEMMA PauseFits ==
  ASSUME PausesFit, NEW f \in {"run", "rest", "idle"}, NEW m \in PauseLengths(f)
  PROVE  /\ m \in Nat
         /\ m * MinuteTicks < UIntRange /\ m * MinuteTicks <= MaxAge
         /\ SleepTicks(m) = m * MinuteTicks
         /\ f = "run" \/ SleepMinutes <= m
<1>1. /\ MinuteTicks \in Nat \ {0} /\ UIntRange \in Nat \ {0}
      /\ SleepMinutes \in Nat /\ RunMinutes \in Nat /\ MaxAge \in Nat
      /\ RandomRange \in Nat \ {0} /\ UseRandom \in BOOLEAN
  BY ConstantsTyped, SettingsAssumption
<1>2. LongestRest \in Nat /\ SleepMinutes <= LongestRest
  BY <1>1 DEF LongestRest
<1>3. ASSUME NEW a \in Nat, NEW b \in Nat, a <= b
      PROVE  a * MinuteTicks <= b * MinuteTicks /\ a <= a * MinuteTicks
             /\ a * MinuteTicks \in Nat /\ b * MinuteTicks \in Nat
  BY <1>1, <1>3, SMT
<1>4. ASSUME NEW x \in Nat, x < UIntRange PROVE x % UIntRange = x
  BY <1>1, <1>4, SMT
<1>5. /\ RunMinutes * MinuteTicks < UIntRange /\ RunMinutes * MinuteTicks <= MaxAge
      /\ LongestRest * MinuteTicks < UIntRange /\ LongestRest * MinuteTicks <= MaxAge
  BY DEF PausesFit
<1>6. (m = RunMinutes /\ f = "run") \/ m \in SleepMinutes .. LongestRest
  <2>1. CASE f = "rest" /\ UseRandom
    <3>1. PICK r \in 0 .. (RandomRange - 1) : m = (r + SleepMinutes) % UIntRange
      BY <2>1 DEF PauseLengths, RandomTime
    <3>2. /\ r + SleepMinutes \in Nat /\ r + SleepMinutes <= LongestRest
          /\ SleepMinutes <= r + SleepMinutes
      BY <1>1, <2>1 DEF LongestRest
    <3>3. r + SleepMinutes < UIntRange
      <4>1. /\ (r + SleepMinutes) * MinuteTicks <= LongestRest * MinuteTicks
            /\ r + SleepMinutes <= (r + SleepMinutes) * MinuteTicks
            /\ (r + SleepMinutes) * MinuteTicks \in Nat /\ LongestRest * MinuteTicks \in Nat
        BY <1>2, <1>3, <3>2
      <4>2. QED  BY <1>1, <1>5, <3>2, <4>1
    <3>4. QED  BY <1>2, <1>4, <3>1, <3>2, <3>3
  <2>2. CASE f = "rest" /\ ~UseRandom
    BY <1>1, <1>2, <2>2 DEF PauseLengths
  <2>3. CASE f = "run"
    BY <2>3 DEF PauseLengths
  <2>4. CASE f = "idle"
    BY <1>1, <1>2, <2>4 DEF PauseLengths
  <2>5. QED  BY <2>1, <2>2, <2>3, <2>4
<1>7. m \in Nat /\ m * MinuteTicks < UIntRange /\ m * MinuteTicks <= MaxAge
  <2>1. CASE m = RunMinutes
    BY <1>1, <1>5, <2>1
  <2>2. CASE m \in SleepMinutes .. LongestRest
    <3>1. /\ m \in Nat /\ m * MinuteTicks <= LongestRest * MinuteTicks
          /\ m * MinuteTicks \in Nat /\ LongestRest * MinuteTicks \in Nat
      BY <1>1, <1>2, <1>3, <2>2
    <3>2. QED  BY <1>1, <1>5, <3>1
  <2>3. QED  BY <1>6, <2>1, <2>2
<1>8. SleepTicks(m) = m * MinuteTicks
  <2>1. m * MinuteTicks \in Nat
    BY <1>3, <1>7
  <2>2. QED  BY <1>4, <1>7, <2>1 DEF SleepTicks
<1>9. f = "run" \/ SleepMinutes <= m
  BY <1>1, <1>2, <1>6
<1>10. QED
  BY <1>7, <1>8, <1>9

\* Reading the minutes since the start rounds what is left up by less than one.
LEMMA RoundedUp ==
  ASSUME NEW d \in Nat, NEW a \in Nat, NEW m \in Nat \ {0}
  PROVE  (d - (a \div m)) * m <= d * m - a + (m - 1)
<1> DEFINE q == a \div m
           r == a % m
<1>1. q \in Int /\ r \in 0 .. (m - 1) /\ a = m * q + r
  BY DivMod, SMT
<1> HIDE DEF q, r
<1>2. (d - q) * m = d * m - m * q
  BY <1>1, SMT
<1>3. m * q \in Int /\ d * m \in Int
  BY <1>1
<1>4. (d - q) * m <= d * m - a + (m - 1)
  BY <1>1, <1>2, <1>3
<1>5. QED
  BY <1>4 DEF q

\* Fewer minutes take fewer ticks.
LEMMA LessTimes == ASSUME NEW d \in Nat, NEW e \in Nat, NEW m \in Nat \ {0}
                   PROVE  (d - e) * m <= d * m
  BY SMT

\* What the clock of the pause speaks of are numbers.
LEMMA PageTyped ==
  ASSUME TypeOK
  PROVE  /\ MinuteTicks \in Nat \ {0} /\ MaxAge \in Nat /\ EpochAge \in Nat /\ EpochAge > MaxAge
         /\ duration \in Nat /\ age \in Nat /\ elapsed \in Nat /\ toWake \in Nat
         /\ page.remaining \in Int /\ sum.left \in Int
         /\ lag["server"] \in Nat /\ lag \in [Threads -> Nat]
         /\ TicksLeft \in Nat /\ duration * MinuteTicks \in Nat
         /\ handler \in [Threads -> HandlerPoints] /\ Threads = {"main", "server"}
<1>1. /\ MinuteTicks \in Nat \ {0} /\ MaxAge \in Nat /\ EpochAge \in Nat /\ EpochAge > MaxAge
      /\ duration \in Nat /\ age \in Nat /\ elapsed \in Nat /\ toWake \in Nat
      /\ page.remaining \in Int /\ sum.left \in Int
      /\ lag["server"] \in Nat /\ lag \in [Threads -> Nat]
      /\ handler \in [Threads -> HandlerPoints] /\ Threads = {"main", "server"}
  BY ConstantsTyped DEF TypeOK, SettingsTypeOK, PlatformTypeOK, MainTypeOK, SrvTypeOK, Threads
<1>2. TicksLeft \in Nat
  BY <1>1, SleepTicksTyped DEF TicksLeft
<1>3. duration * MinuteTicks \in Nat
  BY <1>1
<1>4. QED
  BY <1>1, <1>2, <1>3

LEMMA PageInvInit == Init => PageInv
<1> SUFFICES ASSUME Init PROVE PageInv  OBVIOUS
<1>1. TypeOK  BY InitTyped
<1>2. /\ duration = 0 /\ age = EpochAge /\ TicksLeft = 0
      /\ srv = "off" /\ unread = {}
  BY DEF Init, SettingsInit, Fresh, SrvInit, SrvFresh, MainInit, MainFresh, TicksLeft
<1>3. 0 * MinuteTicks = 0
  BY <1>1, PageTyped
<1>4. PauseClock
  BY <1>1, <1>2, <1>3, PageTyped, ConstantsTyped DEF PauseClock
<1>5. QED
  BY <1>1, <1>2, <1>4 DEF PageInv, PageClock, StartInTotal, StartReadFirst, PageNeverOverstates

\* What is left of a pause may grow while a page is made, but not what the page
\* has read of it.
LEMMA PageInvIdle ==
  ASSUME PageInv, TypeOK', PauseClock', ~Up' => srv' = "off",
         UNCHANGED <<elapsed, unread, sum, page>>,
         srv' = srv \/ srv' \notin {"remaining", "localtime", "total"},
         srv' \in {"remaining", "localtime", "total"} =>
           /\ Runs("server")' => Runs("server")
           /\ lag'["server"] = lag["server"]
           /\ TicksLeft' >= TicksLeft
           /\ duration' = duration \/ duration' * MinuteTicks <= TicksLeft'
  PROVE  PageInv'
<1>1. /\ TicksLeft \in Nat /\ TicksLeft' \in Nat /\ MinuteTicks \in Nat \ {0}
      /\ lag["server"] \in Nat /\ lag'["server"] \in Nat
      /\ duration \in Nat /\ duration' \in Nat /\ elapsed \in Nat
      /\ page.remaining \in Int /\ sum.left \in Int
  <2>1. TypeOK  BY DEF PageInv
  <2>2. TicksLeft' \in Nat /\ lag'["server"] \in Nat /\ duration' \in Nat
    <3>1. duration' \in Nat /\ lag'["server"] \in Nat /\ toWake' \in Nat
      BY DEF TypeOK, SettingsTypeOK, PlatformTypeOK, MainTypeOK, Threads
    <3>2. QED  BY <3>1, SleepTicksTyped DEF TicksLeft
  <2>3. QED  BY <2>1, <2>2, PageTyped
<1>2. PageClock'
  <2> SUFFICES ASSUME Runs("server")', srv' = srv, srv = "remaining" \/ StartInTotal,
                      Runs("server"), lag'["server"] = lag["server"], TicksLeft' >= TicksLeft,
                      duration' = duration \/ duration' * MinuteTicks <= TicksLeft'
               PROVE  /\ srv = "remaining" => NotOver(MinutesRemaining)'
                      /\ StartInTotal => NotOver(MinutesInTotal)'
    BY DEF PageClock, StartInTotal
  <2>1. ASSUME NEW x \in Int, x * MinuteTicks <= TicksLeft + (MinuteTicks - 1) + lag["server"]
        PROVE  x * MinuteTicks <= TicksLeft' + (MinuteTicks - 1) + lag'["server"]
    <3> DEFINE shown == x * MinuteTicks
    <3>1. shown \in Int /\ shown <= TicksLeft + (MinuteTicks - 1) + lag["server"]
      BY <1>1, <2>1
    <3> HIDE DEF shown
    <3>2. shown <= TicksLeft' + (MinuteTicks - 1) + lag'["server"]
      BY <1>1, <3>1
    <3>3. QED  BY <3>2 DEF shown
  <2>2. NotOver(MinutesRemaining) => NotOver(MinutesRemaining)'
    <3>1. CASE duration' = duration
      <4>1. duration - elapsed \in Int
        BY <1>1
      <4>2. QED  BY <2>1, <3>1, <4>1 DEF NotOver, MinutesRemaining
    <3>2. CASE duration' * MinuteTicks <= TicksLeft'
      <4> DEFINE shown == (duration' - elapsed) * MinuteTicks
                 whole == duration' * MinuteTicks
      <4>1. shown <= whole /\ whole <= TicksLeft'
        BY <1>1, <3>2, LessTimes
      <4>2. shown \in Int /\ whole \in Int
        BY <1>1
      <4> HIDE DEF shown, whole
      <4>3. shown <= TicksLeft' + (MinuteTicks - 1) + lag'["server"]
        BY <1>1, <4>1, <4>2
      <4>4. QED  BY <4>3 DEF shown, NotOver, MinutesRemaining
    <3>3. QED  BY <3>1, <3>2
  <2>3. "length" \notin unread /\ NotOver(sum.left) => NotOver(sum.left)'
    BY <1>1, <2>1 DEF NotOver
  <2>4. QED
    BY <2>2, <2>3 DEF PageInv, PageClock, MinutesInTotal, StartInTotal, NotOver
<1>3. PageNeverOverstates'
  <2> SUFFICES ASSUME Runs("server")', srv' = "localtime"
               PROVE  page.remaining * MinuteTicks
                        <= TicksLeft' + (MinuteTicks - 1) + lag'["server"]
    BY DEF PageNeverOverstates
  <2>1. page.remaining * MinuteTicks <= TicksLeft + (MinuteTicks - 1) + lag["server"]
    BY DEF PageInv, PageNeverOverstates
  <2>2. page.remaining * MinuteTicks \in Int
    BY <1>1
  <2>3. QED  BY <1>1, <2>1, <2>2
<1>4. QED
  BY <1>2, <1>3 DEF PageInv, StartReadFirst

\* A step of the main thread lengthens what is left, or leaves it alone.
LEMMA PageInvMain == ASSUME PausesFit, PageInv, MainActs PROVE PageInv'
<1>1. /\ TypeOK /\ TypeOK' /\ PauseClock /\ Up /\ Up' /\ handler' = handler
      /\ UNCHANGED <<elapsed, unread, sum, page>>
      /\ srv' = srv \/ srv' \notin {"remaining", "localtime", "total"}
  BY MainTyped DEF PageInv, MainActs, Runs, Up, Spawn, srvVars, sumVars, processVars
<1>2. /\ MaxAge \in Nat /\ EpochAge \in Nat /\ duration \in Nat /\ age \in Nat /\ toWake \in Nat
      /\ TicksLeft \in Nat /\ lag \in [Threads -> Nat] /\ Threads = {"main", "server"}
      /\ duration * MinuteTicks \in Nat
  BY <1>1, PageTyped
<1>3. SleepTicks(duration) = duration * MinuteTicks
  <2>1. ASSUME NEW x \in Nat, NEW u \in Nat \ {0}, x < u PROVE x % u = x
    BY <2>1, SMT
  <2>2. QED
    BY <1>1, <1>2, <2>1, ConstantsTyped DEF PauseClock, SleepTicks
<1>4. ASSUME PauseClock', TicksLeft' >= TicksLeft, lag'["server"] = lag["server"],
             duration' = duration \/ duration' * MinuteTicks <= TicksLeft'
      PROVE  PageInv'
  BY <1>1, <1>4, PageInvIdle DEF Runs, Up
<1>5. ASSUME UNCHANGED <<duration, age>>, TicksLeft' >= TicksLeft, TicksLeft' \in Nat,
             lag'["server"] = lag["server"]
      PROVE  PageInv'
  <2> DEFINE d == duration * MinuteTicks
  <2>1. d \in Nat /\ d < UIntRange /\ d <= MaxAge /\ d - age <= TicksLeft
    BY <1>1, <1>2 DEF PauseClock
  <2> HIDE DEF d
  <2>2. d - age <= TicksLeft'
    BY <1>2, <1>5, <2>1
  <2>3. PauseClock'
    BY <1>5, <2>1, <2>2 DEF PauseClock, d
  <2>4. QED  BY <1>4, <1>5, <2>3
<1> USE DEF settings, pauseVars, platform, pinVars, mainVars
<1>6. CASE LogBegin
  BY <1>2, <1>5, <1>6 DEF LogBegin, TicksLeft
<1>7. CASE LogEnd
  <2>1. /\ UNCHANGED <<duration, age, lag>>
        /\ mpc \notin {"asleep", "stamp", "nap"} /\ mpc' \notin {"asleep", "stamp", "nap"}
    BY <1>7 DEF LogEnd, AfterLog
  <2>2. QED  BY <1>5, <2>1 DEF TicksLeft
<1>8. CASE Exec \/ SetupWiringPi \/ SetRunning \/ Clear \/ Check \/ Decide \/ Start \/ Stop \/ Spawn
  <2>1. /\ UNCHANGED <<duration, age, lag>>
        /\ mpc \notin {"asleep", "stamp", "nap"} /\ mpc' \notin {"asleep", "stamp", "nap"}
    BY <1>8 DEF Exec, SetupWiringPi, SetRunning, Clear, Check, Decide, Start, Stop, Spawn, Step
  <2>2. QED  BY <1>5, <2>1 DEF TicksLeft
<1>9. CASE PauseLength
  <2>1. PICK m \in PauseLengths(phase) : SetDuration(m)
    BY <1>9 DEF PauseLength
  <2>2. /\ duration' = m /\ age' = age /\ UNCHANGED lag
        /\ mpc = "duration" /\ mpc' = "stamp"
    BY <1>9, <2>1 DEF PauseLength, SetDuration, Step
  <2>3. /\ m \in Nat /\ m * MinuteTicks < UIntRange /\ m * MinuteTicks <= MaxAge
        /\ SleepTicks(m) = m * MinuteTicks
    BY <1>1, <2>1, PauseFits DEF TypeOK, MainTypeOK
  <2>4. TicksLeft = 0 /\ TicksLeft' = SleepTicks(m) /\ SleepTicks(m) \in Nat
    BY <2>2, <2>3, SleepTicksTyped DEF TicksLeft
  <2>5. SleepTicks(m) - age <= SleepTicks(m)
    BY <1>2, <2>4
  <2>6. PauseClock'
    BY <2>2, <2>3, <2>4, <2>5 DEF PauseClock
  <2>7. duration' * MinuteTicks <= TicksLeft'
    BY <2>2, <2>3, <2>4
  <2>8. QED  BY <1>4, <2>2, <2>4, <2>6, <2>7
<1>10. CASE PauseStamp
  <2>1. /\ duration' = duration /\ age' = 0 /\ UNCHANGED lag
        /\ mpc = "stamp" /\ mpc' = "nap"
    BY <1>10 DEF PauseStamp, StampStart, Step
  <2>2. TicksLeft' = TicksLeft /\ TicksLeft = duration * MinuteTicks
    BY <1>3, <2>1 DEF TicksLeft
  <2>3. duration * MinuteTicks - 0 <= TicksLeft
    BY <1>2, <2>2
  <2>4. PauseClock'
    BY <1>1, <2>1, <2>2, <2>3 DEF PauseClock
  <2>5. QED  BY <1>2, <1>4, <2>1, <2>2, <2>4
<1>11. CASE Nap
  <2>1. /\ UNCHANGED <<duration, age>> /\ lag'["server"] = lag["server"]
        /\ mpc = "nap" /\ mpc' = "asleep" /\ toWake' = SleepTicks(duration)
    BY <1>2, <1>11 DEF Nap, Waits, Step
  <2>2. QED  BY <1>2, <1>5, <2>1 DEF TicksLeft
<1>12. CASE Wake
  <2>1. /\ UNCHANGED <<duration, age, lag>> /\ mpc = "asleep" /\ toWake = 0
        /\ mpc' \notin {"asleep", "stamp", "nap"}
    BY <1>12 DEF Wake
  <2>2. QED  BY <1>5, <2>1 DEF TicksLeft
<1>13. QED
  BY <1>6, <1>7, <1>8, <1>9, <1>10, <1>11, <1>12 DEF MainActs, MainStep

\* The debug thread reads what is left before it shows it.
LEMMA PageInvSrv == ASSUME PageInv, SrvActs \/ Client PROVE PageInv'
<1>1. /\ TypeOK /\ TypeOK' /\ PauseClock /\ Runs("server") /\ Runs("server")' /\ Up'
      /\ UNCHANGED <<mpc, toWake, status, handler>>
  BY SrvTyped DEF PageInv, SrvActs, Client, Runs, Up, mainVars, processVars
<1>2. /\ duration \in Nat /\ age \in Nat /\ TicksLeft \in Nat /\ lag["server"] \in Nat
      /\ duration * MinuteTicks \in Nat /\ MinuteTicks \in Nat \ {0}
      /\ lag \in [Threads -> Nat] /\ Threads = {"main", "server"}
  BY <1>1, PageTyped
<1>3. UNCHANGED <<duration, age>>
  BY DEF SrvActs, Client, SrvStep, SrvLogBegin, SrvLogEnd, Socket, Bind, Loop, Accept, ReadElapsed,
     PrintRemaining, PageTime, Read, ReadHour, ReadMin, ReadStart, ReadLength, SetHour, SetMin,
     PrintTrigger, Send, ReadsOnly, settings, pauseVars
<1>4. TicksLeft' = TicksLeft
  BY <1>1, <1>3 DEF TicksLeft
<1>5. PauseClock'
  BY <1>1, <1>3, <1>4 DEF PauseClock
<1>6. StartReadFirst'
  <2>1. StartReadFirst
    BY DEF PageInv
  <2>2. CASE ReadHour \/ ReadMin \/ ReadStart \/ ReadLength
    BY <2>1, <2>2 DEF StartReadFirst, Read, ReadHour, ReadMin, ReadStart, ReadLength
  <2>3. CASE PageTime \/ SetMin
    BY <2>1, <2>3 DEF StartReadFirst, PageTime, SetMin, Operands
  <2>4. CASE SrvLogBegin \/ SrvLogEnd
    BY <2>1, <2>4 DEF StartReadFirst, SrvLogBegin, SrvLogEnd, AfterSrvLog, srvVars, sumVars
  <2>5. CASE ~(ReadHour \/ ReadMin \/ ReadStart \/ ReadLength \/ PageTime \/ SetMin
               \/ SrvLogBegin \/ SrvLogEnd)
    BY <2>1, <2>5 DEF StartReadFirst, SrvActs, Client, SrvStep, Socket, Bind, Loop, Accept,
       ReadElapsed, PrintRemaining, SetHour, PrintTrigger, Send, sumVars
  <2>6. QED  BY <2>2, <2>3, <2>4, <2>5
<1>7. ASSUME PageClock', PageNeverOverstates' PROVE PageInv'
  BY <1>1, <1>5, <1>6, <1>7 DEF PageInv
<1>8. ASSUME srv' \notin {"remaining", "localtime", "total"} PROVE PageInv'
  BY <1>7, <1>8 DEF PageClock, StartInTotal, PageNeverOverstates
<1> USE DEF platform
<1>9. CASE SrvLogBegin
  BY <1>8, <1>9 DEF SrvLogBegin, AfterSrvLog, srvVars, sumVars
<1>10. CASE SrvLogEnd
  BY <1>8, <1>10 DEF SrvLogEnd, AfterSrvLog
<1>11. CASE Socket \/ Bind \/ Loop \/ Accept \/ SetHour \/ SetMin \/ PrintTrigger \/ Send
  BY <1>8, <1>11 DEF Socket, Bind, Loop, Accept, SetHour, SetMin, PrintTrigger, Send, Goto
<1>12. CASE PageTime
  <2>1. srv' = "total" /\ unread' = Operands
    BY <1>12 DEF PageTime, Goto
  <2>2. ~StartInTotal'
    BY <2>1 DEF StartInTotal, Operands
  <2>3. QED  BY <1>7, <2>1, <2>2 DEF PageClock, PageNeverOverstates
<1>13. CASE ReadElapsed \/ ReadStart
  <2>1. /\ (srv' = "remaining" \/ (srv' = "total" /\ "length" \in unread'))
        /\ elapsed' = age \div MinuteTicks /\ UNCHANGED lag
    BY <1>13 DEF ReadElapsed, ReadStart, Read, Goto, ElapsedMinutes, ReadsOnly, PageInv,
       StartReadFirst
  <2> DEFINE shown == (duration - (age \div MinuteTicks)) * MinuteTicks
             left  == duration * MinuteTicks - age
  <2>2. shown <= left + (MinuteTicks - 1) /\ left <= TicksLeft
    BY <1>1, <1>2, RoundedUp DEF PauseClock
  <2>3. shown \in Int /\ left \in Int
    <3>1. age \div MinuteTicks \in Int
      BY <1>2, DivMod
    <3>2. QED  BY <1>2, <3>1
  <2> HIDE DEF shown, left
  <2>4. shown <= TicksLeft + (MinuteTicks - 1) + lag["server"]
    BY <1>2, <2>2, <2>3
  <2>5. MinutesRemaining' * MinuteTicks <= TicksLeft' + (MinuteTicks - 1) + lag'["server"]
    BY <1>3, <1>4, <2>1, <2>4 DEF MinutesRemaining, shown
  <2>6. PageClock'
    BY <2>1, <2>5 DEF PageClock, NotOver, StartInTotal, MinutesInTotal
  <2>7. QED
    BY <1>7, <2>1, <2>6 DEF PageNeverOverstates
<1>14. CASE ReadHour \/ ReadMin
  <2>1. /\ srv = "total" /\ srv' = "total" /\ UNCHANGED <<elapsed, lag>>
        /\ sum'.left = sum.left
        /\ \A operand \in {"start", "length"} : operand \in unread' <=> operand \in unread
    BY <1>1, <1>14 DEF ReadHour, ReadMin, Read, ReadsOnly, TypeOK, SrvTypeOK
  <2>2. MinutesInTotal' = MinutesInTotal /\ (StartInTotal' <=> StartInTotal)
    BY <1>3, <2>1 DEF MinutesInTotal, MinutesRemaining, StartInTotal
  <2>3. StartInTotal => NotOver(MinutesInTotal)
    BY <1>1 DEF PageInv, PageClock
  <2>4. PageClock'
    BY <1>4, <2>1, <2>2, <2>3 DEF PageClock, NotOver
  <2>5. QED  BY <1>7, <2>1, <2>4 DEF PageNeverOverstates
<1>15. CASE ReadLength
  <2>1. /\ srv = "total" /\ srv' = "total" /\ UNCHANGED lag /\ sum'.left = MinutesRemaining
        /\ "start" \notin unread /\ "length" \in unread /\ "length" \notin unread'
    BY <1>1, <1>15 DEF ReadLength, Read, ReadsOnly, TypeOK, SrvTypeOK
  <2>2. NotOver(MinutesRemaining)
    BY <1>1, <2>1 DEF PageInv, PageClock, StartInTotal, MinutesInTotal
  <2>3. PageClock'
    BY <1>4, <2>1, <2>2 DEF PageClock, NotOver, MinutesInTotal
  <2>4. QED  BY <1>7, <2>1, <2>3 DEF PageNeverOverstates
<1>16. CASE PrintRemaining
  <2>1. /\ srv = "remaining" /\ srv' = "localtime" /\ UNCHANGED lag
        /\ page'.remaining = duration - elapsed
    BY <1>1, <1>16 DEF PrintRemaining, Goto, MinutesRemaining, ReadsOnly, TypeOK, SrvTypeOK
  <2>2. (duration - elapsed) * MinuteTicks <= TicksLeft + (MinuteTicks - 1) + lag["server"]
    BY <1>1, <2>1 DEF PageInv, PageClock, NotOver, MinutesRemaining
  <2>3. PageNeverOverstates'
    BY <1>4, <2>1, <2>2 DEF PageNeverOverstates
  <2>4. QED
    BY <1>7, <2>1, <2>3 DEF PageClock, StartInTotal
<1>17. QED
  BY <1>9, <1>10, <1>11, <1>12, <1>13, <1>14, <1>15, <1>16 DEF SrvActs, Client, SrvStep

\* A tick of the pause is a tick of the debug thread too, while it makes a page.
LEMMA PageInvTick == ASSUME PageInv, Tick PROVE PageInv'
<1>1. /\ TypeOK /\ TypeOK' /\ PauseClock
      /\ UNCHANGED <<mpc, duration, srv, elapsed, unread, sum, page, status, handler, logger>>
  BY TickTyped DEF PageInv, Tick, srvVars, sumVars, processVars
<1>2. /\ MaxAge \in Nat /\ MinuteTicks \in Nat \ {0}
      /\ duration \in Nat /\ age \in Nat /\ elapsed \in Nat /\ toWake \in Nat
      /\ page.remaining \in Int /\ sum.left \in Int
      /\ lag["server"] \in Nat /\ lag \in [Threads -> Nat]
      /\ TicksLeft \in Nat /\ duration * MinuteTicks \in Nat
      /\ handler \in [Threads -> HandlerPoints] /\ Threads = {"main", "server"}
  BY <1>1, PageTyped
<1>3. /\ TicksLeft' \in Nat /\ TicksLeft' >= TicksLeft - 1
      /\ ~(Up /\ MainAsleep) => TicksLeft' = TicksLeft
  BY <1>1, <1>2 DEF Tick, TicksLeft, MainAsleep, Resting
<1> DEFINE d == duration * MinuteTicks
<1>4. d \in Nat /\ d < UIntRange /\ d <= MaxAge /\ d - age <= TicksLeft
  BY <1>1, <1>2 DEF PauseClock
<1> HIDE DEF d
<1>5. d - age' <= TicksLeft'
  <2>1. age' = IF age < MaxAge THEN age + 1 ELSE age
    BY DEF Tick, Older
  <2>2. QED  BY <1>2, <1>3, <1>4, <2>1
<1>6. PauseClock'
  BY <1>1, <1>4, <1>5 DEF PauseClock, d
<1>7. ASSUME Runs("server"), srv \in {"remaining", "localtime", "total"}
      PROVE  TicksLeft + lag["server"] <= TicksLeft' + lag'["server"] /\ lag'["server"] \in Nat
  <2>1. CASE Wedged
    <3>1. ~MainAsleep
      BY <1>2, <1>7, <2>1 DEF Wedged, WedgedOn, MainAsleep, Runs
    <3>2. lag'["server"] = lag["server"]
      BY <1>2, <2>1 DEF Tick, Due
    <3>3. QED  BY <1>2, <1>3, <3>1, <3>2
  <2>2. CASE ~Wedged
    <3>1. lag'["server"] = lag["server"] + 1
      BY <1>2, <1>7, <2>2 DEF Tick, Due, SrvWaits, Runs
    <3>2. QED  BY <1>2, <1>3, <3>1
  <2>3. QED  BY <2>1, <2>2
<1>8. PageClock'
  <2>1. ASSUME Runs("server"), srv \in {"remaining", "localtime", "total"},
               NEW x \in Int, NotOver(x)
        PROVE  x * MinuteTicks <= TicksLeft' + (MinuteTicks - 1) + lag'["server"]
    <3> DEFINE shown == x * MinuteTicks
    <3>1. shown \in Int /\ shown <= TicksLeft + (MinuteTicks - 1) + lag["server"]
      BY <1>2, <2>1 DEF NotOver
    <3> HIDE DEF shown
    <3>2. shown <= TicksLeft' + (MinuteTicks - 1) + lag'["server"]
      BY <1>2, <1>3, <1>7, <2>1, <3>1
    <3>3. QED  BY <3>2 DEF shown
  <2>2. MinutesRemaining \in Int /\ MinutesInTotal \in Int
    BY <1>2 DEF MinutesRemaining, MinutesInTotal
  <2>3. /\ MinutesRemaining' = MinutesRemaining /\ MinutesInTotal' = MinutesInTotal
        /\ (Runs("server")' <=> Runs("server")) /\ (StartInTotal' <=> StartInTotal)
    BY <1>1 DEF MinutesRemaining, MinutesInTotal, Runs, Up, StartInTotal
  <2>4. ASSUME Runs("server"), srv = "remaining" PROVE NotOver(MinutesRemaining)'
    <3>1. NotOver(MinutesRemaining)
      BY <2>4 DEF PageInv, PageClock
    <3>2. QED  BY <2>1, <2>2, <2>3, <2>4, <3>1 DEF NotOver
  <2>5. ASSUME Runs("server"), StartInTotal PROVE NotOver(MinutesInTotal)'
    <3>1. NotOver(MinutesInTotal) /\ srv = "total"
      BY <2>5 DEF PageInv, PageClock, StartInTotal
    <3>2. QED  BY <2>1, <2>2, <2>3, <2>5, <3>1 DEF NotOver
  <2>6. QED  BY <1>1, <2>3, <2>4, <2>5 DEF PageClock
<1>9. PageNeverOverstates'
  <2> SUFFICES ASSUME Runs("server"), srv = "localtime"
               PROVE  page.remaining * MinuteTicks
                        <= TicksLeft' + (MinuteTicks - 1) + lag'["server"]
    BY <1>1 DEF PageNeverOverstates, Runs, Up
  <2> DEFINE shown == page.remaining * MinuteTicks
  <2>1. shown \in Int /\ shown <= TicksLeft + (MinuteTicks - 1) + lag["server"]
    BY <1>2 DEF PageInv, PageNeverOverstates
  <2> HIDE DEF shown
  <2>2. shown <= TicksLeft' + (MinuteTicks - 1) + lag'["server"]
    BY <1>2, <1>3, <1>7, <2>1
  <2>3. QED  BY <2>2 DEF shown
<1>10. QED
  BY <1>1, <1>6, <1>8, <1>9 DEF PageInv, StartReadFirst, Up

\* Every step keeps what a page says in step with the pause.
LEMMA PageInvNext == ASSUME PausesFit, PageInv, [Next]_vars PROVE PageInv'
<1>1. TypeOK /\ TypeOK' /\ PauseClock
  BY NextTyped DEF PageInv
<1>2. TicksLeft \in Nat /\ handler \in [Threads -> HandlerPoints] /\ Threads = {"main", "server"}
  BY <1>1, PageTyped
<1>3. CASE MainActs  BY <1>3, PageInvMain
<1>4. CASE SrvActs \/ Client  BY <1>4, PageInvSrv
<1>5. ASSUME UNCHANGED <<duration, age, mpc, toWake, elapsed, unread, sum, page, srv, lag>>,
             Runs("server")' => Runs("server"), ~Up' => ~Up
      PROVE  PageInv'
  <2>1. TicksLeft' = TicksLeft
    BY <1>5 DEF TicksLeft
  <2>2. PauseClock'
    BY <1>1, <1>5, <2>1 DEF PauseClock
  <2>3. QED  BY <1>1, <1>2, <1>5, <2>1, <2>2, PageInvIdle DEF PageInv
<1>6. ASSUME NEW how \in Endings, Die(how) PROVE PageInv'
  <2>1. duration' = 0 /\ age' = EpochAge /\ srv' = "off" /\ unread' = {} /\ TicksLeft' = 0
    BY <1>6 DEF Die, SettingsReset, Fresh, SrvReset, SrvFresh, MainReset, MainFresh, TicksLeft
  <2>2. 0 * MinuteTicks = 0 /\ MaxAge \in Nat /\ EpochAge \in Nat
    BY <1>1, PageTyped
  <2>3. PauseClock'
    BY <2>1, <2>2, ConstantsTyped DEF PauseClock
  <2>4. QED
    BY <1>1, <2>1, <2>3 DEF PageInv, PageClock, StartInTotal, StartReadFirst, PageNeverOverstates
<1>7. CASE DaemonFails \/ Kill  BY <1>6, <1>7 DEF DaemonFails, Kill, Endings
<1>8. CASE Launch
  <2>1. srv' = "off" /\ UNCHANGED <<duration, age, mpc, toWake, srv, unread>>
    BY <1>8 DEF Launch, PageInv, mainVars, srvVars, sumVars, settings, pauseVars
  <2>2. PauseClock'
    BY <1>1, <2>1 DEF PauseClock, TicksLeft
  <2>3. QED
    BY <1>1, <2>1, <2>2 DEF PageInv, PageClock, StartInTotal, StartReadFirst, PageNeverOverstates
<1>9. ASSUME NEW t \in Threads, Interrupt(t) PROVE PageInv'
  <2>1. /\ UNCHANGED <<duration, age, mpc, toWake, elapsed, unread, sum, page, srv, lag, status>>
        /\ handler' = [handler EXCEPT ![t] = "announce"]
    BY <1>9 DEF Interrupt, settings, pauseVars, platform, mainVars, srvVars, sumVars
  <2>2. Runs("server")' => Runs("server")
    BY <1>2, <2>1 DEF Runs, Up
  <2>3. QED  BY <1>5, <2>1, <2>2 DEF Up
<1>10. CASE \E t \in SignalThreads : Signal(t)  BY <1>9, <1>10, ConstantsTyped DEF Signal
<1>11. CASE Fault  BY <1>2, <1>9, <1>11 DEF Fault
<1>12. ASSUME NEW t \in Threads, HandlerActs(t) PROVE PageInv'
  <2>1. CASE HandlerExit(t)  BY <1>6, <2>1 DEF HandlerExit, Endings
  <2>2. CASE ~HandlerExit(t)
    <3>1. UNCHANGED <<duration, age, mpc, toWake, elapsed, unread, sum, page, srv, lag, status>>
      BY <1>12, <2>2 DEF HandlerActs, HandlerLogBegin, HandlerLogEnd, HandlerStop, HandlerQuit,
     HandlerClose, Quietly, settings, pauseVars, platform, mainVars, srvVars, sumVars
    <3>2. handler'["server"] = "none" => handler["server"] = "none"
      BY <1>2, <1>12, <2>2 DEF HandlerActs, HandlerLogBegin, HandlerLogEnd, HandlerStop,
         HandlerQuit, HandlerClose, HandlerAt
    <3>3. Runs("server")' => Runs("server")
      BY <3>1, <3>2 DEF Runs, Up
    <3>4. QED  BY <1>5, <3>1, <3>3 DEF Up
  <2>3. QED  BY <2>1, <2>2
<1>13. CASE Tick  BY <1>13, PageInvTick
<1>14. CASE UNCHANGED vars
  BY <1>5, <1>14 DEF vars, Runs, Up, settings, pauseVars, platform, mainVars, srvVars, sumVars,
     processVars
<1>15. QED
  BY <1>3, <1>4, <1>7, <1>8, <1>10, <1>11, <1>12, <1>13, <1>14 DEF Next

\* A status page never shows more minutes than are left of the pause, rounded
\* up, wherever the main thread stands while the page reads and on whichever
\* thread the signals arrive, unless an option is so long that sleep() wraps.
THEOREM PageNeverOverstatesHolds == ASSUME PausesFit PROVE Spec => []PageNeverOverstates
<1>1. Init => PageInv  BY PageInvInit
<1>2. PageInv /\ [Next]_vars => PageInv'  BY PageInvNext
<1>3. PageInv => PageNeverOverstates  BY DEF PageInv
<1>4. QED  BY <1>1, <1>2, <1>3, PTL DEF Spec

-----------------------------------------------------------------------------
(***************************************************************************)
(* The timer gives the fan its full run and its full rest.                 *)
(***************************************************************************)

\* A rest is no shorter than the sleep option, random or not, and the ages are
\* counted up to it.
LEMMA RestIsFull ==
  ASSUME PausesFit
  PROVE  /\ SleepTicks(RunMinutes) \in 0 .. MaxAge /\ SleepTicks(SleepMinutes) \in 0 .. MaxAge
         /\ \A f \in {"rest", "idle"} : \A m \in PauseLengths(f) :
              SleepTicks(m) \in Nat /\ SleepTicks(m) >= SleepTicks(SleepMinutes)
<1>1. RunMinutes \in PauseLengths("run") /\ SleepMinutes \in PauseLengths("idle")
  BY DEF PauseLengths
<1>2. /\ SleepTicks(RunMinutes) <= MaxAge /\ SleepTicks(SleepMinutes) <= MaxAge
      /\ SleepTicks(SleepMinutes) = SleepMinutes * MinuteTicks
  BY <1>1, PauseFits
<1>3. SleepTicks(RunMinutes) \in 0 .. MaxAge /\ SleepTicks(SleepMinutes) \in 0 .. MaxAge
  BY <1>2, SleepTicksTyped, ConstantsTyped
<1>4. ASSUME NEW a \in Nat, NEW b \in Nat, NEW c \in Nat, a <= b PROVE a * c <= b * c
  BY <1>4, SMT
<1>5. ASSUME NEW f \in {"rest", "idle"}, NEW m \in PauseLengths(f)
      PROVE  SleepTicks(m) \in Nat /\ SleepTicks(m) >= SleepTicks(SleepMinutes)
  <2>1. m \in Nat /\ SleepMinutes <= m /\ SleepTicks(m) = m * MinuteTicks
    BY <1>5, PauseFits
  <2>2. SleepTicks(m) \in Nat
    BY <2>1, SleepTicksTyped
  <2>3. SleepMinutes * MinuteTicks <= m * MinuteTicks
    BY <1>4, <2>1, ConstantsTyped
  <2>4. QED
    BY <1>2, <1>3, <2>1, <2>2, <2>3
<1>6. QED
  BY <1>3, <1>5

\* What the fan's clock speaks of are numbers.
LEMMA FanTyped ==
  ASSUME FanInv
  PROVE  /\ PinInv /\ ExitInv /\ TypeOK
         /\ held \in 0 .. MaxAge /\ toWake \in Nat /\ MaxAge \in Nat
         /\ age \in (0 .. MaxAge) \cup {EpochAge} /\ EpochAge \in Nat /\ EpochAge > MaxAge
         /\ level \in {"LOW", "HIGH"} /\ phase \in {"run", "rest", "idle"}
         /\ mpc \in MainPoints
         /\ handler["server"] = "none"
         /\ handler \in [Threads -> HandlerPoints] /\ Threads = {"main", "server"}
<1>1. PinInv /\ ExitInv /\ TypeOK
  BY DEF FanInv, PinInv
<1>2. QED
  BY <1>1, ConstantsTyped
     DEF ExitInv, TypeOK, SettingsTypeOK, PlatformTypeOK, MainTypeOK, Threads

LEMMA FanInvInit == Init => FanInv
<1> SUFFICES ASSUME Init PROVE FanInv  OBVIOUS
<1>1. PinInv /\ ExitInv
  BY PinInvInit, ExitInvInit
<1>2. mpc = "exec" /\ age = EpochAge /\ ~Up
  BY DEF Init, MainInit, MainFresh, SettingsInit, Fresh, Up
<1>3. QED
  BY <1>1, <1>2 DEF FanInv, Stamped, FirstPause, RunsInFull, RestsInFull, Cleared, SetUp, Stopping

\* A step of the main thread keeps the fan's clock.
LEMMA FanInvMain ==
  ASSUME HandlerOnMain, PausesFit, FanInv, MainActs PROVE FanInv'
<1>1. /\ PinInv /\ PinInv' /\ ExitInv' /\ WiredOnceSetUp /\ HighOnlyInRun /\ RunLength
      /\ held \in 0 .. MaxAge /\ toWake \in Nat /\ MaxAge \in Nat
      /\ EpochAge \in Nat /\ EpochAge > MaxAge
      /\ level \in {"LOW", "HIGH"} /\ phase \in {"run", "rest", "idle"}
  BY PinInvMain, ExitInvNext, FanTyped DEF FanInv, PinInv, Next
<1>2. Up /\ Up' /\ handler' = handler /\ handler["main"] = "none"
  BY DEF MainActs, Runs, Up, processVars
<1>3. SleepTicks(RunMinutes) \in Nat /\ SleepTicks(SleepMinutes) \in Nat
  BY RestIsFull
<1>4. Stamped /\ RunsInFull /\ RestsInFull
  BY DEF FanInv
<1>5. ASSUME Stamped', RunsInFull', RestsInFull' PROVE FanInv'
  BY <1>1, <1>5 DEF FanInv
<1> USE <1>2, <1>4 DEF Stamped, FirstPause, RunsInFull, RestsInFull, Cleared, RunPause, SetUp,
          Pausing, Stopping, settings, pauseVars, platform, pinVars, mainVars
<1>6. CASE LogBegin
  BY <1>5, <1>6 DEF LogBegin
<1>7. CASE LogEnd
  BY <1>1, <1>5, <1>7 DEF LogEnd, AfterLog, RunLength
<1>8. CASE Exec \/ SetupWiringPi \/ SetRunning \/ Spawn
  BY <1>5, <1>8 DEF Exec, SetupWiringPi, SetRunning, Spawn, Step
<1>9. CASE Clear
  BY <1>5, <1>9 DEF Clear, Step
<1>10. CASE Check
  BY <1>5, <1>10 DEF Check, Step
<1>11. CASE Decide
  BY <1>5, <1>11 DEF Decide
<1>12. CASE Start
  BY <1>1, <1>5, <1>12 DEF Start, Step, SetGpio, WiredOnceSetUp, RunLength
<1>13. CASE Stop
  BY <1>1, <1>5, <1>13 DEF Stop, Step
<1>14. CASE PauseLength
  <2>1. PICK m \in PauseLengths(phase) : duration' = m
    BY <1>14 DEF PauseLength, SetDuration
  <2>2. /\ mpc = "duration" /\ mpc' = "stamp" /\ UNCHANGED <<age, level, held, toWake, phase>>
    BY <1>14 DEF PauseLength, SetDuration, Step
  <2>3. phase /= "run" => SleepTicks(duration') >= SleepTicks(SleepMinutes)
    BY <1>1, <2>1, RestIsFull
  <2>4. QED
    BY <1>5, <2>2, <2>3
<1>15. CASE PauseStamp
  BY <1>1, <1>5, <1>15 DEF PauseStamp, StampStart, Step
<1>16. CASE Nap
  <2>1. /\ mpc = "nap" /\ mpc' = "asleep" /\ toWake' = SleepTicks(duration)
        /\ UNCHANGED <<age, level, held, phase, duration>>
    BY <1>16 DEF Nap, Step
  <2>2. phase = "run" => held' + toWake' >= SleepTicks(RunMinutes)
    BY <1>1, <1>3, <2>1 DEF RunLength
  <2>3. phase /= "run" => held' + toWake' >= SleepTicks(SleepMinutes)
    <3>1. ASSUME phase /= "run" PROVE SleepTicks(duration) >= SleepTicks(SleepMinutes)
      BY <2>1, <3>1
    <3>2. SleepTicks(duration) \in Nat
      BY <1>1, SleepTicksTyped DEF PinInv, TypeOK, SettingsTypeOK
    <3>3. QED  BY <1>1, <1>3, <2>1, <3>1, <3>2
  <2>4. QED
    BY <1>5, <2>1, <2>2, <2>3
<1>17. CASE Wake
  <2>1. /\ mpc = "asleep" /\ toWake = 0 /\ UNCHANGED <<age, level, held, phase, toWake>>
        /\ mpc' = IF phase = "run" THEN "stopLog" ELSE "check"
    BY <1>17 DEF Wake
  <2>2. /\ phase = "run" => held >= SleepTicks(RunMinutes)
        /\ phase /= "run" => held >= SleepTicks(SleepMinutes)
    BY <1>1, <1>3, <2>1
  <2>3. QED
    BY <1>5, <2>1, <2>2
<1>18. QED
  BY <1>6, <1>7, <1>8, <1>9, <1>10, <1>11, <1>12, <1>13, <1>14, <1>15, <1>16, <1>17
     DEF MainActs, MainStep

\* A tick takes as much from the pause as it gives to the run or the rest.
LEMMA FanInvTick ==
  ASSUME HandlerOnMain, PausesFit, FanInv, Tick PROVE FanInv'
<1>1. /\ PinInv' /\ ExitInv' /\ held \in 0 .. MaxAge /\ toWake \in Nat /\ MaxAge \in Nat
      /\ age \in (0 .. MaxAge) \cup {EpochAge} /\ EpochAge \in Nat /\ EpochAge > MaxAge
  BY PinInvOther, PinInvMain, ExitInvNext, FanTyped DEF Next
<1>2. SleepTicks(RunMinutes) \in 0 .. MaxAge /\ SleepTicks(SleepMinutes) \in 0 .. MaxAge
  BY RestIsFull
<1>3. /\ UNCHANGED <<mpc, phase, level, duration, status, handler>>
      /\ age' = Older(age) /\ held' = Older(held)
      /\ toWake' = IF Up /\ MainAsleep THEN toWake - 1 ELSE toWake
  BY DEF Tick, processVars
<1>4. (FirstPause' <=> FirstPause) /\ held' >= held /\ (held' = held + 1 \/ held' = MaxAge)
  BY <1>1, <1>3 DEF FirstPause, Older
<1>5. held' \in Nat /\ toWake' \in Nat
  BY <1>1, <1>3 DEF Older, MainAsleep, Resting
<1>6. ASSUME NEW n \in 0 .. MaxAge, held + toWake >= n PROVE held' + toWake' >= n
  BY <1>1, <1>3, <1>4, <1>5, <1>6
<1>7. ASSUME NEW n \in 0 .. MaxAge, held >= n PROVE held' >= n
  BY <1>1, <1>4, <1>5, <1>7
<1>8. Stamped'
  BY <1>3, <1>4 DEF FanInv, Stamped, Stopping
<1>9. RunsInFull'
  BY <1>2, <1>3, <1>6, <1>7 DEF FanInv, RunsInFull, Cleared, RunPause, Pausing, Stopping, Up
<1>10. RestsInFull'
  BY <1>2, <1>3, <1>4, <1>6, <1>7 DEF FanInv, RestsInFull, Cleared, RunPause, Pausing, Stopping, Up
<1>11. QED
  BY <1>1, <1>8, <1>9, <1>10 DEF FanInv

\* Every step keeps the fan's clock.
LEMMA FanInvNext ==
  ASSUME HandlerOnMain, PausesFit, FanInv, [Next]_vars PROVE FanInv'
<1>1. PinInv' /\ ExitInv'
  BY PinInvMain, PinInvOther, ExitInvNext DEF FanInv
<1>2. handler["server"] = "none" /\ handler \in [Threads -> HandlerPoints]
      /\ Threads = {"main", "server"}
  BY FanTyped
<1>3. ASSUME UNCHANGED <<mpc, phase, duration, age, toWake>>,
             UNCHANGED <<level, held, status, handler>> \/ handler'["main"] /= "none"
      PROVE  FanInv'
  BY <1>1, <1>3 DEF FanInv, Stamped, FirstPause, RunsInFull, RestsInFull, Cleared, RunPause,
     Pausing, Stopping, Up
<1>4. CASE MainActs  BY <1>4, FanInvMain
<1>5. CASE SrvActs \/ Client
  <2>1. UNCHANGED <<mpc, phase, duration, age, toWake, level, held, status, handler>>
    BY <1>5 DEF SrvActs, Client, SrvStep, SrvLogBegin, SrvLogEnd, Socket, Bind, Loop, Accept,
     ReadElapsed, PrintRemaining, PageTime, Read, ReadHour, ReadMin, ReadStart, ReadLength, SetHour,
     SetMin, PrintTrigger, Send, ReadsOnly, settings, pauseVars, platform, pinVars, mainVars,
     processVars
  <2>2. QED  BY <1>3, <2>1
<1>6. ASSUME mpc' = "exec", age' = EpochAge PROVE FanInv'
  BY <1>1, <1>6 DEF FanInv, Stamped, FirstPause, RunsInFull, RestsInFull, Cleared, SetUp, Stopping
<1>7. ASSUME NEW how \in Endings, Die(how) PROVE FanInv'
  BY <1>6, <1>7 DEF Die, MainReset, MainFresh, SettingsReset, Fresh
<1>8. CASE DaemonFails \/ Kill  BY <1>7, <1>8 DEF DaemonFails, Kill, Endings
<1>9. CASE Launch
  <2>1. mpc = "exec" /\ UNCHANGED <<mpc, age>>
    BY <1>9, FanTyped DEF Launch, PinInv, DownIsReset, mainVars, settings, pauseVars
  <2>2. age = EpochAge
    BY <2>1 DEF FanInv, Stamped, FirstPause, SetUp
  <2>3. QED  BY <1>6, <2>1, <2>2
<1>10. CASE \E t \in SignalThreads : Signal(t)
  <2>1. Signal("main")
    BY <1>10 DEF HandlerOnMain
  <2>2. QED
    BY <1>2, <1>3, <2>1 DEF Signal, Interrupt, settings, pauseVars, mainVars
<1>11. CASE Fault  BY <1>11 DEF Fault, HandlerOnMain
<1>12. CASE \E t \in Threads : HandlerActs(t)
  <2>1. HandlerActs("main")
    BY <1>2, <1>12 DEF HandlerActs, HandlerLogBegin, HandlerLogEnd, HandlerStop, HandlerQuit,
       HandlerClose, HandlerExit, HandlerAt
  <2>2. CASE HandlerExit("main")  BY <1>7, <2>2 DEF HandlerExit, Endings
  <2>3. CASE ~HandlerExit("main")
    <3>1. UNCHANGED <<mpc, phase, duration, age, toWake>> /\ handler'["main"] /= "none"
      BY <1>2, <2>1, <2>3 DEF HandlerActs, HandlerLogBegin, HandlerLogEnd, HandlerStop,
         HandlerQuit, HandlerClose, HandlerAt, Quietly, settings, pauseVars, mainVars
    <3>2. QED  BY <1>3, <3>1
  <2>4. QED  BY <2>2, <2>3
<1>13. CASE Tick  BY <1>13, FanInvTick
<1>14. CASE UNCHANGED vars
  BY <1>3, <1>14 DEF vars, settings, pauseVars, platform, pinVars, mainVars, processVars
<1>15. QED
  BY <1>4, <1>5, <1>8, <1>9, <1>10, <1>11, <1>12, <1>13, <1>14 DEF Next

\* How the service stands, before and after a step.
LEMMA ServiceIs ==
  ASSUME TypeOK, TypeOK'
  PROVE  /\ ~Up <=> Service \in {"down", "failed"}
         /\ Up => Service = IF mpc \in SetUp THEN "boot"
                            ELSE IF handler["main"] = "none" THEN "up" ELSE "closing"
         /\ Up' => Service' = IF mpc' \in SetUp THEN "boot"
                              ELSE IF handler'["main"] = "none" THEN "up" ELSE "closing"
         /\ status' = "handled" => Service' = "down"
         /\ status' \in {"killed", "failed"} => Service' = "failed"
BY DEF Service, Up, TypeOK, Endings

LEMMA FanInit == Init => Fan!Init
<1> SUFFICES ASSUME Init PROVE Fan!Init  OBVIOUS
<1>1. status = "off" /\ level \in {"LOW", "HIGH"} /\ held = MaxAge
  BY DEF Init, PlatformInit
<1>2. Service = "down"
  BY <1>1 DEF Service, Up
<1>3. QED
  BY <1>1, <1>2 DEF Fan!Init

\* A step of the main thread is one of the fan timer, or none.
LEMMA FanMain ==
  ASSUME PausesFit, FanInv, FanInv', MainActs PROVE [Fan!Next]_Fan!fan
<1>1. /\ TypeOK /\ TypeOK' /\ WiredOnceSetUp /\ HighOnlyInRun
      /\ level \in {"LOW", "HIGH"} /\ EpochAge /= 0
      /\ Stamped /\ RunsInFull /\ RestsInFull
  BY FanTyped DEF FanInv, PinInv
<1>2. Up /\ Up' /\ handler' = handler /\ handler["main"] = "none"
  BY DEF MainActs, Runs, Up, processVars
<1>3. /\ Service = IF mpc \in SetUp THEN "boot" ELSE "up"
      /\ Service' = IF mpc' \in SetUp THEN "boot" ELSE "up"
  BY <1>1, <1>2, ServiceIs
<1>4. ASSUME UNCHANGED <<level, held, age>>, mpc \in SetUp <=> mpc' \in SetUp
      PROVE  UNCHANGED Fan!fan
  BY <1>3, <1>4 DEF Fan!fan
<1>5. CASE LogBegin \/ LogEnd
  <2>1. UNCHANGED <<level, held, age>> /\ (mpc \in SetUp <=> mpc' \in SetUp)
    BY <1>5 DEF LogBegin, LogEnd, AfterLog, SetUp, settings, pauseVars, pinVars, mainVars
  <2>2. QED  BY <1>4, <2>1
<1>6. CASE Exec \/ SetupWiringPi \/ SetRunning \/ Spawn
  <2>1. UNCHANGED <<level, held, age>> /\ (mpc \in SetUp <=> mpc' \in SetUp)
    BY <1>6 DEF Exec, SetupWiringPi, SetPinMode, SetRunning, Spawn, Step, SetUp,
       settings, pauseVars, platform, pinVars
  <2>2. QED  BY <1>4, <2>1
<1>7. CASE Clear
  <2>1. mpc \in SetUp /\ mpc' \notin SetUp /\ mpc = "clear" /\ age' = age
    BY <1>7 DEF Clear, Step, SetUp, settings, pauseVars
  <2>2. level' = "LOW" /\ held' = IF level = "LOW" THEN held ELSE 0
    BY <1>1, <1>2, <1>7, <2>1 DEF Clear, SetGpio, WiredOnceSetUp
  <2>3. age' = EpochAge
    BY <1>1, <2>1 DEF Stamped, FirstPause
  <2>4. Fan!Ready
    BY <1>3, <2>1, <2>2, <2>3 DEF Fan!Ready, Fan!Become, Fan!Set
  <2>5. QED  BY <2>4 DEF Fan!Next
<1>8. CASE Check \/ Decide \/ PauseLength \/ Nap \/ Wake
  <2>1. UNCHANGED <<level, held, age>> /\ (mpc \in SetUp <=> mpc' \in SetUp)
    BY <1>8 DEF Check, Decide, PauseLength, SetDuration, Nap, Wake, Step, SetUp,
       settings, pauseVars, platform, pinVars
  <2>2. QED  BY <1>4, <2>1
<1>9. CASE Start
  <2>1. mpc = "start" /\ mpc \notin SetUp /\ mpc' \notin SetUp /\ mpc' = "duration"
    BY <1>9 DEF Start, Step, SetUp
  <2>2. level = "LOW"
    BY <1>1, <1>2, <2>1 DEF HighOnlyInRun, Cleared, RunPause, Pausing, Stopping
  <2>3. level' = "HIGH" /\ held' = 0
    BY <1>1, <1>2, <1>9, <2>1, <2>2 DEF Start, SetGpio, WiredOnceSetUp
  <2>4. age = EpochAge \/ held >= SleepTicks(SleepMinutes)
    BY <1>1, <1>2, <2>1 DEF RestsInFull, FirstPause, Cleared, RunPause, Pausing, Stopping
  <2>5. Fan!On
    BY <1>3, <2>1, <2>2, <2>3, <2>4 DEF Fan!On, Fan!Set
  <2>6. QED  BY <2>5 DEF Fan!Next
<1>10. CASE Stop
  <2>1. mpc = "stop" /\ mpc \notin SetUp /\ mpc' \notin SetUp /\ age' = age
    BY <1>10 DEF Stop, Step, SetUp, settings, pauseVars
  <2>2. level' = "LOW" /\ held' = IF level = "LOW" THEN held ELSE 0
    BY <1>1, <1>2, <1>10, <2>1 DEF Stop, SetGpio, WiredOnceSetUp
  <2>3. age /= EpochAge
    BY <1>1, <2>1 DEF Stamped, FirstPause, Stopping
  <2>4. CASE level = "LOW"
    BY <1>4, <2>1, <2>2, <2>4
  <2>5. CASE level = "HIGH"
    <3>1. held >= SleepTicks(RunMinutes)
      BY <1>1, <1>2, <2>1, <2>5 DEF HighOnlyInRun, RunsInFull, Cleared, Stopping
    <3>2. Fan!Off
      BY <1>3, <2>1, <2>2, <2>3, <2>5, <3>1 DEF Fan!Off, Fan!Set
    <3>3. QED  BY <3>2 DEF Fan!Next
  <2>6. QED  BY <1>1, <2>4, <2>5
<1>11. CASE PauseStamp
  <2>1. mpc \notin SetUp /\ mpc' \notin SetUp /\ age' /= EpochAge /\ UNCHANGED <<level, held>>
    BY <1>1, <1>11 DEF PauseStamp, Step, StampStart, SetUp, platform, pinVars
  <2>2. CASE level = "LOW" /\ age = EpochAge
    <3>1. Fan!Wait
      BY <1>3, <2>1, <2>2 DEF Fan!Wait
    <3>2. QED  BY <3>1 DEF Fan!Next
  <2>3. CASE ~(level = "LOW" /\ age = EpochAge)
    BY <1>3, <2>1, <2>3 DEF Fan!fan
  <2>4. QED  BY <2>2, <2>3
<1>12. QED
  BY <1>5, <1>6, <1>7, <1>8, <1>9, <1>10, <1>11 DEF MainActs, MainStep

\* A step of a handler on the main thread is one of the fan timer, or none.
LEMMA FanHandler ==
  ASSUME FanInv, FanInv', HandlerActs("main") PROVE [Fan!Next]_Fan!fan
<1>1. /\ TypeOK /\ TypeOK' /\ WiredOnceSetUp /\ ExitInv
      /\ level \in {"LOW", "HIGH"} /\ handler \in [Threads -> HandlerPoints] /\ "main" \in Threads
  BY FanTyped DEF FanInv, PinInv
<1>2. handler["main"] /= "none"
  BY DEF HandlerActs, HandlerLogBegin, HandlerLogEnd, HandlerStop, HandlerQuit,
     HandlerClose, HandlerExit, HandlerAt
<1>3. Up
  BY DEF HandlerActs, HandlerLogBegin, HandlerLogEnd, HandlerStop, HandlerQuit,
     HandlerClose, HandlerExit, HandlerAt, Die
<1>4. Service = IF mpc \in SetUp THEN "boot" ELSE "closing"
  BY <1>1, <1>2, <1>3, ServiceIs
<1>5. CASE HandlerExit("main")
  <2>1. status' = "handled" /\ UNCHANGED <<level, held>>
    BY <1>5 DEF HandlerExit, Die, pinVars
  <2>2. Service' = "down"
    BY <1>1, <2>1, ServiceIs
  <2>3. CASE mpc \in SetUp
    <3>1. Fan!Abort
      BY <1>4, <2>1, <2>2, <2>3 DEF Fan!Abort, Fan!Become
    <3>2. QED  BY <3>1 DEF Fan!Next
  <2>4. CASE mpc \notin SetUp
    <3>1. level = "LOW"
      BY <1>1, <1>3, <1>5, <2>4 DEF HandlerExit, ExitInv, HandlerDone, WiredOnceSetUp, SetUp
    <3>2. Fan!Exit
      BY <1>4, <2>1, <2>2, <2>4, <3>1 DEF Fan!Exit, Fan!Become
    <3>3. QED  BY <3>2 DEF Fan!Next
  <2>5. QED  BY <2>3, <2>4
<1>6. CASE ~HandlerExit("main")
  <2>1. handler'["main"] /= "none" /\ UNCHANGED <<status, mpc, age>>
    BY <1>1, <1>6 DEF HandlerActs, HandlerLogBegin, HandlerLogEnd, HandlerStop, HandlerQuit,
       HandlerClose, HandlerAt, Quietly, settings, pauseVars, mainVars
  <2>2. Service' = Service
    BY <1>1, <1>3, <1>4, <2>1, ServiceIs DEF Up
  <2>3. CASE UNCHANGED <<level, held>>
    BY <1>4, <2>1, <2>2, <2>3 DEF Fan!fan
  <2>4. CASE HandlerStop("main") /\ wired
    <3>1. level' = "LOW" /\ held' = IF level = "LOW" THEN held ELSE 0
      BY <2>4 DEF HandlerStop, SetGpio
    <3>2. Fan!Clear
      BY <1>4, <2>2, <3>1 DEF Fan!Clear, Fan!Set
    <3>3. QED  BY <3>2 DEF Fan!Next
  <2>5. CASE HandlerStop("main") /\ ~wired
    BY <2>3, <2>5 DEF HandlerStop, SetGpio
  <2>6. CASE ~HandlerStop("main")
    <3>1. UNCHANGED <<level, held>>
      BY <1>6, <2>6 DEF HandlerActs, HandlerLogBegin, HandlerLogEnd, HandlerQuit, HandlerClose,
         platform, pinVars
    <3>2. QED  BY <2>3, <3>1
  <2>7. QED  BY <2>4, <2>5, <2>6
<1>7. QED  BY <1>5, <1>6

\* Every step of the process is one of the fan timer, or none.
LEMMA FanNext ==
  ASSUME HandlerOnMain, PausesFit, FanInv, FanInv', [Next]_vars PROVE [Fan!Next]_Fan!fan
<1>1. TypeOK /\ TypeOK' /\ handler["server"] = "none" /\ Threads = {"main", "server"}
      /\ handler \in [Threads -> HandlerPoints]
  BY FanTyped DEF FanInv, PinInv
<1>2. ASSUME UNCHANGED <<status, mpc, handler, level, held, age>> PROVE UNCHANGED Fan!fan
  BY <1>2 DEF Fan!fan, Service, Up
<1>3. CASE MainActs  BY <1>3, FanMain
<1>4. CASE SrvActs \/ Client
  <2>1. UNCHANGED <<status, mpc, handler, level, held, age>>
    BY <1>4 DEF SrvActs, Client, SrvStep, SrvLogBegin, SrvLogEnd, Socket, Bind, Loop, Accept,
     ReadElapsed, PrintRemaining, PageTime, Read, ReadHour, ReadMin, ReadStart, ReadLength, SetHour,
     SetMin, PrintTrigger, Send, ReadsOnly, settings, pauseVars, platform, pinVars, mainVars,
     processVars
  <2>2. QED  BY <1>2, <2>1
<1>5. CASE DaemonFails \/ Kill
  <2>1. Up /\ status' \in {"killed", "failed"} /\ UNCHANGED <<level, held>>
    BY <1>5 DEF DaemonFails, Kill, Die, pinVars
  <2>2. Service \in {"boot", "up", "closing"} /\ Service' = "failed"
    BY <1>1, <2>1, ServiceIs
  <2>3. Fan!Fail
    BY <2>1, <2>2 DEF Fan!Fail, Fan!Become
  <2>4. QED  BY <2>3 DEF Fan!Next
<1>6. CASE Launch
  <2>1. ~Up /\ Up' /\ UNCHANGED <<mpc, level, held>> /\ mpc = "exec"
    BY <1>6 DEF Launch, Up, mainVars, FanInv, PinInv, DownIsReset
  <2>2. Service \in {"down", "failed"} /\ Service' = "boot"
    BY <1>1, <2>1, ServiceIs DEF SetUp
  <2>3. Fan!Boot
    BY <2>1, <2>2 DEF Fan!Boot, Fan!Become
  <2>4. QED  BY <2>3 DEF Fan!Next
<1>7. CASE \E t \in SignalThreads : Signal(t)
  <2>1. Signal("main")
    BY <1>7 DEF HandlerOnMain
  <2>2. Up /\ Up' /\ handler'["main"] = "announce" /\ UNCHANGED <<mpc, level, held, age>>
    BY <1>1, <2>1 DEF Signal, Interrupt, Up, settings, pauseVars, platform, pinVars, mainVars
  <2>3. /\ Service = IF mpc \in SetUp THEN "boot"
                     ELSE IF handler["main"] = "none" THEN "up" ELSE "closing"
        /\ Service' = IF mpc \in SetUp THEN "boot" ELSE "closing"
    BY <1>1, <2>2, ServiceIs
  <2>4. CASE Service = "up"
    <3>1. Fan!Close
      BY <2>2, <2>3, <2>4 DEF Fan!Close, Fan!Become
    <3>2. QED  BY <3>1 DEF Fan!Next
  <2>5. CASE Service /= "up"
    BY <2>2, <2>3, <2>5 DEF Fan!fan
  <2>6. QED  BY <2>4, <2>5
<1>8. CASE Fault  BY <1>8 DEF Fault, HandlerOnMain
<1>9. CASE \E t \in Threads : HandlerActs(t)
  <2>1. HandlerActs("main")
    BY <1>1, <1>9 DEF HandlerActs, HandlerLogBegin, HandlerLogEnd, HandlerStop, HandlerQuit,
       HandlerClose, HandlerExit, HandlerAt
  <2>2. QED  BY <2>1, FanHandler
<1>10. CASE Tick
  <2>1. /\ UNCHANGED <<status, mpc, handler, level>>
        /\ held' = Older(held) /\ age' = Older(age)
    BY <1>10 DEF Tick, processVars
  <2>2. age' = EpochAge <=> age = EpochAge
    BY <2>1, FanTyped DEF Older
  <2>3. Service' = Service
    BY <2>1 DEF Service, Up
  <2>4. Fan!Tick
    BY <2>1, <2>2, <2>3 DEF Fan!Tick, Older
  <2>5. QED  BY <2>4 DEF Fan!Next
<1>11. CASE UNCHANGED vars
  BY <1>2, <1>11 DEF vars, settings, pauseVars, platform, pinVars, mainVars, processVars
<1>12. QED
  BY <1>3, <1>4, <1>5, <1>6, <1>7, <1>8, <1>9, <1>10, <1>11 DEF Next

\* Whatever the threads, the handlers and the clock do, the pin goes through
\* what the fan timer promises: its full run, its full rest, and low once a
\* handled signal has ended the process, with the handlers on the main thread
\* and no option so long that sleep() wraps.
THEOREM FanImplemented == ASSUME HandlerOnMain, PausesFit PROVE Spec => ImplementsFan
<1>1. Init => FanInv /\ Fan!Init
  BY FanInvInit, FanInit
<1>2. FanInv /\ [Next]_vars => FanInv'
  BY FanInvNext
<1>3. FanInv /\ FanInv' /\ [Next]_vars => [Fan!Next]_Fan!fan
  BY FanNext
<1>4. QED
  BY <1>1, <1>2, <1>3, PTL DEF Spec, ImplementsFan, Fan!Spec

-----------------------------------------------------------------------------
(***************************************************************************)
(* The fan starts around up_time whatever status pages do to the hour.     *)
(***************************************************************************)

\* A natural is its quotient and its remainder.
LEMMA QuotRem == ASSUME NEW a \in Nat, NEW b \in Nat \ {0}
                 PROVE  a \div b \in Nat /\ a % b \in 0 .. (b - 1) /\ a = b * (a \div b) + (a % b)
<1>1. a \div b \in Nat /\ a % b \in 0 .. (b - 1)
  BY DivNat, SMT
<1>2. a = b * (a \div b) + (a % b)
  BY SMT
<1>3. QED
  BY <1>1, <1>2

\* A quotient and a remainder in range are the quotient and the remainder.
LEMMA DivUnique ==
  ASSUME NEW b \in Nat \ {0}, NEW q \in Int, NEW r \in 0 .. (b - 1), NEW a \in Int, a = b * q + r
  PROVE  a \div b = q /\ a % b = r
<1> DEFINE p == a \div b
           s == a % b
<1>1. p \in Int /\ s \in 0 .. (b - 1) /\ a = b * p + s
  BY DivMod, SMT
<1> HIDE DEF p, s
<1>2. ASSUME NEW x \in Int, NEW y \in Int, NEW u \in 0 .. (b - 1), NEW v \in 0 .. (b - 1),
             x < y, b * x + u = b * y + v
      PROVE  FALSE
  <2> DEFINE bx == b * x
             by == b * y
  <2>1. bx \in Int /\ by \in Int /\ bx + b <= by
    <3>1. b * (x + 1) <= by
      BY <1>2, SMT
    <3>2. b * (x + 1) = bx + b
      BY SMT
    <3>3. QED  BY <3>1, <3>2
  <2>2. bx + u = by + v
    BY <1>2
  <2> HIDE DEF bx, by
  <2>3. QED  BY <2>1, <2>2
<1>3. p = q
  BY <1>1, <1>2
<1>4. s = r
  <2> DEFINE bq == b * q
  <2>1. bq \in Int /\ a = bq + r /\ a = bq + s
    BY <1>1, <1>3
  <2> HIDE DEF bq
  <2>2. QED  BY <1>1, <2>1
<1>5. QED
  BY <1>3, <1>4 DEF p, s

\* Products of one positive number are ordered like the other factors.
LEMMA LessFactors == ASSUME NEW a \in Int, NEW b \in Int, NEW m \in Nat \ {0}, a * m < b * m
                     PROVE  a < b
<1> SUFFICES ASSUME b <= a PROVE FALSE
  OBVIOUS
<1>1. b * m <= a * m
  BY SMT
<1>2. a * m \in Int /\ b * m \in Int
  OBVIOUS
<1>3. QED
  BY <1>1, <1>2

\* The minute localtime() reads off a time is one of an hour.
LEMMA MinuteTyped == ASSUME NEW t \in Nat PROVE AMinute(Minute(t))
<1>1. MinuteTicks \in Nat \ {0} /\ HourMinutes \in Nat \ {0}
  BY ConstantsTyped
<1>2. t \div MinuteTicks \in Int
  BY <1>1, DivMod
<1>3. QED
  BY <1>1, <1>2, DivMod DEF AMinute, Minute

\* An hour on is the next hour, on the same day.
LEMMA NextHour ==
  ASSUME NEW t \in 0 .. (DayTicks - 1), Hour(t) + 1 < DayHours
  PROVE  t + HourTicks \in 0 .. (DayTicks - 1) /\ Hour(t + HourTicks) = Hour(t) + 1
<1> DEFINE H == HourTicks
           T == DayTicks
           h == Hour(t)
           r == t % H
           a == t + H
<1>1. /\ H \in Nat \ {0} /\ DayHours \in Nat \ {0} /\ T \in Nat \ {0} /\ T = DayHours * H
      /\ t \in Nat
  BY DayPositive, ConstantsTyped DEF DayTicks
<1>2. h \in Nat /\ r \in 0 .. (H - 1) /\ t = H * h + r /\ h + 1 < DayHours
  BY <1>1, QuotRem DEF Hour
<1> HIDE DEF H, T, h, r
<1>3. a = H * (h + 1) + r
  BY <1>1, <1>2, SMT DEF H
<1>4. a < T
  <2>1. H * (h + 2) <= H * DayHours /\ H * DayHours = T
    BY <1>1, <1>2, SMT
  <2>2. H * (h + 2) = H * (h + 1) + H /\ H * (h + 1) \in Int /\ H * (h + 2) \in Int
    BY <1>1, <1>2, SMT
  <2>3. QED  BY <1>1, <1>2, <1>3, <2>1, <2>2
<1>5. a \in Int /\ a >= 0
  BY <1>1 DEF H
<1>6. a \div H = h + 1
  <2> DEFINE q == h + 1
  <2>1. H \in Nat \ {0} /\ q \in Int /\ r \in 0 .. (H - 1) /\ a \in Int /\ a = H * q + r
    BY <1>1, <1>2, <1>3, <1>5
  <2> HIDE DEF a, q
  <2>2. a \div H = q
    BY <2>1, DivUnique
  <2>3. QED  BY <2>2 DEF q
<1>7. QED
  BY <1>1, <1>4, <1>5, <1>6 DEF Hour, a, h, H, T

\* The hour a status page works out from an hour and a minute is that hour, the
\* next one, or none that up_time could have: past the day, or long before it.
LEMMA TriggerHour ==
  ASSUME PagesInTime, NEW h \in 0 .. (DayHours - 1), NEW i \in 0 .. (HourMinutes - 1),
         NEW d \in Int, NEW hour,
         d \in {0, 1} \/ d = -(EpochAge \div MinuteTicks),
         hour = CDiv(i + h * HourMinutes + d, HourMinutes),
         UpStart <= hour % UIntRange, hour % UIntRange < UpEnd
  PROVE  hour = h \/ (hour = h + 1 /\ h + 1 < DayHours)
<1> DEFINE n == HourMinutes
           u == UIntRange
           nh == n * h
<1>1. /\ n \in Nat \ {0} /\ u \in Nat \ {0} /\ DayHours \in Nat \ {0} /\ MinuteTicks \in Nat \ {0}
      /\ UpStart \in Nat /\ UpEnd \in Nat /\ UpEnd <= DayHours /\ EpochAge \in Nat
  BY ConstantsTyped DEF PagesInTime
<1>2. h \in Nat /\ i \in 0 .. (n - 1) /\ h <= DayHours - 1
  BY <1>1
<1>3. nh \in Nat /\ i + h * HourMinutes + d = nh + i + d
  BY <1>1, <1>2
<1> HIDE DEF n, u, nh
<1>4. ASSUME NEW q \in Nat, NEW r \in 0 .. (n - 1), nh + i + d = n * q + r PROVE hour = q
  <2> DEFINE a == nh + i + d
  <2>1. a \in Int /\ a >= 0 /\ a = n * q + r
    <3>1. n * q \in Nat
      BY <1>1, <1>4
    <3>2. QED  BY <1>1, <1>4, <3>1
  <2>2. n \in Nat \ {0} /\ q \in Int /\ r \in 0 .. (n - 1)
    BY <1>1, <1>4
  <2> HIDE DEF a
  <2>3. a \div n = q
    BY <2>1, <2>2, DivUnique
  <2>4. QED  BY <1>3, <2>1, <2>3 DEF CDiv, n, a
<1>5. CASE d \in {0, 1} /\ i + d < n
  <2>1. i + d \in 0 .. (n - 1) /\ nh + i + d = n * h + (i + d)
    BY <1>1, <1>2, <1>3, <1>5 DEF nh
  <2>2. QED  BY <1>2, <1>4, <2>1
<1>6. CASE d \in {0, 1} /\ i + d >= n
  <2>1. i + d = n
    BY <1>1, <1>2, <1>6
  <2>2. n * (h + 1) = nh + n
    BY <1>1, <1>2, SMT DEF nh
  <2>3. nh + i + d = n * (h + 1) + 0 /\ 0 \in 0 .. (n - 1) /\ h + 1 \in Nat
    BY <1>1, <1>2, <1>3, <2>1, <2>2
  <2>4. hour = h + 1
    BY <1>4, <2>3
  <2>5. ASSUME h + 1 >= DayHours PROVE FALSE
    <3>1. hour = DayHours
      BY <1>1, <1>2, <2>4, <2>5
    <3>2. DayHours < u
      BY <1>1 DEF PagesInTime, u
    <3>3. DayHours % u = DayHours
      BY <1>1, <3>2, SMT
    <3>4. QED  BY <1>1, <3>1, <3>3 DEF u
  <2>6. QED  BY <1>1, <1>2, <2>4, <2>5
<1>7. CASE d = -(EpochAge \div MinuteTicks)
  <2> DEFINE e == EpochAge \div MinuteTicks
             x == e \div n
             y == e % n
             nx == n * x
             back == e - (nh + i)
             z == back \div n
             r == back % n
             nz == n * z
  <2>1. e \in Nat
    BY <1>1, DivNat
  <2>2. x \in (DayHours + 1) .. (u - DayHours)
    BY DEF PagesInTime, n, u
  <2>3. y \in 0 .. (n - 1) /\ e = nx + y
    BY <1>1, <2>1, QuotRem
  <2> HIDE DEF e, x, y
  <2>4. x \in Int /\ nx \in Int /\ nx - nh >= n + n
    <3>1. x - h >= 2 /\ x \in Int /\ h \in Int
      BY <1>1, <1>2, <2>2
    <3>2. n * (x - h) >= n * 2
      BY <1>1, <3>1, SMT
    <3>3. n * (x - h) = n * x - n * h /\ n * x \in Int /\ n * h \in Int
      BY <1>1, <3>1, SMT
    <3>4. QED  BY <1>1, <3>1, <3>2, <3>3 DEF nh
  <2>5. back \in Nat /\ back >= n /\ back <= nx - nh + n
    BY <1>1, <1>2, <1>3, <2>1, <2>3, <2>4
  <2> HIDE DEF nx
  <2>6. nh + i + d = -back
    BY <1>1, <1>2, <1>3, <1>7, <2>1 DEF e
  <2> HIDE DEF back
  <2>7. z \in Nat /\ r \in 0 .. (n - 1) /\ back = nz + r
    BY <1>1, <2>5, QuotRem
  <2> HIDE DEF z, r
  <2>8. z \in 1 .. (u - DayHours)
    <3>1. z >= 1
      <4> SUFFICES ASSUME z = 0 PROVE FALSE
        BY <2>7
      <4>1. nz = 0
        BY <1>1
      <4>2. QED  BY <1>1, <2>5, <2>7, <4>1
    <3>2. n * z <= nx + (n - 1) /\ n * z \in Int
      BY <1>1, <1>2, <1>3, <2>1, <2>3, <2>4, <2>7 DEF back, nz
    <3>3. n * (x + 1) = nx + n
      BY <1>1, <2>4, SMT DEF nx
    <3>4. n * z < n * (x + 1)
      BY <1>1, <2>4, <3>2, <3>3
    <3>5. z <= x
      BY <1>1, <2>4, <2>7, <3>4, SMT
    <3>6. QED  BY <1>1, <2>2, <2>7, <3>1, <3>5
  <2>9. hour = -z
    <3>1. ~(-back >= 0) /\ -(-back) = back
      BY <1>1, <2>5
    <3>2. CDiv(-back, n) = -(back \div n)
      BY <3>1 DEF CDiv
    <3>3. hour = CDiv(-back, n)
      BY <1>3, <2>6 DEF n
    <3>4. QED  BY <3>2, <3>3 DEF z
  <2>10. (-z) % u = u - z
    <3> DEFINE a == -z
               q == -1
               rest == u - z
    <3>1. a \in Int /\ q \in Int /\ rest \in 0 .. (u - 1) /\ a = u * q + rest
      BY <1>1, <2>8
    <3> HIDE DEF a, q, rest
    <3>2. a % u = rest
      BY <1>1, <3>1, DivUnique
    <3>3. QED  BY <3>2 DEF a, rest
  <2>11. QED
    BY <1>1, <2>8, <2>9, <2>10 DEF u
<1>8. QED
  BY <1>1, <1>2, <1>5, <1>6, <1>7

\* What was within n ticks is within more, and a tick later within one more.
LEMMA NearMore == ASSUME NEW t, NEW n \in Int, NEW m \in Int, n <= m, UpTimeAround(t, n)
                  PROVE  UpTimeAround(t, m)
<1>1. PICK k \in (-HourTicks) .. n : InUpTime(Ago(t, k))
  BY DEF UpTimeAround
<1>2. HourTicks \in Nat
  BY DayPositive
<1>3. k \in (-HourTicks) .. m
  BY <1>2
<1>4. QED
  BY <1>1, <1>3 DEF UpTimeAround

LEMMA NearLater ==
  ASSUME NEW t \in 0 .. (DayTicks - 1), NEW n \in Int, UpTimeAround(t, n)
  PROVE  UpTimeAround(NextTick(t), n + 1)
<1>1. PICK k \in (-HourTicks) .. n : InUpTime(Ago(t, k))
  BY DEF UpTimeAround
<1>2. HourTicks \in Nat
  BY DayPositive
<1>3. k \in Int /\ k + 1 \in (-HourTicks) .. (n + 1)
  BY <1>2
<1>4. Ago(NextTick(t), k + 1) = Ago(t, k)
  BY <1>3, AgoNext
<1>5. QED
  BY <1>1, <1>3, <1>4 DEF UpTimeAround

\* A page that adds no more than a minute to an hour that was read up to n ticks
\* ago, and to any minute, keeps the hour around up_time.
LEMMA TriggerNear ==
  ASSUME PagesInTime, NEW t \in 0 .. (DayTicks - 1), NEW n \in Nat, NEW k \in 0 .. n,
         NEW i, AMinute(i), NEW d \in Int, NEW hour,
         d \in {0, 1} \/ d = -(EpochAge \div MinuteTicks),
         hour = CDiv(i + Hour(Ago(t, k)) * HourMinutes + d, HourMinutes),
         UpStart <= hour % UIntRange, hour % UIntRange < UpEnd
  PROVE  UpTimeAround(t, n)
<1> DEFINE s == Ago(t, k)
           H == HourTicks
<1>1. /\ t \in Int /\ H \in Nat \ {0} /\ DayTicks \in Nat \ {0}
      /\ UIntRange \in Nat \ {0} /\ DayHours \in Nat \ {0} /\ DayHours <= UIntRange
  BY ConstantsTyped, DayPositive DEF PagesInTime, UpTimeKept
<1>2. s \in 0 .. (DayTicks - 1) /\ Hour(s) \in 0 .. (DayHours - 1)
  <2>1. s \in 0 .. (DayTicks - 1)
    BY <1>1, AgoTyped
  <2>2. QED  BY <2>1, HourTyped
<1>3. ASSUME NEW x \in 0 .. (DayTicks - 1), hour = Hour(x) PROVE InUpTime(x)
  <2>1. Hour(x) \in 0 .. (DayHours - 1)
    BY HourTyped
  <2>2. ASSUME NEW y \in 0 .. (DayHours - 1) PROVE y % UIntRange = y
    BY <1>1, <2>2, SMT
  <2>3. QED  BY <1>3, <2>1, <2>2 DEF InUpTime
<1>4. hour = Hour(s) \/ (hour = Hour(s) + 1 /\ Hour(s) + 1 < DayHours)
  <2> HIDE DEF s
  <2>1. QED  BY <1>2, TriggerHour DEF AMinute, s
<1>5. CASE hour = Hour(s)
  <2>1. InUpTime(Ago(t, k)) /\ k \in (-H) .. n
    BY <1>1, <1>2, <1>3, <1>5
  <2>2. QED  BY <2>1 DEF UpTimeAround
<1>6. CASE hour = Hour(s) + 1 /\ Hour(s) + 1 < DayHours
  <2>1. s + H \in 0 .. (DayTicks - 1) /\ hour = Hour(s + H)
    BY <1>2, <1>6, NextHour
  <2>2. Ago(t, k - H) = s + H
    <3> DEFINE q == (t - k) \div DayTicks
               a == t - (k - H)
               dq == DayTicks * q
    <3>1. q \in Int /\ t - k = dq + s
      BY <1>1, DivMod, SMT DEF Ago
    <3>2. dq \in Int
      BY <1>1, <3>1
    <3>3. a \in Int /\ a = dq + (s + H)
      <4> HIDE DEF q, dq, s, H
      <4>1. QED  BY <1>1, <1>2, <3>1, <3>2
    <3> HIDE DEF q, a
    <3>4. a % DayTicks = s + H
      <4> DEFINE r == s + H
      <4>1. r \in 0 .. (DayTicks - 1) /\ a = DayTicks * q + r /\ q \in Int
        BY <2>1, <3>1, <3>3
      <4>2. a \in Int /\ DayTicks \in Nat \ {0}
        BY <1>1, <3>3
      <4> HIDE DEF r
      <4>3. a % DayTicks = r
        BY <4>1, <4>2, DivUnique
      <4>4. QED  BY <4>3 DEF r
    <3>5. QED  BY <3>4 DEF Ago, a
  <2>3. InUpTime(Ago(t, k - H)) /\ k - H \in (-H) .. n
    BY <1>1, <1>3, <2>1, <2>2
  <2>4. QED  BY <2>3 DEF UpTimeAround
<1>7. QED
  BY <1>4, <1>5, <1>6

\* check_hours() leaves the window alone.
LEMMA WindowAsSetNext ==
  ASSUME UpTimeKept, WindowAsSet, [Next]_vars PROVE WindowAsSet'
<1> USE DEF WindowAsSet, settings, hours
<1>1. CASE MainActs
  BY <1>1 DEF MainActs, MainStep, LogBegin, LogEnd, Exec, SetupWiringPi, SetRunning, Clear, Check,
     Decide, CheckHours, Start, Stop, PauseLength, PauseStamp, Nap, Wake, Spawn, UpTimeKept
<1>2. CASE SrvActs \/ Client
  BY <1>2 DEF SrvActs, Client, SrvStep, SrvLogBegin, SrvLogEnd, Socket, Bind, Loop, Accept,
     ReadElapsed, PrintRemaining, PageTime, Read, ReadHour, ReadMin, ReadStart, ReadLength, SetHour,
     SetMin, PrintTrigger, Send, ReadsOnly
<1>3. ASSUME NEW how, Die(how) PROVE WindowAsSet'
  BY <1>3 DEF Die, SettingsReset, Fresh
<1>4. CASE DaemonFails \/ Kill  BY <1>3, <1>4 DEF DaemonFails, Kill
<1>5. CASE Launch \/ Fault \/ (\E t \in SignalThreads : Signal(t))
  BY <1>5 DEF Launch, Fault, Signal, Interrupt
<1>6. ASSUME NEW t \in Threads, HandlerActs(t) PROVE WindowAsSet'
  <2>1. CASE HandlerExit(t)  BY <1>3, <2>1 DEF HandlerExit
  <2>2. CASE ~HandlerExit(t)
    BY <1>6, <2>2 DEF HandlerActs, HandlerLogBegin, HandlerLogEnd, HandlerStop, HandlerQuit,
       HandlerClose
  <2>3. QED  BY <2>1, <2>2
<1>7. CASE Tick  BY <1>7 DEF Tick
<1>8. CASE UNCHANGED vars  BY <1>8 DEF vars
<1>9. QED
  BY <1>1, <1>2, <1>4, <1>5, <1>6, <1>7, <1>8 DEF Next

\* What the invariant says of the numbers it speaks of.
LEMMA StartTyped ==
  ASSUME PagesInTime, StartInv
  PROVE  /\ RunInv /\ PageInv /\ TypeOK
         /\ now \in 0 .. (DayTicks - 1) /\ age \in (0 .. MaxAge) \cup {EpochAge}
         /\ duration \in Nat /\ elapsed \in Nat /\ toWake \in Nat
         /\ lag \in [Threads -> Nat] /\ lag["main"] \in Nat /\ lag["server"] \in Nat
         /\ tm \in [hour : Int, min : Int] /\ sum \in [hour : Int, min : Int, left : Int]
         /\ MinuteTicks \in Nat \ {0} /\ MaxLag \in Nat /\ MaxAge \in Nat
         /\ EpochAge \in Nat /\ EpochAge > MaxAge /\ 2 * MaxLag < MinuteTicks
         /\ SleepTicks(duration) = duration * MinuteTicks /\ SleepTicks(duration) \in Nat
         /\ handler \in [Threads -> HandlerPoints] /\ Threads = {"main", "server"}
         /\ Up /\ ~Wedged => lag["main"] <= MaxLag /\ lag["server"] <= MaxLag
         /\ Runs("main") /\ Runs("server") => ~Wedged
<1>1. RunInv /\ PageInv /\ TypeOK /\ PauseClock
  BY DEF StartInv, RunInv, PinInv, PageInv
<1>2. ASSUME NEW x \in Nat, NEW u \in Nat \ {0}, x < u PROVE x % u = x
  BY <1>2, SMT
<1>3. /\ MinuteTicks \in Nat \ {0} /\ duration \in Nat /\ duration * MinuteTicks \in Nat
  BY <1>1, PageTyped
<1>4. SleepTicks(duration) = duration * MinuteTicks
  BY <1>1, <1>2, <1>3, ConstantsTyped DEF PauseClock, SleepTicks
<1>5. Runs("main") /\ Runs("server") => ~Wedged
  BY DEF Runs, Wedged, WedgedOn, Threads
<1>6. QED
  BY <1>1, <1>3, <1>4, <1>5, ConstantsTyped, DayPositive
     DEF PagesInTime, RunInv, LagBounded, TypeOK, SettingsTypeOK, PlatformTypeOK, MainTypeOK,
         SrvTypeOK, Threads

LEMMA StartInvInit == ASSUME PagesInTime PROVE Init => StartInv
<1> SUFFICES ASSUME Init PROVE StartInv  OBVIOUS
<1>1. RunInv /\ PageInv  BY RunInvInit, PageInvInit
<1>2. ~Up  BY DEF Init, Up
<1>3. mpc = "exec" /\ duration = 0 /\ age = EpochAge /\ startHour = UpStart /\ endHour = UpEnd
  BY DEF Init, SettingsInit, Fresh, MainInit, MainFresh
<1>4. QED
  BY <1>1, <1>2, <1>3 DEF StartInv, WindowAsSet, PauseKnown, NeverPaused, PauseAge, ElapsedRead,
     TimeRead, HourNear, Runs

\* When a page has added up the next trigger while the loop looks at the hour, a
\* minute of the pause is left at most, or no pause ever was.
LEMMA LeftInTotal ==
  ASSUME PagesInTime, StartInv, Runs("main"), Runs("server"), srv = "total", unread = {},
         mpc = "decide"
  PROVE  sum.left \in {0, 1} \/ sum.left = -(EpochAge \div MinuteTicks)
<1> DEFINE m == MinuteTicks
           d == duration
           left == sum.left
           e == d - left
<1>1. /\ m \in Nat \ {0} /\ d \in Nat /\ left \in Int /\ age \in Nat /\ MaxLag \in Nat
      /\ 2 * MaxLag < m /\ lag["main"] \in Nat /\ lag["server"] \in Nat
      /\ lag["main"] <= MaxLag /\ lag["server"] <= MaxLag /\ Up /\ ~Wedged
      /\ SleepTicks(duration) = d * m
  BY StartTyped DEF Runs
<1>2. StartInTotal /\ MinutesInTotal = left /\ ElapsedInTotal = e /\ e \in Int
  BY <1>1 DEF StartInTotal, MinutesInTotal, ElapsedInTotal
<1>3. CASE NeverPaused
  BY <1>2, <1>3 DEF StartInv, ElapsedRead
<1>4. CASE ~NeverPaused
  <2>1. left <= 1
    <3> DEFINE shown == left * m
    <3>1. shown <= TicksLeft + (m - 1) + lag["server"] /\ TicksLeft = 0
      BY <1>2 DEF StartInv, PageInv, PageClock, NotOver, TicksLeft
    <3>2. shown \in Int /\ 2 * m \in Int
      BY <1>1
    <3>3. shown < 2 * m
      <4> HIDE DEF shown, m
      <4>1. QED  BY <1>1, <3>1, <3>2
    <3>4. left < 2
      <4> HIDE DEF left, m
      <4>1. QED  BY <1>1, <3>3, LessFactors
    <3>5. QED  BY <1>1, <3>4
  <2>2. e <= d
    <3> DEFINE em == e * m
               dm == d * m
    <3>1. em <= age /\ age <= dm + MaxLag + lag["main"]
      BY <1>1, <1>2, <1>4 DEF StartInv, ElapsedRead, PauseAge
    <3>2. em \in Int /\ dm \in Int /\ (d + 1) * m = dm + m
      <4> HIDE DEF d, e, m
      <4>1. QED  BY <1>1, <1>2, SMT
    <3>3. em < dm + m
      <4> HIDE DEF em, dm, m
      <4>1. QED  BY <1>1, <3>1, <3>2
    <3> HIDE DEF d, e, m
    <3>4. e * m < (d + 1) * m
      BY <3>2, <3>3
    <3>5. e < d + 1
      BY <1>1, <1>2, <3>4, LessFactors
    <3>6. QED  BY <1>1, <1>2, <3>5
  <2>3. left \in {0, 1}
    BY <1>1, <2>1, <2>2
  <2>4. QED  BY <2>3
<1>5. QED  BY <1>3, <1>4

\* Whole minutes of a time are no more than the time.
LEMMA WholeMinutes == ASSUME NEW a \in Nat, NEW m \in Nat \ {0} PROVE (a \div m) * m <= a
<1> DEFINE q == a \div m
           r == a % m
<1>1. q \in Nat /\ r \in 0 .. (m - 1) /\ a = m * q + r
  BY QuotRem
<1> HIDE DEF q, r
<1>2. q * m = m * q /\ m * q \in Nat
  BY <1>1, SMT
<1>3. q * m <= a
  BY <1>1, <1>2
<1>4. QED
  BY <1>3 DEF q

\* A step of the main thread keeps account of the pause.
LEMMA StartPauseMain ==
  ASSUME PagesInTime, StartInv, MainActs, TypeOK', ~Wedged' => ~Wedged
  PROVE  PauseKnown' /\ PauseAge'
<1>1. /\ TypeOK /\ age \in Nat /\ duration \in Nat /\ toWake \in Nat /\ MaxLag \in Nat /\ MaxAge \in Nat
      /\ EpochAge \in Nat /\ EpochAge > MaxAge
      /\ lag \in [Threads -> Nat] /\ lag["main"] \in Nat /\ Threads = {"main", "server"}
      /\ SleepTicks(duration) \in Nat
      /\ Up /\ Up' /\ (~Wedged => lag["main"] <= MaxLag)
      /\ PauseKnown /\ PauseAge
  BY StartTyped DEF StartInv, MainActs, Runs, Up, processVars
<1> USE DEF settings, pauseVars, platform, pinVars, mainVars
<1>2. CASE LogBegin
  BY <1>1, <1>2 DEF LogBegin, PauseKnown, PauseAge, NeverPaused
<1>3. CASE LogEnd
  <2>1. /\ UNCHANGED <<duration, age>>
        /\ mpc' \in {"start", "stop", "duration"} \/ (mpc \in SetUp /\ mpc' \in SetUp)
        /\ mpc' \notin {"stamp", "nap", "asleep", "check", "decide"}
    BY <1>3 DEF LogEnd, AfterLog, SetUp
  <2>2. QED  BY <1>1, <2>1 DEF PauseKnown, PauseAge, NeverPaused, SetUp
<1>4. CASE Exec \/ SetupWiringPi \/ SetRunning \/ Spawn \/ Clear
  <2>1. /\ UNCHANGED <<duration, age>> /\ mpc \in SetUp
        /\ mpc' \notin {"stamp", "nap", "asleep"}
    BY <1>4 DEF Exec, SetupWiringPi, SetRunning, Spawn, Clear, Step, SetUp
  <2>2. QED  BY <1>1, <2>1 DEF PauseKnown, PauseAge, NeverPaused, SetUp
<1>5. CASE Check
  <2>1. UNCHANGED <<duration, age, lag>> /\ mpc = "check" /\ mpc' = "decide"
    BY <1>5 DEF Check, Step
  <2>2. QED  BY <1>1, <2>1 DEF PauseKnown, PauseAge, NeverPaused, SetUp
<1>6. CASE Decide \/ Start \/ Stop
  <2>1. mpc' \in {"startLog", "idleLog", "duration"}
    BY <1>6 DEF Decide, Start, Stop, Step
  <2>2. QED  BY <1>1, <2>1 DEF PauseKnown, PauseAge, SetUp
<1>7. CASE PauseLength
  <2>1. PICK m \in PauseLengths(phase) : SetDuration(m)
    BY <1>7 DEF PauseLength
  <2>2. m \in Nat /\ (phase = "run" \/ SleepMinutes <= m) /\ (phase = "run" => m = RunMinutes)
    <3>1. phase \in {"run", "rest", "idle"}
      BY <1>1 DEF TypeOK, MainTypeOK
    <3>2. QED  BY <2>1, <3>1, PauseFits DEF PagesInTime, PauseLengths
  <2>3. m > 0
    BY <2>2, ConstantsTyped DEF PagesInTime
  <2>4. duration' = m /\ mpc' = "stamp"
    BY <1>7, <2>1 DEF PauseLength, SetDuration, Step
  <2>5. QED  BY <1>1, <2>3, <2>4 DEF PauseKnown, PauseAge, SetUp
<1>8. CASE PauseStamp
  <2>1. duration' = duration /\ age' = 0 /\ UNCHANGED lag /\ mpc = "stamp" /\ mpc' = "nap"
    BY <1>8 DEF PauseStamp, StampStart, Step
  <2>2. QED  BY <1>1, <2>1 DEF PauseKnown, PauseAge, SetUp
<1>9. CASE Nap
  <2>1. /\ UNCHANGED <<duration, age>> /\ mpc = "nap" /\ mpc' = "asleep"
        /\ toWake' = SleepTicks(duration) /\ lag'["main"] = 0
    BY <1>1, <1>9 DEF Nap, Waits, Step
  <2>2. ~Wedged => age <= MaxLag
    BY <1>1, <2>1 DEF PauseAge
  <2>3. SleepTicks(duration') = SleepTicks(duration)
    BY <2>1
  <2>4. QED  BY <1>1, <2>1, <2>2, <2>3 DEF PauseKnown, PauseAge, SetUp
<1>10. CASE Wake
  <2>1. /\ UNCHANGED <<duration, age, lag>> /\ mpc = "asleep" /\ toWake = 0
        /\ mpc' \in {"stopLog", "check"}
    BY <1>10 DEF Wake
  <2>2. SleepTicks(duration') = SleepTicks(duration)
    BY <2>1
  <2>3. QED  BY <1>1, <2>1, <2>2 DEF PauseKnown, PauseAge, SetUp
<1>11. QED
  BY <1>2, <1>3, <1>4, <1>5, <1>6, <1>7, <1>8, <1>9, <1>10 DEF MainActs, MainStep

\* The time that localtime() has just handed out is in up_time if it looks so.
LEMMA OpenNow ==
  ASSUME PagesInTime, NEW t \in 0 .. (DayTicks - 1), NEW n \in Nat,
         UpStart <= Hour(t) % UIntRange, Hour(t) % UIntRange < UpEnd
  PROVE  UpTimeAround(t, n)
<1>1. UIntRange \in Nat \ {0} /\ DayHours \in Nat \ {0} /\ DayHours <= UIntRange /\ HourTicks \in Nat
  BY ConstantsTyped, DayPositive DEF PagesInTime, UpTimeKept
<1>2. Hour(t) \in 0 .. (DayHours - 1)
  BY HourTyped
<1>3. ASSUME NEW y \in 0 .. (DayHours - 1) PROVE y % UIntRange = y
  BY <1>1, <1>3, SMT
<1>4. InUpTime(t)
  BY <1>2, <1>3 DEF InUpTime
<1>5. Ago(t, 0) = t /\ 0 \in (-HourTicks) .. n
  BY <1>1, AgoNow
<1>6. QED
  BY <1>4, <1>5 DEF UpTimeAround

\* A step of the main thread keeps what a page has read in step with the pause.
LEMMA StartElapsedMain ==
  ASSUME PagesInTime, StartInv, MainActs PROVE ElapsedRead'
<1>1. /\ age \in Nat /\ duration \in Nat /\ toWake \in Nat /\ elapsed \in Nat /\ sum.left \in Int
      /\ MaxLag \in Nat /\ EpochAge \in Nat /\ MinuteTicks \in Nat \ {0}
      /\ lag \in [Threads -> Nat] /\ lag["server"] \in Nat /\ Threads = {"main", "server"}
      /\ SleepTicks(duration) \in Nat /\ SleepTicks(duration) = duration * MinuteTicks
      /\ 2 * MaxLag < MinuteTicks
      /\ PauseKnown /\ ElapsedRead
  BY StartTyped DEF StartInv
<1> DEFINE Kept == /\ mpc' \in SetUp \cup {"check", "decide"} /\ NeverPaused' =>
                        MinutesInTotal' = -(EpochAge \div MinuteTicks)
                   /\ mpc' = "asleep" => \/ ElapsedInTotal' * MinuteTicks <= age'
                                         \/ SleepTicks(duration') <= toWake' + lag'["server"]
                   /\ mpc' \in {"check", "decide"} => ElapsedInTotal' * MinuteTicks <= age'
<1> SUFFICES ASSUME Runs("server")', StartInTotal' PROVE Kept
  BY DEF ElapsedRead
<1>2. Runs("main") /\ Runs("server") /\ StartInTotal /\ UNCHANGED <<elapsed, unread, sum>>
  BY DEF MainActs, Runs, Up, Spawn, srvVars, sumVars, processVars, StartInTotal
<1>3. lag["server"] <= MaxLag
  BY <1>2, StartTyped DEF Runs
<1>4. /\ mpc \in SetUp \cup {"check", "decide"} /\ NeverPaused =>
           MinutesInTotal = -(EpochAge \div MinuteTicks)
      /\ mpc = "asleep" => \/ ElapsedInTotal * MinuteTicks <= age
                           \/ SleepTicks(duration) <= toWake + lag["server"]
      /\ mpc \in {"check", "decide"} => ElapsedInTotal * MinuteTicks <= age
  BY <1>1, <1>2 DEF ElapsedRead
<1>5. ASSUME UNCHANGED <<duration, age>>
      PROVE  /\ MinutesInTotal' = MinutesInTotal /\ ElapsedInTotal' = ElapsedInTotal
             /\ NeverPaused' <=> NeverPaused
  BY <1>2, <1>5 DEF MinutesInTotal, MinutesRemaining, ElapsedInTotal, NeverPaused
<1> USE DEF settings, pauseVars, platform, pinVars, mainVars
<1>6. CASE LogBegin
  <2>1. UNCHANGED <<duration, age, mpc>> /\ mpc /= "asleep" /\ mpc \notin {"check", "decide"}
    BY <1>6 DEF LogBegin, AfterLog
  <2>2. QED  BY <1>4, <1>5, <2>1
<1>7. CASE LogEnd \/ Exec \/ SetupWiringPi \/ SetRunning \/ Spawn
  <2>1. /\ UNCHANGED <<duration, age>>
        /\ (mpc \in SetUp /\ mpc' \in SetUp) \/ mpc' \in {"start", "stop", "duration"}
    BY <1>7 DEF LogEnd, AfterLog, Exec, SetupWiringPi, SetRunning, Spawn, Step, SetUp
  <2>2. "asleep" \notin SetUp /\ "check" \notin SetUp /\ "decide" \notin SetUp
        /\ SetUp \cap {"start", "stop", "duration"} = {}
    BY DEF SetUp
  <2>3. QED  BY <1>4, <1>5, <2>1, <2>2
<1>8. CASE Decide \/ Start \/ Stop \/ PauseLength \/ PauseStamp
  <2>1. mpc' \in {"startLog", "idleLog", "duration", "stamp", "nap"}
    BY <1>8 DEF Decide, Start, Stop, PauseLength, PauseStamp, Step
  <2>2. QED  BY <2>1 DEF SetUp
<1>9. CASE Clear
  <2>1. /\ UNCHANGED <<duration, age>> /\ mpc \in SetUp /\ mpc' = "check"
        /\ NeverPaused /\ age = EpochAge /\ duration = 0
    BY <1>1, <1>9 DEF Clear, Step, PauseKnown, NeverPaused, SetUp
  <2>2. MinutesInTotal = -(EpochAge \div MinuteTicks)
    BY <1>4, <2>1
  <2>3. (EpochAge \div MinuteTicks) * MinuteTicks <= EpochAge /\ EpochAge \div MinuteTicks \in Nat
    BY <1>1, WholeMinutes, DivNat
  <2>4. ElapsedInTotal = EpochAge \div MinuteTicks
    BY <2>1, <2>2, <2>3 DEF ElapsedInTotal
  <2>5. QED  BY <1>5, <2>1, <2>2, <2>3, <2>4
<1>10. CASE Check
  <2>1. UNCHANGED <<duration, age>> /\ mpc = "check" /\ mpc' = "decide"
    BY <1>10 DEF Check, Step
  <2>2. QED  BY <1>4, <1>5, <2>1
<1>11. CASE Nap
  <2>1. /\ UNCHANGED <<age, duration>> /\ mpc' = "asleep"
        /\ toWake' = SleepTicks(duration) /\ lag'["server"] = lag["server"]
    BY <1>1, <1>11 DEF Nap, Waits, Step
  <2>2. SleepTicks(duration') <= toWake' + lag'["server"]
    BY <1>1, <2>1
  <2>3. QED  BY <2>1, <2>2 DEF SetUp
<1>12. CASE Wake
  <2>1. /\ UNCHANGED <<age, duration>> /\ mpc = "asleep" /\ toWake = 0
        /\ mpc' \in {"stopLog", "check"} /\ duration > 0
    BY <1>1, <1>12 DEF Wake, PauseKnown
  <2>2. duration * MinuteTicks >= MinuteTicks
    BY <1>1, <2>1, SMT
  <2>3. ~(SleepTicks(duration) <= toWake + lag["server"])
    BY <1>1, <1>3, <2>1, <2>2
  <2>4. ~NeverPaused'
    BY <1>1, <2>1 DEF NeverPaused
  <2>5. QED  BY <1>4, <1>5, <2>1, <2>3, <2>4
<1>13. QED
  BY <1>6, <1>7, <1>8, <1>9, <1>10, <1>11, <1>12 DEF MainActs, MainStep

\* A step of the main thread starts a run only around up_time.
LEMMA StartHourMain ==
  ASSUME PagesInTime, StartInv, MainActs, ~Wedged' => ~Wedged, WindowAsSet'
  PROVE  TimeRead' /\ HourNear'
<1>1. /\ now \in 0 .. (DayTicks - 1) /\ tm \in [hour : Int, min : Int] /\ MaxLag \in Nat
      /\ lag \in [Threads -> Nat] /\ lag["main"] \in Nat /\ lag["server"] \in Nat
      /\ Threads = {"main", "server"}
      /\ Runs("main") /\ Runs("main")' /\ TimeRead /\ HourNear
  BY StartTyped DEF StartInv, MainActs, Runs, Up, processVars
<1>2. now' = now
  BY DEF MainActs, MainStep, LogBegin, LogEnd, Exec, SetupWiringPi, SetRunning, Clear, Check,
     Decide, Start, Stop, PauseLength, PauseStamp, Nap, Wake, Spawn, settings
<1>3. lag'["server"] = lag["server"]
  BY <1>1 DEF MainActs, MainStep, LogBegin, LogEnd, Exec, SetupWiringPi, SetRunning, Clear, Check,
     Decide, Start, Stop, PauseLength, PauseStamp, Nap, Wake, Spawn, Waits, platform
<1>4. /\ UNCHANGED <<unread, sum>> /\ (srv' = "total" => srv = "total")
      /\ Runs("server")' => Runs("server")
  BY DEF MainActs, Spawn, srvVars, sumVars, Runs, Up, processVars
<1>5. ASSUME ReadLately(tm.hour) /\ AMinute(tm.min) => ReadLately(tm'.hour) /\ AMinute(tm'.min)
      PROVE  TimeRead'
  BY <1>1, <1>2, <1>3, <1>4, <1>5 DEF TimeRead, ReadLately, TicksAgo
<1> USE DEF mainVars, platform
<1>6. CASE Check
  <2>1. /\ mpc' = "decide" /\ tm' = [hour |-> Hour(now), min |-> Minute(now)] /\ UNCHANGED lag
        /\ Ago(now, 0) = now /\ now \in Nat
    BY <1>1, <1>6, AgoNow DEF Check, Step, Localtime
  <2>2. ReadLately(tm'.hour) /\ AMinute(tm'.min)
    <3>1. 0 \in 0 .. lag["server"] /\ tm'.hour = Hour(TicksAgo(0)) /\ tm'.min = Minute(now)
      BY <1>1, <2>1 DEF TicksAgo
    <3>2. QED  BY <2>1, <3>1, MinuteTyped DEF ReadLately
  <2>3. TimeRead'
    BY <1>5, <2>2
  <2>4. HourOpen' => UpTimeAround(now, MaxLag + lag["main"])
    BY <1>1, <2>1, OpenNow DEF HourOpen
  <2>5. HourNear'
    BY <1>2, <2>1, <2>4 DEF HourNear, NearUpTime
  <2>6. QED  BY <2>3, <2>5
<1>7. ASSUME mpc' /= "decide", tm' = tm,
             mpc' \in {"startLog", "start"} /\ ~Wedged => UpTimeAround(now, MaxLag + lag'["main"])
      PROVE  TimeRead' /\ HourNear'
  BY <1>2, <1>5, <1>7 DEF HourNear, NearUpTime
<1>8. CASE Decide
  <2>1. /\ UNCHANGED <<lag, tm>> /\ mpc = "decide" /\ mpc' /= "decide"
        /\ (mpc' = "startLog" <=> WindowOpen) /\ mpc' /= "start"
    BY <1>8 DEF Decide
  <2>2. WindowOpen => HourOpen
    BY DEF WindowOpen, HourOpen, WindowAsSet
  <2>3. QED  BY <1>1, <1>7, <2>1, <2>2 DEF HourNear, NearUpTime
<1>9. CASE LogBegin \/ LogEnd
  <2>1. /\ UNCHANGED <<lag, tm>> /\ mpc' /= "decide" /\ mpc /= "decide"
        /\ mpc' \in {"startLog", "start"} => mpc \in {"startLog", "start"}
    BY <1>9 DEF LogBegin, LogEnd, AfterLog, settings
  <2>2. QED  BY <1>1, <1>7, <2>1 DEF HourNear, NearUpTime
<1>10. CASE Exec \/ SetupWiringPi \/ SetRunning \/ Spawn \/ Clear \/ Start \/ Stop
             \/ PauseLength \/ PauseStamp \/ Nap \/ Wake
  <2>1. mpc' \notin {"decide", "startLog", "start"} /\ tm' = tm
    BY <1>10 DEF Exec, SetupWiringPi, SetRunning, Spawn, Clear, Start, Stop, PauseLength,
       PauseStamp, Nap, Wake, Step, settings
  <2>2. QED  BY <1>7, <2>1
<1>11. QED
  BY <1>6, <1>8, <1>9, <1>10 DEF MainActs, MainStep

\* A step that touches neither the loop nor the clocks nor the page keeps both;
\* it lets a handler run on a thread or leaves it alone.
LEMMA StartInvIdle ==
  ASSUME StartInv, RunInv', PageInv', WindowAsSet', ~Wedged' => ~Wedged,
         UNCHANGED <<now, tm, duration, age, mpc, toWake, lag, srv, elapsed, unread, sum, status>>,
         \A t \in Threads : Runs(t)' => Runs(t)
  PROVE  StartInv'
<1>1. Runs("main")' => Runs("main")
  BY DEF Threads
<1>2. Runs("server")' => Runs("server")
  BY DEF Threads
<1>3. PauseKnown'
  BY DEF StartInv, PauseKnown, NeverPaused
<1>4. PauseAge'
  BY DEF StartInv, PauseAge, NeverPaused, Up
<1>5. ElapsedRead'
  BY <1>1, <1>2 DEF StartInv, ElapsedRead, StartInTotal, MinutesInTotal, MinutesRemaining,
     ElapsedInTotal, NeverPaused
<1>6. TimeRead'
  BY <1>1, <1>2 DEF StartInv, TimeRead, ReadLately, TicksAgo
<1>7. HourNear'
  BY <1>1 DEF StartInv, HourNear, HourOpen, NearUpTime
<1>8. QED
  BY <1>3, <1>4, <1>5, <1>6, <1>7 DEF StartInv

\* The page reads the start of the pause, and the time, and puts the hour of the
\* next trigger where the loop looks for its own.
LEMMA StartInvSrv ==
  ASSUME PagesInTime, StartInv, SrvActs \/ Client, RunInv', PageInv', WindowAsSet', ~Wedged' => ~Wedged
  PROVE  StartInv'
<1>1. /\ now \in 0 .. (DayTicks - 1) /\ age \in Nat /\ duration \in Nat /\ elapsed \in Nat
      /\ tm \in [hour : Int, min : Int] /\ sum \in [hour : Int, min : Int, left : Int]
      /\ MinuteTicks \in Nat \ {0} /\ MaxLag \in Nat
      /\ lag \in [Threads -> Nat] /\ lag["main"] \in Nat /\ lag["server"] \in Nat
      /\ Threads = {"main", "server"}
  BY StartTyped
<1>2. Runs("server") /\ Runs("server")' /\ UNCHANGED <<mpc, toWake, status, handler>>
  BY DEF SrvActs, Client, Runs, Up, mainVars, processVars
<1>3. UNCHANGED <<now, duration, age>>
  BY DEF SrvActs, Client, SrvStep, SrvLogBegin, SrvLogEnd, Socket, Bind, Loop, Accept, ReadElapsed,
     PrintRemaining, PageTime, Read, ReadHour, ReadMin, ReadStart, ReadLength, SetHour, SetMin,
     PrintTrigger, Send, ReadsOnly, settings, pauseVars
<1>4. UNCHANGED lag \/ (Waits("server") /\ srv' \in {"accept", "done", "send"})
  BY DEF SrvActs, Client, SrvStep, SrvLogBegin, SrvLogEnd, Socket, Bind, Loop, Accept, ReadElapsed,
     PrintRemaining, PageTime, Read, ReadHour, ReadMin, ReadStart, ReadLength, SetHour, SetMin,
     PrintTrigger, Send, ReadsOnly, Goto, platform
<1>5. lag'["main"] = lag["main"] /\ (srv' = "total" => UNCHANGED lag)
  BY <1>1, <1>4 DEF Waits
<1>6. PauseKnown' /\ PauseAge'
  BY <1>2, <1>3, <1>5 DEF StartInv, PauseKnown, PauseAge, NeverPaused, Up
<1>7. (Runs("main")' <=> Runs("main")) /\ (NeverPaused' <=> NeverPaused)
  BY <1>2, <1>3 DEF Runs, Up, NeverPaused
<1>8. ASSUME ElapsedRead', TimeRead', HourNear' PROVE StartInv'
  BY <1>6, <1>8 DEF StartInv
<1>9. ASSUME ~StartInTotal' PROVE ElapsedRead'
  BY <1>9 DEF ElapsedRead
<1>10. ASSUME tm'.hour = tm.hour PROVE HourNear'
  BY <1>2, <1>3, <1>5, <1>7, <1>10 DEF StartInv, HourNear, HourOpen, NearUpTime
<1>11. CASE PageTime
  <2>1. /\ tm' = [hour |-> Hour(now), min |-> Minute(now)] /\ Ago(now, 0) = now /\ now \in Nat
        /\ srv' = "total" /\ unread' = Operands
    BY <1>1, <1>11, AgoNow DEF PageTime, Localtime, Goto
  <2>2. ElapsedRead'
    BY <1>9, <2>1 DEF StartInTotal, Operands
  <2>3. TimeRead'
    <3>1. 0 \in 0 .. lag'["server"] /\ tm'.hour = Hour(TicksAgo(0))' /\ tm'.min = Minute(now)
      BY <1>1, <1>3, <1>5, <2>1 DEF TicksAgo
    <3>2. QED  BY <2>1, <3>1, MinuteTyped DEF TimeRead, ReadLately, Operands
  <2>4. HourOpen' => UpTimeAround(now, MaxLag + lag["main"])
    BY <1>1, <2>1, OpenNow DEF HourOpen
  <2>5. Runs("main") /\ ~Wedged /\ mpc \in {"startLog", "start"} =>
          UpTimeAround(now, MaxLag + lag["main"])
    BY DEF StartInv, HourNear, NearUpTime
  <2>6. HourNear'
    BY <1>2, <1>3, <1>5, <1>7, <2>4, <2>5 DEF HourNear, NearUpTime
  <2>7. QED  BY <1>8, <2>2, <2>3, <2>6
<1>12. CASE SetHour
  <2>1. /\ srv = "total" /\ srv' = "setMin" /\ unread = {}
        /\ tm'.hour = CDiv(TotalMinutes, HourMinutes)
    BY <1>1, <1>12 DEF SetHour, Goto
  <2>2. ASSUME Runs("main"), mpc = "decide", HourOpen'
        PROVE  UpTimeAround(now, MaxLag + lag["main"])
    <3>1. ReadLately(sum.hour) /\ AMinute(sum.min)
      BY <1>2, <2>1, <2>2 DEF StartInv, TimeRead
    <3>2. lag["server"] <= MaxLag
      BY <1>2, <2>2, StartTyped DEF Runs
    <3>3. PICK k \in 0 .. lag["server"] : sum.hour = Hour(Ago(now, k))
      BY <3>1 DEF ReadLately, TicksAgo
    <3>4. k \in 0 .. (MaxLag + lag["main"]) /\ MaxLag + lag["main"] \in Nat
      BY <1>1, <3>2
    <3>5. sum.left \in Int /\ (sum.left \in {0, 1} \/ sum.left = -(EpochAge \div MinuteTicks))
      BY <1>1, <1>2, <2>1, <2>2, LeftInTotal
    <3>6. tm'.hour = CDiv(sum.min + Hour(Ago(now, k)) * HourMinutes + sum.left, HourMinutes)
      BY <2>1, <3>3 DEF TotalMinutes
    <3>7. UpStart <= tm'.hour % UIntRange /\ tm'.hour % UIntRange < UpEnd
      BY <2>2 DEF HourOpen
    <3>8. QED  BY <1>1, <3>1, <3>4, <3>5, <3>6, <3>7, TriggerNear
  <2>3. HourNear'
    BY <1>2, <1>3, <1>5, <1>7, <2>2 DEF StartInv, HourNear, NearUpTime
  <2>4. QED  BY <1>8, <1>9, <2>1, <2>3 DEF StartInTotal, TimeRead
<1>13. CASE SetMin
  <2>1. srv' = "print" /\ tm'.hour = tm.hour
    BY <1>1, <1>13 DEF SetMin, Goto
  <2>2. QED  BY <1>8, <1>9, <1>10, <2>1 DEF StartInTotal, TimeRead
<1>14. CASE ReadHour \/ ReadMin
  <2>1. /\ srv = "total" /\ srv' = "total" /\ UNCHANGED <<tm, elapsed>>
        /\ sum'.left = sum.left
        /\ \A operand \in {"start", "length"} : operand \in unread' <=> operand \in unread
        /\ sum'.hour = sum.hour \/ sum'.hour = tm.hour
        /\ sum'.min = sum.min \/ sum'.min = tm.min
        /\ "hour" \notin unread' => "hour" \notin unread \/ sum'.hour = tm.hour
        /\ "min" \notin unread' => "min" \notin unread \/ sum'.min = tm.min
    BY <1>1, <1>14 DEF ReadHour, ReadMin, Read, ReadsOnly, settings
  <2>2. /\ MinutesInTotal' = MinutesInTotal /\ ElapsedInTotal' = ElapsedInTotal
        /\ (StartInTotal' <=> StartInTotal)
    BY <1>3, <2>1 DEF MinutesInTotal, MinutesRemaining, ElapsedInTotal, StartInTotal
  <2>3. ElapsedRead'
    BY <1>2, <1>3, <1>5, <1>7, <2>1, <2>2 DEF StartInv, ElapsedRead
  <2>4. TimeRead'
    <3> SUFFICES ASSUME Runs("main")
                 PROVE  /\ ReadLately(tm.hour) /\ AMinute(tm.min)
                        /\ "hour" \notin unread' => ReadLately(sum'.hour)
                        /\ "min" \notin unread' => AMinute(sum'.min)
      BY <1>3, <1>5, <1>7, <2>1 DEF TimeRead, ReadLately, TicksAgo
    <3>1. /\ ReadLately(tm.hour) /\ AMinute(tm.min)
          /\ "hour" \notin unread => ReadLately(sum.hour)
          /\ "min" \notin unread => AMinute(sum.min)
      BY <1>2, <2>1 DEF StartInv, TimeRead
    <3>2. /\ "hour" \in unread /\ "hour" \notin unread' => sum'.hour = tm.hour
          /\ "hour" \notin unread => sum'.hour = sum.hour
          /\ "min" \in unread /\ "min" \notin unread' => sum'.min = tm.min
          /\ "min" \notin unread => sum'.min = sum.min
      BY <1>1, <1>14 DEF ReadHour, ReadMin, Read
    <3>3. QED  BY <3>1, <3>2
  <2>5. QED  BY <1>8, <1>10, <2>1, <2>3, <2>4
<1>15. CASE ReadStart
  <2>1. /\ srv' = "total" /\ UNCHANGED <<tm, sum>> /\ elapsed' = age \div MinuteTicks
        /\ "length" \in unread' /\ srv = "total"
        /\ \A operand \in {"hour", "min"} : operand \in unread' <=> operand \in unread
    BY <1>15, StartTyped DEF ReadStart, Read, ReadsOnly, ElapsedMinutes, settings, PageInv,
       StartReadFirst
  <2>2. age \div MinuteTicks \in Int /\ (age \div MinuteTicks) * MinuteTicks <= age
    BY <1>1, WholeMinutes, DivMod
  <2>3. /\ MinutesInTotal' = duration - (age \div MinuteTicks)
        /\ ElapsedInTotal' = age \div MinuteTicks
    BY <1>1, <1>3, <2>1, <2>2 DEF MinutesInTotal, MinutesRemaining, ElapsedInTotal
  <2>4. NeverPaused => MinutesInTotal' = -(EpochAge \div MinuteTicks)
    BY <2>2, <2>3 DEF NeverPaused
  <2>5. ElapsedRead'
    BY <1>2, <1>3, <1>7, <2>2, <2>3, <2>4 DEF ElapsedRead
  <2>6. TimeRead'
    BY <1>2, <1>3, <1>5, <1>7, <2>1 DEF StartInv, TimeRead, ReadLately, TicksAgo
  <2>7. QED  BY <1>8, <1>10, <2>1, <2>5, <2>6
<1>16. CASE ReadLength
  <2>1. /\ srv = "total" /\ srv' = "total" /\ tm' = tm /\ sum'.left = MinutesRemaining
        /\ sum'.hour = sum.hour /\ sum'.min = sum.min
        /\ "start" \notin unread /\ "length" \in unread /\ "length" \notin unread'
        /\ \A operand \in {"hour", "min"} : operand \in unread' <=> operand \in unread
    BY <1>1, <1>16 DEF ReadLength, Read, ReadsOnly, settings
  <2>2. StartInTotal /\ MinutesInTotal' = MinutesInTotal /\ ElapsedInTotal' = ElapsedInTotal
    BY <1>3, <2>1 DEF StartInTotal, MinutesInTotal, ElapsedInTotal
  <2>3. ElapsedRead'
    BY <1>2, <1>3, <1>5, <1>7, <2>1, <2>2 DEF StartInv, ElapsedRead
  <2>4. TimeRead'
    BY <1>2, <1>3, <1>5, <1>7, <2>1 DEF StartInv, TimeRead, ReadLately, TicksAgo
  <2>5. QED  BY <1>8, <1>10, <2>1, <2>3, <2>4
<1>17. CASE ~(PageTime \/ SetHour \/ SetMin \/ ReadHour \/ ReadMin \/ ReadStart \/ ReadLength)
  <2>1. tm' = tm
    BY <1>17 DEF SrvActs, Client, SrvStep, SrvLogBegin, SrvLogEnd, Socket, Bind, Loop, Accept,
       ReadElapsed, PrintRemaining, PrintTrigger, Send, ReadsOnly, settings
  <2>2. srv' /= "total" \/ UNCHANGED srvVars
    BY <1>17 DEF SrvActs, Client, SrvStep, SrvLogBegin, SrvLogEnd, Socket, Bind, Loop, Accept,
     ReadElapsed, PrintRemaining, PrintTrigger, Send, Goto, AfterSrvLog
  <2>3. CASE srv' /= "total"
    BY <1>8, <1>9, <1>10, <2>1, <2>3 DEF StartInTotal, TimeRead
  <2>4. CASE srv' = "total" /\ UNCHANGED srvVars
    <3>1. UNCHANGED <<srv, elapsed, unread, sum, lag>>
      BY <1>5, <2>4 DEF srvVars, sumVars
    <3>2. ElapsedRead'
      BY <1>2, <1>3, <1>7, <3>1 DEF StartInv, ElapsedRead, StartInTotal, MinutesInTotal,
         MinutesRemaining, ElapsedInTotal
    <3>3. TimeRead'
      BY <1>2, <1>3, <1>7, <2>1, <3>1 DEF StartInv, TimeRead, ReadLately, TicksAgo
    <3>4. QED  BY <1>8, <1>10, <2>1, <3>2, <3>3
  <2>5. QED  BY <2>2, <2>3, <2>4
<1>18. QED  BY <1>11, <1>12, <1>13, <1>14, <1>15, <1>16, <1>17

\* A tick makes everything a tick older, and the lag or the pause accounts for it.
LEMMA StartInvTick ==
  ASSUME PagesInTime, StartInv, Tick, RunInv', PageInv', WindowAsSet' PROVE StartInv'
<1>1. /\ now \in 0 .. (DayTicks - 1) /\ age \in (0 .. MaxAge) \cup {EpochAge}
      /\ duration \in Nat /\ elapsed \in Nat /\ sum.left \in Int /\ toWake \in Nat
      /\ MinuteTicks \in Nat \ {0} /\ MaxLag \in Nat /\ MaxAge \in Nat
      /\ EpochAge \in Nat /\ EpochAge > MaxAge /\ SleepTicks(duration) \in Nat
      /\ lag \in [Threads -> Nat] /\ lag["main"] \in Nat /\ lag["server"] \in Nat
      /\ Threads = {"main", "server"}
      /\ Runs("main") /\ Runs("server") => ~Wedged
  BY StartTyped
<1>2. /\ UNCHANGED <<tm, duration, mpc, logger, srv, elapsed, unread, sum, status, handler>>
      /\ now' = NextTick(now)
  BY DEF Tick, srvVars, sumVars, processVars
<1>3. (Wedged' <=> Wedged) /\ (Up' <=> Up) /\ \A t \in Threads : Runs(t)' <=> Runs(t)
  BY <1>2 DEF Wedged, WedgedOn, Runs, Up
<1>4. /\ age' >= age /\ age' <= age + 1 /\ age' \in Nat
      /\ age' = EpochAge <=> age = EpochAge
  BY <1>1 DEF Tick, Older
<1>5. /\ Up /\ ~Wedged /\ ~MainAsleep => lag'["main"] = lag["main"] + 1 /\ toWake' = toWake
      /\ Up /\ MainAsleep => toWake' = toWake - 1 /\ lag'["main"] = lag["main"]
      /\ MainAsleep => mpc = "asleep"
  BY <1>1 DEF Tick, Due, MainAsleep, Resting
<1>6. PauseKnown'
  BY <1>2, <1>4 DEF StartInv, PauseKnown, NeverPaused
<1>7. PauseAge'
  <2> SUFFICES ASSUME Up, ~Wedged
               PROVE  /\ mpc = "nap" => age' <= lag'["main"]
                      /\ mpc = "asleep" =>
                           age' + toWake' <= SleepTicks(duration) + MaxLag + lag'["main"]
                      /\ mpc \in {"check", "decide"} =>
                           NeverPaused' \/ age' <= SleepTicks(duration) + MaxLag + lag'["main"]
    BY <1>2, <1>3 DEF PauseAge
  <2>1. PauseAge
    BY DEF StartInv
  <2>2. NeverPaused => NeverPaused'
    BY <1>2, <1>4 DEF NeverPaused
  <2>3. CASE mpc = "asleep"
    <3>1. age + toWake <= SleepTicks(duration) + MaxLag + lag["main"]
      BY <2>1, <2>3 DEF PauseAge
    <3>2. age' + toWake' <= SleepTicks(duration) + MaxLag + lag'["main"]
      BY <1>1, <1>4, <1>5, <3>1
    <3>3. QED  BY <2>3, <3>2
  <2>4. CASE mpc /= "asleep"
    <3>1. lag'["main"] = lag["main"] + 1
      BY <1>5, <2>4
    <3>2. QED  BY <1>1, <1>4, <2>1, <2>2, <2>4, <3>1 DEF PauseAge
  <2>5. QED  BY <2>3, <2>4
<1>8. ElapsedRead'
  <2>1. /\ MinutesInTotal' = MinutesInTotal /\ ElapsedInTotal' = ElapsedInTotal
        /\ ElapsedInTotal \in Int
        /\ (StartInTotal' <=> StartInTotal) /\ (NeverPaused' <=> NeverPaused)
    BY <1>1, <1>2, <1>4 DEF MinutesInTotal, MinutesRemaining, ElapsedInTotal, StartInTotal,
       NeverPaused
  <2> SUFFICES ASSUME Runs("main"), Runs("server"), StartInTotal
               PROVE  /\ mpc \in SetUp \cup {"check", "decide"} /\ NeverPaused =>
                           MinutesInTotal = -(EpochAge \div MinuteTicks)
                      /\ mpc = "asleep" => \/ ElapsedInTotal * MinuteTicks <= age'
                                           \/ SleepTicks(duration) <= toWake' + lag'["server"]
                      /\ mpc \in {"check", "decide"} => ElapsedInTotal * MinuteTicks <= age'
    BY <1>1, <1>2, <1>3, <2>1 DEF ElapsedRead
  <2> DEFINE em == ElapsedInTotal * MinuteTicks
  <2>2. em \in Int
    <3> DEFINE e == ElapsedInTotal
    <3>1. e \in Int /\ MinuteTicks \in Int
      BY <1>1, <2>1
    <3> HIDE DEF e
    <3>2. e * MinuteTicks \in Int
      BY <3>1
    <3>3. QED  BY <3>2 DEF e
  <2>3. /\ mpc \in SetUp \cup {"check", "decide"} /\ NeverPaused =>
             MinutesInTotal = -(EpochAge \div MinuteTicks)
        /\ mpc = "asleep" => em <= age \/ SleepTicks(duration) <= toWake + lag["server"]
        /\ mpc \in {"check", "decide"} => em <= age
    BY DEF StartInv, ElapsedRead
  <2>4. lag'["server"] = lag["server"] + 1 /\ toWake' >= toWake - 1
    BY <1>1, <1>5 DEF Tick, Due, SrvWaits, Runs, StartInTotal
  <2> HIDE DEF em
  <2>5. /\ mpc = "asleep" => em <= age' \/ SleepTicks(duration) <= toWake' + lag'["server"]
        /\ mpc \in {"check", "decide"} => em <= age'
    <3>1. toWake' \in Int /\ lag'["server"] \in Int
      BY <1>1, <1>5, <2>4 DEF Runs
    <3>2. QED  BY <1>1, <1>4, <2>2, <2>3, <2>4, <3>1
  <2>6. QED  BY <2>3, <2>5 DEF em
<1>9. TimeRead'
  <2> SUFFICES ASSUME Runs("main"), Runs("server"), srv = "total"
               PROVE  /\ ReadLately(tm.hour)' /\ AMinute(tm.min)
                      /\ "hour" \notin unread => ReadLately(sum.hour)'
                      /\ "min" \notin unread => AMinute(sum.min)
    BY <1>1, <1>2, <1>3 DEF TimeRead, AMinute
  <2>1. lag'["server"] = lag["server"] + 1
    BY <1>1 DEF Tick, Due, SrvWaits, Runs
  <2>2. ASSUME NEW hour, ReadLately(hour)
        PROVE  \E k \in 0 .. lag'["server"] : hour = Hour(Ago(now', k))
    <3>1. PICK k \in 0 .. lag["server"] : hour = Hour(Ago(now, k))
      BY <2>2 DEF ReadLately, TicksAgo
    <3>2. k + 1 \in 0 .. lag'["server"] /\ Ago(now', k + 1) = Ago(now, k)
      BY <1>1, <1>2, <2>1, AgoNext
    <3>3. QED  BY <3>1, <3>2
  <2>3. /\ ReadLately(tm.hour) /\ AMinute(tm.min)
        /\ "hour" \notin unread => ReadLately(sum.hour)
        /\ "min" \notin unread => AMinute(sum.min)
    BY DEF StartInv, TimeRead
  <2>4. QED  BY <1>2, <2>2, <2>3 DEF ReadLately, TicksAgo
<1>10. HourNear'
  <2> SUFFICES ASSUME Runs("main"), ~Wedged,
                      (mpc = "decide" /\ HourOpen) \/ mpc \in {"startLog", "start"}
               PROVE  UpTimeAround(now', MaxLag + lag'["main"])
    BY <1>1, <1>2, <1>3 DEF HourNear, HourOpen, NearUpTime
  <2> DEFINE n == MaxLag + lag["main"]
  <2>1. UpTimeAround(now, n)
    BY DEF StartInv, HourNear, NearUpTime
  <2>2. n \in Int /\ MaxLag + lag'["main"] = n + 1
    BY <1>1, <1>5 DEF Runs
  <2> HIDE DEF n
  <2>3. UpTimeAround(now', n + 1)
    BY <1>1, <1>2, <2>1, <2>2, NearLater
  <2>4. QED  BY <2>2, <2>3
<1>11. QED
  BY <1>6, <1>7, <1>8, <1>9, <1>10 DEF StartInv

\* Every step keeps the account of the hour.
LEMMA StartInvNext == ASSUME PagesInTime, StartInv, [Next]_vars PROVE StartInv'
<1>1. RunInv' /\ PageInv' /\ WindowAsSet' /\ TypeOK' /\ TypeOK
  BY RunInvNext, PageInvNext, WindowAsSetNext, StartTyped
     DEF StartInv, PagesInTime, RunInv, PinInv
<1>2. ASSUME Next, Up, Up' PROVE ~Wedged' => ~Wedged
  BY <1>1, <1>2, WedgedStays
<1>3. handler \in [Threads -> HandlerPoints] /\ Threads = {"main", "server"}
  BY StartTyped
<1>4. CASE MainActs
  <2>1. ~Wedged' => ~Wedged
    BY <1>2, <1>4 DEF MainActs, Runs, Up, processVars, Next
  <2>2. PauseKnown' /\ PauseAge' /\ ElapsedRead' /\ TimeRead' /\ HourNear'
    BY <1>1, <1>4, <2>1, StartPauseMain, StartElapsedMain, StartHourMain
  <2>3. QED  BY <1>1, <2>2 DEF StartInv
<1>5. CASE SrvActs \/ Client
  <2>1. ~Wedged' => ~Wedged
    BY <1>2, <1>5 DEF SrvActs, Client, Runs, Up, processVars, Next
  <2>2. QED  BY <1>1, <1>5, <2>1, StartInvSrv
<1>6. ASSUME ~Up', mpc' = "exec", NeverPaused' PROVE StartInv'
  BY <1>1, <1>6 DEF StartInv, PauseKnown, PauseAge, ElapsedRead, TimeRead, HourNear, Runs
<1>7. ASSUME NEW how \in Endings, Die(how) PROVE StartInv'
  BY <1>6, <1>7 DEF Die, Up, Endings, SettingsReset, Fresh, MainReset, MainFresh, NeverPaused
<1>8. CASE DaemonFails \/ Kill  BY <1>7, <1>8 DEF DaemonFails, Kill, Endings
<1>9. CASE Launch
  <2>1. mpc' = "exec" /\ NeverPaused' /\ srv' = "off"
    BY <1>9 DEF Launch, StartInv, RunInv, PinInv, DownIsReset, PageInv, PauseKnown, NeverPaused,
     SetUp, settings, pauseVars, mainVars, srvVars, sumVars
  <2>2. QED
    BY <1>1, <2>1 DEF StartInv, PauseKnown, PauseAge, NeverPaused, ElapsedRead, StartInTotal,
       TimeRead, HourNear, SetUp
<1>10. ASSUME Next, Up, Up',
              UNCHANGED <<now, tm, duration, age, mpc, toWake, lag, srv, elapsed, unread, sum, status>>,
              \A t \in Threads : Runs(t)' => Runs(t)
       PROVE  StartInv'
  BY <1>1, <1>2, <1>10, StartInvIdle
<1>11. ASSUME NEW t \in Threads, Interrupt(t), Up, Next PROVE StartInv'
  <2>1. /\ UNCHANGED <<now, tm, duration, age, mpc, toWake, lag, srv, elapsed, unread, sum, status>>
        /\ handler' = [handler EXCEPT ![t] = "announce"]
    BY <1>11 DEF Interrupt, settings, pauseVars, platform, mainVars, srvVars, sumVars
  <2>2. \A s \in Threads : Runs(s)' => Runs(s)
    BY <1>3, <2>1 DEF Runs, Up
  <2>3. QED  BY <1>10, <1>11, <2>1, <2>2 DEF Up
<1>12. CASE \E t \in SignalThreads : Signal(t)
  BY <1>11, <1>12, ConstantsTyped DEF Signal, Next
<1>13. CASE Fault
  BY <1>3, <1>11, <1>13 DEF Fault, Runs, Next
<1>14. ASSUME NEW t \in Threads, HandlerActs(t) PROVE StartInv'
  <2>1. CASE HandlerExit(t)  BY <1>7, <2>1 DEF HandlerExit, Endings
  <2>2. CASE ~HandlerExit(t)
    <3>1. UNCHANGED <<now, tm, duration, age, mpc, toWake, lag, srv, elapsed, unread, sum, status>>
      BY <1>14, <2>2 DEF HandlerActs, HandlerLogBegin, HandlerLogEnd, HandlerStop, HandlerQuit,
     HandlerClose, Quietly, settings, pauseVars, platform, mainVars, srvVars, sumVars
    <3>2. Up /\ \A s \in Threads : handler'[s] = "none" => handler[s] = "none"
      BY <1>3, <1>14, <2>2 DEF HandlerActs, HandlerLogBegin, HandlerLogEnd, HandlerStop,
         HandlerQuit, HandlerClose, HandlerAt
    <3>3. Up' /\ \A s \in Threads : Runs(s)' => Runs(s)
      BY <3>1, <3>2 DEF Runs, Up
    <3>4. QED  BY <1>10, <1>14, <3>1, <3>2, <3>3 DEF Next
  <2>3. QED  BY <2>1, <2>2
<1>15. CASE Tick  BY <1>1, <1>15, StartInvTick
<1>16. CASE UNCHANGED vars
  <2>1. /\ UNCHANGED <<now, tm, duration, age, mpc, toWake, lag, srv, elapsed, unread, sum, status>>
        /\ UNCHANGED <<handler, logger>>
    BY <1>16 DEF vars, settings, pauseVars, platform, mainVars, srvVars, sumVars, processVars
  <2>2. (~Wedged' => ~Wedged) /\ \A t \in Threads : Runs(t)' => Runs(t)
    BY <2>1 DEF Wedged, WedgedOn, Runs, Up
  <2>3. QED  BY <1>1, <2>1, <2>2, StartInvIdle
<1>17. QED
  BY <1>4, <1>5, <1>8, <1>9, <1>12, <1>13, <1>14, <1>15, <1>16 DEF Next

\* The fan starts no more than an hour before up_time and no more than the lags of
\* both threads after it, although a status page writes the hour of the next
\* trigger where the main loop is about to read its own, out of a minute and an
\* hour it may have read before the loop's localtime() and after it, and with
\* handlers on either thread.
THEOREM StartsNearUpTimeHolds == ASSUME PagesInTime PROVE Spec => StartsNearUpTime
<1>1. Init => StartInv  BY StartInvInit
<1>2. StartInv /\ [Next]_vars => StartInv'  BY StartInvNext
<1>3. StartInv /\ [Next]_vars =>
        [level = "LOW" /\ level' = "HIGH" /\ ~Wedged => NearUpTime(2 * MaxLag)]_vars
  <2> SUFFICES ASSUME StartInv, Next, level = "LOW", level' = "HIGH", ~Wedged
               PROVE  NearUpTime(2 * MaxLag)
    BY DEF vars, platform, pinVars
  <2>1. MainActs /\ Start
    BY DEF Next, MainActs, MainStep, LogBegin, LogEnd, Exec, SetupWiringPi, SetPinMode, SetRunning,
     Clear, Check, Decide, Start, Stop, PauseLength, PauseStamp, Nap, Wake, Spawn, SetGpio, SrvActs,
     Client, SrvStep, SrvLogBegin, SrvLogEnd, Socket, Bind, Loop, Accept, ReadElapsed,
     PrintRemaining, PageTime, Read, ReadHour, ReadMin, ReadStart, ReadLength, SetHour, SetMin,
     PrintTrigger, Send, ReadsOnly, DaemonFails, Kill, Die, Launch, Signal, Fault, Interrupt,
     HandlerActs, HandlerLogBegin, HandlerLogEnd, HandlerStop, HandlerQuit, HandlerClose,
     HandlerExit, Quietly, Tick, platform, pinVars
  <2>2. Runs("main") /\ mpc = "start"
    BY <2>1 DEF MainActs, Start, Step
  <2>3. UpTimeAround(now, MaxLag + lag["main"])
    BY <2>2 DEF StartInv, HourNear, NearUpTime
  <2>4. lag["main"] \in Nat /\ MaxLag \in Nat /\ lag["main"] <= MaxLag
    BY <2>2, StartTyped DEF Runs
  <2>5. UpTimeAround(now, 2 * MaxLag)
    <3> DEFINE n == MaxLag + lag["main"]
               m == 2 * MaxLag
    <3>1. n \in Int /\ m \in Int /\ n <= m
      BY <2>4
    <3> HIDE DEF n, m
    <3>2. UpTimeAround(now, m)
      BY <2>3, <3>1, NearMore DEF n
    <3>3. QED  BY <3>2 DEF m
  <2>6. QED  BY <2>5 DEF NearUpTime
<1>4. QED
  BY <1>1, <1>2, <1>3, PTL DEF Spec, StartsNearUpTime

-----------------------------------------------------------------------------
(***************************************************************************)
(* So the pin is high only around up_time, whatever the pages do.          *)
(***************************************************************************)

LEMMA NearInvInit == ASSUME PagesInTime PROVE Init => NearInv
<1> SUFFICES ASSUME Init PROVE NearInv  OBVIOUS
<1>1. StartInv  BY StartInvInit
<1>2. ~Up  BY DEF Init, Up
<1>3. QED  BY <1>1, <1>2 DEF NearInv, RunNear, Cleared

\* What the invariant says of the numbers it speaks of.
LEMMA NearTyped ==
  ASSUME PagesInTime, NearInv
  PROVE  /\ StartInv /\ RunInv /\ PinInv /\ TypeOK
         /\ now \in 0 .. (DayTicks - 1) /\ toWake \in Nat
         /\ lag \in [Threads -> Nat] /\ lag["main"] \in Nat
         /\ SleepTicks(RunMinutes) \in Nat /\ MaxLag \in Nat
         /\ handler \in [Threads -> HandlerPoints] /\ Threads = {"main", "server"}
         /\ Up /\ ~Wedged => lag["main"] <= MaxLag
  BY StartTyped, SleepTicksTyped, ConstantsTyped DEF NearInv, RunInv, PinInv

\* A step that leaves the loop, its lag and the clock alone, and sets no pin high.
LEMMA RunNearIdle ==
  ASSUME NearInv, ~Wedged' => ~Wedged, Up, UNCHANGED <<now, mpc, toWake>>,
         lag'["main"] = lag["main"], level' = level \/ level' = "LOW"
  PROVE  RunNear'
  BY DEF NearInv, RunNear, Cleared, Stopping, NearUpTime

\* A step of the main thread.
LEMMA RunNearMain ==
  ASSUME PagesInTime, NearInv, MainActs, ~Wedged' => ~Wedged PROVE RunNear'
<1> DEFINE S == SleepTicks(RunMinutes)
<1>1. /\ PinInv /\ TypeOK /\ now \in 0 .. (DayTicks - 1) /\ toWake \in Nat
      /\ lag \in [Threads -> Nat] /\ lag["main"] \in Nat /\ S \in Nat /\ MaxLag \in Nat
      /\ Threads = {"main", "server"}
      /\ Runs("main") /\ Up /\ Up' /\ (~Wedged => lag["main"] <= MaxLag)
  BY NearTyped DEF MainActs, Runs, Up, processVars
<1>2. now' = now
  BY DEF MainActs, MainStep, LogBegin, LogEnd, Exec, SetupWiringPi, SetRunning, Clear, Check,
     Decide, Start, Stop, PauseLength, PauseStamp, Nap, Wake, Spawn, settings
<1>3. level = "HIGH" /\ mpc \notin SetUp => phase = "run" /\ mpc \in Pausing \cup Stopping
  BY <1>1 DEF PinInv, HighOnlyInRun, RunPause, Cleared
<1>4. level = "HIGH" /\ ~Wedged =>
        /\ mpc \in {"duration", "stamp", "nap"} => UpTimeAround(now, MaxLag + lag["main"])
        /\ mpc \in {"asleep"} \cup Stopping =>
             UpTimeAround(now, S + 2 * MaxLag + lag["main"] - (IF mpc = "asleep" THEN toWake ELSE 0))
  BY <1>1 DEF NearInv, RunNear, Cleared, NearUpTime, SetUp, Stopping
<1>5. ASSUME level' = "HIGH" /\ ~Wedged =>
               /\ mpc' \in {"duration", "stamp", "nap"} => UpTimeAround(now, MaxLag + lag'["main"])
               /\ mpc' \in {"asleep"} \cup Stopping =>
                    UpTimeAround(now, S + 2 * MaxLag + lag'["main"]
                                        - (IF mpc' = "asleep" THEN toWake' ELSE 0))
      PROVE  RunNear'
  BY <1>2, <1>5 DEF RunNear, Cleared, NearUpTime
<1> USE DEF mainVars, platform, pinVars, Stopping
<1>6. CASE LogBegin
  <2>1. UNCHANGED <<level, mpc, lag, toWake>>
    BY <1>6 DEF LogBegin
  <2>2. QED  BY <1>4, <1>5, <2>1
<1>7. CASE LogEnd
  <2>1. /\ UNCHANGED <<level, lag, toWake>>
        /\ \/ mpc' \notin {"duration", "stamp", "nap", "asleep", "stopLog", "stop"}
           \/ mpc = "stopLog" /\ mpc' = "stop"
           \/ mpc = "idleLog" /\ mpc' = "duration"
    BY <1>7 DEF LogEnd, AfterLog
  <2>2. mpc = "idleLog" => level /= "HIGH"
    BY <1>3 DEF SetUp, Pausing
  <2>3. QED  BY <1>4, <1>5, <2>1, <2>2
<1>8. CASE Exec \/ SetupWiringPi \/ SetRunning \/ Spawn \/ Clear \/ Check \/ Decide
  <2>1. mpc' \notin {"duration", "stamp", "nap", "asleep", "stopLog", "stop"}
    BY <1>8 DEF Exec, SetupWiringPi, SetRunning, Spawn, Clear, Check, Decide, Step
  <2>2. QED  BY <1>5, <2>1
<1>9. CASE Start
  <2>1. mpc = "start" /\ mpc' = "duration" /\ UNCHANGED lag
    BY <1>9 DEF Start, Step
  <2>2. ~Wedged => UpTimeAround(now, MaxLag + lag["main"])
    BY <1>1, <2>1 DEF NearInv, StartInv, HourNear, NearUpTime
  <2>3. QED  BY <1>5, <2>1, <2>2
<1>10. CASE Stop
  <2>1. level' = "LOW"
    BY <1>1, <1>10 DEF Stop, Step, SetGpio, PinInv, WiredOnceSetUp
  <2>2. QED  BY <1>5, <2>1
<1>11. CASE PauseLength \/ PauseStamp
  <2>1. UNCHANGED <<level, lag>> /\ mpc \in {"duration", "stamp"} /\ mpc' \in {"stamp", "nap"}
    BY <1>11 DEF PauseLength, PauseStamp, Step
  <2>2. QED  BY <1>4, <1>5, <2>1
<1>12. CASE Nap
  <2>1. /\ UNCHANGED <<level, phase>> /\ mpc = "nap" /\ mpc' = "asleep"
        /\ lag'["main"] = 0 /\ toWake' = SleepTicks(duration)
    BY <1>1, <1>12 DEF Nap, Step, Waits
  <2>2. ASSUME level = "HIGH", ~Wedged PROVE UpTimeAround(now, S + 2 * MaxLag + 0 - toWake')
    <3>1. toWake' = S
      BY <1>1, <1>3, <2>1, <2>2 DEF PinInv, RunLength, SetUp
    <3>2. UpTimeAround(now, MaxLag + lag["main"]) /\ lag["main"] <= MaxLag
      BY <1>1, <1>4, <2>1, <2>2
    <3>3. S + 2 * MaxLag + 0 - toWake' = 2 * MaxLag
      BY <1>1, <3>1
    <3>4. MaxLag + lag["main"] \in Int /\ 2 * MaxLag \in Int /\ MaxLag + lag["main"] <= 2 * MaxLag
      BY <1>1, <3>2
    <3>5. QED  BY <3>2, <3>3, <3>4, NearMore
  <2>3. QED  BY <1>5, <2>1, <2>2
<1>13. CASE Wake
  <2>1. /\ UNCHANGED <<level, lag, toWake>> /\ mpc = "asleep" /\ toWake = 0
        /\ mpc' \in {"stopLog", "check"}
    BY <1>13 DEF Wake
  <2>2. QED  BY <1>4, <1>5, <2>1
<1>14. QED
  BY <1>6, <1>7, <1>8, <1>9, <1>10, <1>11, <1>12, <1>13 DEF MainActs, MainStep

\* A tick.
LEMMA RunNearTick == ASSUME PagesInTime, NearInv, Tick PROVE RunNear'
<1>1. /\ now \in 0 .. (DayTicks - 1) /\ toWake \in Nat
      /\ lag \in [Threads -> Nat] /\ lag["main"] \in Nat
      /\ SleepTicks(RunMinutes) \in Nat /\ MaxLag \in Nat /\ Threads = {"main", "server"}
  BY NearTyped
<1>2. UNCHANGED <<level, mpc, logger, status, handler>> /\ now' = NextTick(now)
  BY DEF Tick, processVars
<1>3. (Wedged' <=> Wedged) /\ (Up' <=> Up)
  BY <1>2 DEF Wedged, WedgedOn, Up
<1>4. /\ Up /\ ~Wedged /\ ~MainAsleep => lag'["main"] = lag["main"] + 1 /\ toWake' = toWake
      /\ Up /\ MainAsleep => toWake' = toWake - 1 /\ lag'["main"] = lag["main"]
      /\ MainAsleep => mpc = "asleep"
  BY <1>1 DEF Tick, Due, MainAsleep, Resting
<1> SUFFICES ASSUME Cleared, level = "HIGH", ~Wedged
             PROVE  /\ mpc \in {"duration", "stamp", "nap"} => UpTimeAround(now', MaxLag + lag'["main"])
                    /\ mpc \in {"asleep"} \cup Stopping =>
                         UpTimeAround(now', SleepTicks(RunMinutes) + 2 * MaxLag + lag'["main"]
                                              - (IF mpc = "asleep" THEN toWake' ELSE 0))
  BY <1>2, <1>3 DEF RunNear, Cleared, Stopping, NearUpTime
<1>5. Up  BY DEF Cleared
<1>6. ASSUME mpc \in {"duration", "stamp", "nap"} PROVE UpTimeAround(now', MaxLag + lag'["main"])
  <2> DEFINE n == MaxLag + lag["main"]
  <2>1. UpTimeAround(now, n)
    BY <1>6 DEF NearInv, RunNear, NearUpTime
  <2>2. n \in Int /\ MaxLag + lag'["main"] = n + 1
    BY <1>1, <1>4, <1>5, <1>6
  <2> HIDE DEF n
  <2>3. UpTimeAround(now', n + 1)
    BY <1>1, <1>2, <2>1, <2>2, NearLater
  <2>4. QED  BY <2>2, <2>3
<1>7. ASSUME mpc \in {"asleep"} \cup Stopping
      PROVE  UpTimeAround(now', SleepTicks(RunMinutes) + 2 * MaxLag + lag'["main"]
                                  - (IF mpc = "asleep" THEN toWake' ELSE 0))
  <2> DEFINE n == SleepTicks(RunMinutes) + 2 * MaxLag + lag["main"]
                    - (IF mpc = "asleep" THEN toWake ELSE 0)
  <2>1. UpTimeAround(now, n)
    BY <1>7 DEF NearInv, RunNear, NearUpTime
  <2>2. /\ n \in Int
        /\ n + 1 = SleepTicks(RunMinutes) + 2 * MaxLag + lag'["main"]
                     - (IF mpc = "asleep" THEN toWake' ELSE 0)
    BY <1>1, <1>4, <1>5, <1>7
  <2> HIDE DEF n
  <2>3. UpTimeAround(now', n + 1)
    BY <1>1, <1>2, <2>1, <2>2, NearLater
  <2>4. QED  BY <2>2, <2>3
<1>8. QED  BY <1>6, <1>7

\* Every step keeps the run near up_time.
LEMMA NearInvNext == ASSUME PagesInTime, NearInv, [Next]_vars PROVE NearInv'
<1>1. StartInv' /\ TypeOK /\ handler \in [Threads -> HandlerPoints] /\ Threads = {"main", "server"}
  BY StartInvNext, NearTyped DEF NearInv
<1> SUFFICES RunNear'
  BY <1>1 DEF NearInv
<1>2. ASSUME Next, Up, Up' PROVE ~Wedged' => ~Wedged
  BY <1>1, <1>2, WedgedStays
<1>3. ASSUME ~Up' \/ mpc' \in SetUp PROVE RunNear'
  BY <1>3 DEF RunNear, Cleared
<1>4. ASSUME Next, Up, Up', UNCHANGED <<now, mpc, toWake>>, lag'["main"] = lag["main"],
             level' = level \/ level' = "LOW"
      PROVE  RunNear'
  BY <1>2, <1>4, RunNearIdle
<1> USE DEF settings, platform, pinVars, mainVars
<1>5. CASE MainActs
  BY <1>2, <1>5, RunNearMain DEF MainActs, Runs, Up, processVars, Next
<1>6. CASE SrvActs \/ Client
  <2>1. Up /\ Up' /\ UNCHANGED <<mpc, toWake>>
    BY <1>6 DEF SrvActs, Client, Runs, Up, processVars
  <2>2. UNCHANGED <<now, level>> /\ (UNCHANGED lag \/ Waits("server"))
    BY <1>6 DEF SrvActs, Client, SrvStep, SrvLogBegin, SrvLogEnd, Socket, Bind, Loop, Accept,
     ReadElapsed, PrintRemaining, PageTime, Read, ReadHour, ReadMin, ReadStart, ReadLength, SetHour,
     SetMin, PrintTrigger, Send, ReadsOnly
  <2>3. lag'["main"] = lag["main"]
    BY <1>1, <2>2 DEF Waits, TypeOK, PlatformTypeOK
  <2>4. QED  BY <1>4, <1>6, <2>1, <2>2, <2>3 DEF Next
<1>7. ASSUME NEW how \in Endings, Die(how) PROVE RunNear'
  BY <1>3, <1>7 DEF Die, Up, Endings
<1>8. CASE DaemonFails \/ Kill  BY <1>7, <1>8 DEF DaemonFails, Kill, Endings
<1>9. CASE Launch
  <2>1. mpc' = "exec"
    BY <1>9, NearTyped DEF Launch, PinInv, DownIsReset
  <2>2. QED  BY <1>3, <2>1 DEF SetUp
<1>10. ASSUME NEW t \in Threads, Interrupt(t), Up, Next PROVE RunNear'
  BY <1>4, <1>10 DEF Interrupt, Up
<1>11. CASE \E t \in SignalThreads : Signal(t)
  BY <1>10, <1>11, ConstantsTyped DEF Signal, Next
<1>12. CASE Fault
  BY <1>1, <1>10, <1>12 DEF Fault, Runs, Next
<1>13. ASSUME NEW t \in Threads, HandlerActs(t) PROVE RunNear'
  <2>1. CASE HandlerExit(t)  BY <1>7, <2>1 DEF HandlerExit, Endings
  <2>2. CASE ~HandlerExit(t)
    <3>1. /\ UNCHANGED <<now, mpc, toWake, lag, status>> /\ Up
          /\ level' = level \/ level' = "LOW"
      BY <1>13, <2>2 DEF HandlerActs, HandlerLogBegin, HandlerLogEnd, HandlerStop, HandlerQuit,
         HandlerClose, HandlerAt, Quietly, SetGpio
    <3>2. QED  BY <1>4, <1>13, <3>1 DEF Next, Up
  <2>3. QED  BY <2>1, <2>2
<1>14. CASE Tick  BY <1>14, RunNearTick
<1>15. CASE UNCHANGED vars
  <2>1. UNCHANGED <<now, mpc, toWake, lag, level, status, handler, logger>>
    BY <1>15 DEF vars, processVars
  <2>2. QED
    BY <2>1 DEF NearInv, RunNear, Cleared, Stopping, NearUpTime, Up, Wedged, WedgedOn
<1>16. QED
  BY <1>5, <1>6, <1>8, <1>9, <1>11, <1>12, <1>13, <1>14, <1>15 DEF Next

\* With pages at any point and handlers on either thread, the pin is high only
\* around up_time or, past its end, for no longer than a run and the scheduling.
THEOREM PinNearUpTimeHolds == ASSUME PagesInTime PROVE Spec => []PinNearUpTime
<1>1. Init => NearInv  BY NearInvInit
<1>2. NearInv /\ [Next]_vars => NearInv'  BY NearInvNext
<1>3. NearInv => PinNearUpTime
  <2> SUFFICES ASSUME NearInv, Cleared, level = "HIGH", ~Wedged
               PROVE  UpTimeAround(now, RunMinutes * MinuteTicks + 3 * MaxLag)
    BY DEF PinNearUpTime, NearUpTime
  <2> DEFINE S == SleepTicks(RunMinutes)
             R == RunMinutes * MinuteTicks
  <2>1. /\ S \in Nat /\ R \in Nat /\ S <= R /\ MaxLag \in Nat /\ toWake \in Nat
        /\ lag["main"] \in Nat /\ lag["main"] <= MaxLag
    BY NearTyped, ConstantsTyped, SleepTicksTyped DEF Cleared
  <2>2. mpc \in {"duration", "stamp", "nap", "asleep"} \cup Stopping
    BY NearTyped DEF PinInv, HighOnlyInRun, RunPause, Pausing
  <2> HIDE DEF S, R
  <2>3. CASE mpc \in {"duration", "stamp", "nap"}
    <3>1. UpTimeAround(now, MaxLag + lag["main"])
      BY <2>3 DEF NearInv, RunNear, NearUpTime
    <3> DEFINE n == MaxLag + lag["main"]
    <3>2. n \in Int /\ n <= R + 3 * MaxLag /\ R + 3 * MaxLag \in Int
      BY <2>1
    <3> HIDE DEF n
    <3>3. QED  BY <3>1, <3>2, NearMore DEF R, n
  <2>4. CASE mpc \in {"asleep"} \cup Stopping
    <3> DEFINE n == S + 2 * MaxLag + lag["main"] - (IF mpc = "asleep" THEN toWake ELSE 0)
    <3>1. UpTimeAround(now, n)
      BY <2>4 DEF NearInv, RunNear, NearUpTime, S
    <3>2. n \in Int /\ R + 3 * MaxLag \in Int /\ n <= R + 3 * MaxLag
      BY <2>1
    <3> HIDE DEF n
    <3>3. QED  BY <3>1, <3>2, NearMore DEF R
  <2>5. QED  BY <2>2, <2>3, <2>4
<1>4. QED  BY <1>1, <1>2, <1>3, PTL DEF Spec
=============================================================================
