SPECIFICATION Spec
CONSTANTS
  MinuteTicks = 2
  HourMinutes = 2
  DayHours = 4
  UIntRange = 1000
  RunMinutes = 1
  SleepMinutes = 2
  UseRandom = TRUE
  RandomRange = 2
  UpStart = 1
  UpEnd = 3
  ResetStart = 1
  ResetEnd = 2
  MaxAge = 9
  EpochAge = 100
  HasServer = FALSE
  RunAsDaemon = TRUE
  SignalThreads = {"main"}
  ClientsHangUp = FALSE
  AddressFails = FALSE
  MayBeKilled = TRUE
  MaxSignals = 2
  MaxLag = 1
INVARIANTS
  TypeOK
  HighOnlyInRun
  HandledExitLow
  RunTimeBounded
  HighNearUpTime
PROPERTIES
  DecidesByTheClock
  ImplementsFan
