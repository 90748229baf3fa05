SPECIFICATION Spec
CONSTANTS
  MinuteTicks = 3
  HourMinutes = 2
  DayHours = 4
  UIntRange = 1000
  RunMinutes = 1
  SleepMinutes = 2
  UseRandom = FALSE
  RandomRange = 2
  UpStart = 1
  UpEnd = 3
  ResetStart = 1
  ResetEnd = 2
  MaxAge = 9
  EpochAge = 100
  HasServer = TRUE
  RunAsDaemon = FALSE
  SignalThreads = {}
  ClientsHangUp = TRUE
  AddressFails = FALSE
  MayBeKilled = FALSE
  MaxSignals = 2
  MaxLag = 1
INVARIANTS
  HandledExitLow
