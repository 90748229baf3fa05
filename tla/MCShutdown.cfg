SPECIFICATION FairSpec
CONSTANTS
  MinuteTicks = 1
  HourMinutes = 1
  DayHours = 2
  UIntRange = 1000
  RunMinutes = 1
  SleepMinutes = 1
  UseRandom = FALSE
  RandomRange = 2
  UpStart = 1
  UpEnd = 2
  ResetStart = 1
  ResetEnd = 2
  MaxAge = 1
  EpochAge = 10
  HasServer = TRUE
  RunAsDaemon = FALSE
  SignalThreads = {"main", "server"}
  ClientsHangUp = TRUE
  AddressFails = TRUE
  MayBeKilled = FALSE
  MaxSignals = 1
  MaxLag = 1
PROPERTIES
  RunEnds
  ShutdownCompletes
