SPECIFICATION FairSpec
CONSTANTS
  MinuteTicks = 1
  HourMinutes = 1
  DayHours = 2
  UIntRange = 1000
  RunMinutes = 1
  SleepMinutes = 1
  UseRandom = FALSE
  RandomRange = 2
  UpStart = 1
  UpEnd = 2
  ResetStart = 1
  ResetEnd = 2
  MaxAge = 3
  EpochAge = 10
  HasServer = FALSE
  RunAsDaemon = TRUE
  SignalThreads = {"main"}
  ClientsHangUp = FALSE
  AddressFails = FALSE
  MayBeKilled = FALSE
  MaxSignals = 1
  MaxLag = 1
PROPERTIES
  ShutdownAlwaysCompletes
