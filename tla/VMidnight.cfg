SPECIFICATION FairSpec
CONSTANTS
  MinuteTicks = 1
  HourMinutes = 1
  DayHours = 24
  UIntRange = 1000
  RunMinutes = 1
  SleepMinutes = 1
  UseRandom = FALSE
  RandomRange = 2
  UpStart = 0
  UpEnd = 8
  ResetStart = 9
  ResetEnd = 16
  MaxAge = 4
  EpochAge = 100
  HasServer = FALSE
  RunAsDaemon = FALSE
  SignalThreads = {}
  ClientsHangUp = FALSE
  AddressFails = FALSE
  MayBeKilled = FALSE
  MaxSignals = 2
  MaxLag = 1
PROPERTIES
  FanRunsAgain
