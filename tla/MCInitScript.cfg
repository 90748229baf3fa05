SPECIFICATION Spec
CONSTANTS
  Calls = {a, b, c, d}
  Procs = {p1, p2, p3, p4}
  NoProc = NoProc
  MaxFaults = 1
  MayFail = TRUE
SYMMETRY Symmetry
INVARIANTS
  TypeOK
  OneTimer
  PinFollowsTimer
  LowWithoutTimer
PROPERTIES
  StopReachesAll
  StartLeavesOne
CHECK_DEADLOCK FALSE
