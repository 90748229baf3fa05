SPECIFICATION Spec
CONSTANTS
  LongMax = 7
  UIntRange = 16
  UCharRange = 4
  UShortRange = 8
  RandomRange = 4
  MinuteSeconds = 2
  MaxItems = 3
  Items <- MCItems
  Default <- MCDefault
INVARIANTS
  TypeOK
  PausesLast
  LastOptionWins
  UpTimeOnce
  OutcomeByFirstEnd
CHECK_DEADLOCK FALSE
