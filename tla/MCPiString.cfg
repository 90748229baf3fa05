SPECIFICATION Spec
CONSTANTS
  Letters <- MCLetters
  Strings <- MCStrings
  Sizes <- MCSizes
  SizeRange = 1000
  MaxPosition = 12
INVARIANTS
  TypeOK
  Terminated
  AllInside
PROPERTIES
  OnlyAppends
CHECK_DEADLOCK FALSE
