SPECIFICATION Spec
CONSTANTS
  Letters <- MCLetters
  Keys <- MCKeys
  Inputs <- MCInputs
  Hash <- MCHash
  Capacity = 2
  MaxText = 4
INVARIANTS
  TypeOK
  OnePairPerKey
  ValueFits
  CopyFits
  NothingLost
PROPERTIES
  ImplementsMap
