SPECIFICATION FairSpec
CONSTANTS
  Clients = {c1, c2}
  NoSocket = NoSocket
  Token <- MCToken
  Scripts <- MCScripts
  Backlog = 2
  MaxUnread = 2
  MaxFailures = 1
INVARIANTS
  TypeOK
  NotHeldByWhole
  TurnsFreeTheirBlocks
  HeadersClean
PROPERTIES
  ImplementsService
  AnsweredUnlessHeld
CHECK_DEADLOCK FALSE
