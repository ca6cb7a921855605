SPECIFICATION FairSpec
CONSTANTS
  MaxTexts = 2
  MaxIds = 9
  Scopes <- MCScopes
CHECK_DEADLOCK FALSE
INVARIANTS
  TextKept
  SentOnce
PROPERTIES
  FollowerSpec
  CatchesUp
