SPECIFICATION FairSpec
CONSTANTS
  MaxTurns = 4
  MaxDiffs = 1
  MaxReverts = 2
  Scopes <- Both
CHECK_DEADLOCK FALSE
INVARIANTS
  StoredRefsExist
  ThreadAgrees
  CheckpointHoldsTurn
PROPERTIES
  RevertsAnswered
