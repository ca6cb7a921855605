SPECIFICATION Spec
CONSTANTS
  MaxTurns = 4
  MaxDiffs = 1
  MaxReverts = 2
  Scopes <- Diff
CHECK_DEADLOCK FALSE
INVARIANTS
  EveryTurnCaptured
