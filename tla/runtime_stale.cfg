SPECIFICATION Spec
CONSTANTS
  MaxBuffered = 2
  MaxUnread = 1
  MaxEvents = 2
  Scopes <- Stale
CHECK_DEADLOCK FALSE
INVARIANTS
  StaleCleared
