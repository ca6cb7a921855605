SPECIFICATION FairSpec
CONSTANTS
  Servers = {"A", "B"}
  Updates <- MCUpdates
  MaxMessages = 2
  MaxRemembered = 1
  Scopes <- MCScopes
CHECK_DEADLOCK FALSE
INVARIANTS
  NothingLost
  NoEcho
PROPERTIES
  EventuallyHandled
