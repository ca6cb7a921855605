SPECIFICATION FairSpec
CONSTANTS
  MaxBuffered = 2
  MaxUnread = 1
  MaxEvents = 2
  Scopes <- All
CHECK_DEADLOCK FALSE
INVARIANTS
  MessagesComplete
  PlanKept
  TurnsSettle
  DecisionsAgree
PROPERTIES
  RequestsEnd
