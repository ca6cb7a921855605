SPECIFICATION Spec
SYMMETRY Symmetry
CONSTANTS
  Turns = {t1, t2}
  UserMessages = {u1, u2}
  AssistantMessages = {a1}
  Plans = {p1}
  Activities = {x1}
  Requests = {r1}
  NoTurn = NoTurn
  NoMessage = NoMessage
  NoRequest = NoRequest
  MaxCount = 2
  MaxEvents = 5
  MaxThreadMessages = 2
  MaxThreadCheckpoints = 3
CHECK_DEADLOCK FALSE
INVARIANTS
  TurnCountsUnique
  StartedOnce
  CheckpointsAgree
PROPERTIES
  RevertIsExact
  SettledStaysSettled
  AnsweredStaysAnswered
