SPECIFICATION FairSpec
CONSTANTS
  None = None
  Created = {"approval-required"}
  MayEnd = TRUE
  MaxRequests = 3
  MaxBacklog = 2
  MaxFaults = 1
CHECK_DEADLOCK FALSE
INVARIANTS
  RecoversWhatRan
  NoGhostTurn
  OnlyRestartsStrand
PROPERTIES
  ConversationKept
  IntentsTaken
