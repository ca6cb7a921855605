SPECIFICATION Spec
CONSTANTS
  None = None
  Created = {"approval-required"}
  MayEnd = FALSE
  MaxRequests = 4
  MaxBacklog = 2
  MaxFaults = 0
CHECK_DEADLOCK FALSE
INVARIANTS
  SupervisedStaysSupervised
