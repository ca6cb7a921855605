SPECIFICATION FairSpec
CONSTANTS
  h1 = h1
  h2 = h2
  a1 = a1
  a2 = a2
  b1 = b1
  Threads = {h1, h2}
  Terminals = {a1, a2, b1}
  ThreadOf <- TwoThreads
  MaxSessions = 2
  MaxProcesses = 2
  Limits = {1, 3}
CHECK_DEADLOCK FALSE
INVARIANTS
  StatusIsTrue
  ProcessesReachable
  InactiveBounded
  BusyIsMeasured
PROPERTIES
  StoppedProcessesDie
