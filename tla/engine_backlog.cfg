SPECIFICATION Spec
CONSTANTS
  createProject = createProject
  createThread = createThread
  createThreadAgain = createThreadAgain
  setMode = setMode
  startTurn = startTurn
  project = project
  thread = thread
  approvalRequired = approvalRequired
  fullAccess = fullAccess
  messages = messages
  plans = plans
  NoMode = NoMode
  NoCommand = NoCommand
  Projects = {project}
  Threads = {thread}
  RuntimeModes = {approvalRequired, fullAccess}
  CommandIds = {createProject, createThread, createThreadAgain, setMode, startTurn}
  Commands <- MCCommands
  LegacyLog <- MCLongLegacyLog
  LegacyReceipts <- MCLegacyReceipts
  ProjectorOrder <- MCProjectorOrder
  NewProjectors = {plans}
  ReadLimit = 2
  MaxDispatches = 1
  MaxCrashes = 0
CHECK_DEADLOCK FALSE
INVARIANTS
  CursorsSound
