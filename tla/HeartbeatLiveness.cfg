SPECIFICATION FairSpec
CONSTANTS
  a1 = a1  a2 = a2  i1 = i1  i2 = i2  c1 = c1  c2 = c2
  NoAgent = NoAgent  NoIssue = NoIssue
  Agents = {a1}
  Issues = {i1}
  Callers = {c1, c2}
  MaxRuns = 1
  MaxRequests = 3
  MaxCrashes = 0
  MaxConcurrentRuns <- TwoSlots
  Priority <- SamePriority
  Blocks <- NoBlocks
  ApiAgents = {}
  TimeoutAgents = {a1}
  Kinds = {"wakeup", "cancel"}
  InitStatuses = {"in_progress"}
  EditStatuses = {}
  StatusRequests = {}
  PriorityIsInteger = FALSE
  AdapterMayFail = TRUE
  DbMayFail = FALSE
CHECK_DEADLOCK FALSE
INVARIANTS
  SessionHasOwner
PROPERTIES
  LockReleased
  CallersReturn
  RunsEnd
