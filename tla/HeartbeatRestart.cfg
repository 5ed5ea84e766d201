SPECIFICATION RestartSpec
CONSTANTS
  a1 = a1  a2 = a2  i1 = i1  i2 = i2  c1 = c1  c2 = c2
  NoAgent = NoAgent  NoIssue = NoIssue
  Agents = {a1}
  Issues = {i1, i2}
  Callers = {c1, c2}
  MaxRuns = 4
  MaxRequests = 3
  MaxCrashes = 1
  MaxConcurrentRuns <- TwoSlots
  Priority <- SamePriority
  Blocks <- NoBlocks
  ApiAgents = {a1}
  TimeoutAgents = {}
  Kinds = {"wakeup", "cancel"}
  InitStatuses = {"in_progress"}
  EditStatuses = {}
  StatusRequests = {}
  PriorityIsInteger = TRUE
  AdapterMayFail = FALSE
  DbMayFail = FALSE
SYMMETRY CallerSymmetry
CHECK_DEADLOCK FALSE
INVARIANTS
  TypeOK
PROPERTIES
  SpawnedOnce
