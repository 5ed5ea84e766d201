SPECIFICATION Spec
CONSTANTS
  a1 = a1  a2 = a2  i1 = i1  i2 = i2  c1 = c1  c2 = c2
  NoAgent = NoAgent  NoIssue = NoIssue
  Agents = {a1}
  Issues = {i1}
  Callers = {c1}
  MaxRuns = 2
  MaxRequests = 1
  MaxCrashes = 1
  MaxConcurrentRuns <- TwoSlots
  Priority <- SamePriority
  Blocks <- NoBlocks
  ApiAgents = {}
  TimeoutAgents = {}
  Kinds = {"wakeup", "edit", "cancel", "status", "stuck"}
  InitStatuses = {"todo"}
  EditStatuses = {"todo", "in_progress"}
  StatusRequests = {"terminated"}
  PriorityIsInteger = FALSE
  AdapterMayFail = TRUE
  DbMayFail = TRUE
CHECK_DEADLOCK FALSE
INVARIANTS
  HandleHasOwner
PROPERTIES
  RunLifecycleSpec
