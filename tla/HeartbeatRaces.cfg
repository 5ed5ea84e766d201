SPECIFICATION HistorySpec
CONSTANTS
  a1 = a1  a2 = a2  i1 = i1  i2 = i2  c1 = c1  c2 = c2
  NoAgent = NoAgent  NoIssue = NoIssue
  Agents = {a1, a2}
  Issues = {i1}
  Callers = {c1, c2}
  MaxRuns = 2
  MaxRequests = 3
  MaxCrashes = 0
  MaxConcurrentRuns <- TwoSlots
  Priority <- SamePriority
  Blocks <- NoBlocks
  ApiAgents = {a1}
  TimeoutAgents = {a2}
  Kinds = {"wakeup", "edit", "status"}
  InitStatuses = {"in_progress"}
  EditStatuses = {"todo", "in_progress"}
  StatusRequests = {"terminated"}
  PriorityIsInteger = FALSE
  AdapterMayFail = TRUE
  DbMayFail = FALSE
SYMMETRY CallerSymmetry
CHECK_DEADLOCK FALSE
INVARIANTS
  LockHasReleaser
  TwinsOverlapped
PROPERTIES
  ForeignRunsKeepOut
