SPECIFICATION CardsSpec
CONSTANTS
  None = None
  Cards = {c1}
  Generations = {g1, g2}
  Handlers = {h1}
  Executions = {e1}
  Policies = {"interval"}
  MaxRequests = 3
  MaxDrops = 0
  MaxWorld = 0
  MaxClock = 2
  ClaimWindow = 2
  EvalDelay = 2
  Debounce = 1
CHECK_DEADLOCK FALSE
INVARIANTS
  GenerationsWoken
