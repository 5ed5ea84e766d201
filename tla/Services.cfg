SPECIFICATION ServicesSpec
CONSTANTS
  c1 = c1  g1 = g1  g2 = g2  h1 = h1  h2 = h2  e1 = e1  e2 = e2  s1 = s1  s2 = s2
  x1 = x1  x2 = x2  q1 = q1  q2 = q2  f1 = f1  d1 = d1  o1 = o1  o2 = o2
  o3 = o3  k1 = k1  r1 = r1  r2 = r2  j1 = j1  j2 = j2  w1 = w1  w2 = w2
  v1 = v1  v2 = v2  p1 = p1  p2 = p2  u1 = u1  u2 = u2  u3 = u3  t1 = t1  t2 = t2
  n1 = n1  n2 = n2  i0 = i0  i1 = i1  b1 = b1  b2 = b2  a1 = a1  a2 = a2
  None = None  NoDraft = NoDraft  NoSlot = NoSlot  Nothing = Nothing  NoDoc = NoDoc  Nil = Nil
  NoTrigger = NoTrigger  NoReview = NoReview  NoPrint = NoPrint

  \* status cards
  Cards = {c1}  Generations = {g1, g2}  Handlers = {h1, h2}  Executions = {e1}
  Policies = {"interval"}  MaxRequests = 2  MaxDrops = 1  MaxWorld = 1  MaxClock = 0
  FirstDue = 0  FirstSeen <- Never  Refreshing = {}  ClaimWindow = 2  EvalDelay = 2  Debounce = 1
  \* summary slots
  Slots = {s1, s2}  Drafts = {x1, x2}  Requests = {q1, q2}  Finalizers = {f1}  MaxCalls = 3
  \* decisions
  Decisions = {d1}  Options = {o1, o2, o3}  EffectCount <- OneSkipOneTwo  Keys = {k1}
  Askers = {r1, r2}  OpenCap = 1  MaxAsks = 3  MaxFailures = 1
  \* documents
  DocKeys = {j1}  Documents = {w1, w2}  Writers = {v1, v2}  MaxWrites = 5  UniqueNumbers = TRUE
  \* plugin workers
  Workers = {p1, p2}  Processes = {u1, u2, u3}  Clients = {a1, a2}  MaxUses = 3
  \* triggers
  Triggers = {t1}  Broken = {}  Scans = {n1, n2}  CronStep = 1  MaxCatchUp = 2
  MaxTime = 4  MaxEdits = 2  MaxCrashes = 1
  \* watchdog
  Issues = {i0, i1}  Watched = i0  Reviews = {b1, b2}  Evaluations = {e2}
  MaxMoves = 5  MaxEvaluations = 2

SYMMETRY CardsSymmetry
CHECK_DEADLOCK FALSE
INVARIANTS TypeOK FailedHasEnded WritesOneSlot OneOutcome NoEditLost RevisionsInOrder ChildKept TicksRunOnce StableTreeSound ReviewedHasIssue
PROPERTIES CardSlotSpec ChoiceSpec
