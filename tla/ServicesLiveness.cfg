SPECIFICATION ServicesFairSpec
CONSTANTS
  c1 = c1  g1 = g1  g2 = g2  h1 = h1  h2 = h2  e1 = e1  e2 = e2  s1 = s1  s2 = s2
  x1 = x1  x2 = x2  q1 = q1  q2 = q2  f1 = f1  d1 = d1  o1 = o1  o2 = o2
  o3 = o3  k1 = k1  r1 = r1  r2 = r2  j1 = j1  j2 = j2  w1 = w1  w2 = w2
  v1 = v1  v2 = v2  p1 = p1  p2 = p2  u1 = u1  u2 = u2  u3 = u3  t1 = t1  t2 = t2
  n1 = n1  n2 = n2  i0 = i0  i1 = i1  b1 = b1  b2 = b2  a1 = a1  a2 = a2
  None = None  NoDraft = NoDraft  NoSlot = NoSlot  Nothing = Nothing  NoDoc = NoDoc  Nil = Nil
  NoTrigger = NoTrigger  NoReview = NoReview  NoPrint = NoPrint

  \* status cards
  Cards = {c1}  Generations = {g1}  Handlers = {h1}  Executions = {e1, e2}
  Policies = {"reactive"}  MaxRequests = 1  MaxDrops = 0  MaxWorld = 0  MaxClock = 1
  FirstDue = 0  FirstSeen = 0  Refreshing = {h1}  ClaimWindow = 1  EvalDelay = 2  Debounce = 0
  \* summary slots
  Slots = {s1}  Drafts = {x1, x2}  Requests = {q1, q2}  Finalizers = {f1}  MaxCalls = 2
  \* decisions
  Decisions = {d1}  Options = {o1, o2, o3}  EffectCount <- OneSkipOneTwo  Keys = {k1}
  Askers = {r1, r2}  OpenCap = 1  MaxAsks = 3  MaxFailures = 0
  \* triggers
  Triggers = {t1, t2}  Broken = {t2}  Scans = {n1}  CronStep = 2  MaxCatchUp = 1
  MaxTime = 4  MaxEdits = 2  MaxCrashes = 0
  \* the parts without a liveness property stay at rest
  DocKeys = {j1}  Documents = {w1}  Writers = {v1}  MaxWrites = 0  UniqueNumbers = TRUE
  Workers = {p1}  Processes = {u1}  Clients = {a1}  MaxUses = 0
  Issues = {i0}  Watched = i0  Reviews = {b1}  Evaluations = {a2}
  MaxMoves = 0  MaxEvaluations = 0

CHECK_DEADLOCK FALSE
INVARIANTS ScanExclusive
PROPERTIES CardReleased SlotSettles EffectsClaimed DueClaimed
