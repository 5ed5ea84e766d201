SPECIFICATION HistorySpec
CONSTANTS
  a1 = a1  a2 = a2  a3 = a3  k1 = k1  k2 = k2  p1 = p1  c1 = c1  c2 = c2
  NoAgent = NoAgent  NoCompany = NoCompany  NoApproval = NoApproval
  Agents = {a1, a2, a3}
  Companies = {k1, k2}
  Approvals = {p1}
  Callers = {c1, c2}
  MaxRequests = 4
  WalkLimit = 3
  ReadsMayFail = TRUE
SYMMETRY RegistrySymmetry
CHECK_DEADLOCK FALSE
INVARIANTS
  TypeOK
  WalkedLinesAcyclic
  SameCompany
  UncontestedHiresOnce
PROPERTIES
  TerminatedStays
  DecisionsStand
