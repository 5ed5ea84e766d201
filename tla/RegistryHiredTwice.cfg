SPECIFICATION Spec
CONSTANTS
  Agents = {a1, a2}
  Companies = {k1}
  Approvals = {p1}
  Callers = {c1, c2}
  NoAgent = NoAgent  NoCompany = NoCompany  NoApproval = NoApproval
  MaxRequests = 3
  WalkLimit = 3
  ReadsMayFail = FALSE
CHECK_DEADLOCK FALSE
INVARIANTS
  OneHirePerApproval
