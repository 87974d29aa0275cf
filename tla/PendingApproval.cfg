SPECIFICATION MCSpec
CONSTANTS
  None = None
  x1 = x1
  x2 = x2
  q = q
  o1 = o1
  o2 = o2
  w1 = w1
  w2 = w2
  idX = idX
  idQ = idQ
  Request <- MCRequest
  Id = {idX, idQ}
  IdOf <- MCIdOf
  Plugin = {q}
  TwoPhase = {x1, q}
  Runtime = {q}
  Suppressed = {x2}
  RouteOptional = {x1}
  Decisions = {"allow-once", "allow-always", "deny"}
  Allowed <- MCAllowed
  Operator <- MCOperator
  Waiter <- MCWaiter
  RuntimeWaiter = {w1}
  MaxRuns = 2
CHECK_DEADLOCK FALSE
INVARIANT ApprovalSafe
INVARIANT OneUse
PROPERTY FirstSettlementStands
PROPERTY Concludes
