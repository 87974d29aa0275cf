CONSTANTS
  Call = {a}
  Node = {"n1", "n2"}
  Params = {"p", "q"}
  Policies <- MCPolicies
  Outward <- MCOutward
  MaxExecution = 2
SPECIFICATION Spec
INVARIANT IInv
PROPERTY ReleasedUnderOwnRun
PROPERTY ReleaseObeysPolicy
PROPERTY ReleaseAttested
CHECK_DEADLOCK FALSE
