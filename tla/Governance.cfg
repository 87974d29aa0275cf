SPECIFICATION GovernanceSpec
CONSTANTS
  Tools <- MCTools
  Control = "complete_step"
  Carrier = "invoke_action"
  Floor = {"message"}
  Ops = {"op1", "op2"}
  Actions = {"pay", "note"}
  Covers <- MCCovers
  Calls <- MCCalls
  Foundations = {"f1", "f2"}
  Nodes = {"n1", "n2"}
  Root = "n1"
  Steps <- MCSteps
  Plans <- MCPlans
  Policies <- MCPolicies
  MaxPolicies = 2
  None = None
CHECK_DEADLOCK FALSE
INVARIANT VerdictIsStrictest
INVARIANT OmissionFailsClosed
INVARIANT UnnamedActionWaits
