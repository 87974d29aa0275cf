CONSTANTS
  Exec = {e1, e2, e3}
  Proc = {"gateway", "local"}
  Gateway = "gateway"
  Agent = {"main"}
  Node = {"plan", "do", "r", "a", "b"}
  Route <- MCRoutes
  treeOf <- MCTreeOf
  NoExec = "no-exec"
  StartTimeKnown = TRUE
  Outcome = {"completed"}
  Lossy = {"start", "resumed", "completed", "reopened", "adopt", "ended", "finalize", "sweep"}
  MaxReopens = 1
  MaxClock = 3
  MaxStarts = 2
  MaxSession = 2
SPECIFICATION MCSpec
SYMMETRY ExecSymmetry
INVARIANT IInv
INVARIANT NextRequestOnly
INVARIANT ConversationSawSteps
INVARIANT ChainSound
CHECK_DEADLOCK FALSE
