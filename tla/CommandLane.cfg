CONSTANTS
  a = a
  b = b
  c = c
  Entry <- MCEntry
  Lane = {"main"}
  Waiter = {w}
  Priority <- MCPriority
  Timeout = {"untimed", "fixed", "progress"}
  Signal = {"abort", "release"}
  Concurrency = {0, 1, 2}
  MaxGeneration = 1
SPECIFICATION MCSpec
INVARIANT LaneInv
PROPERTY AbortedSettles
PROPERTY LaneMovesOn
CHECK_DEADLOCK FALSE
