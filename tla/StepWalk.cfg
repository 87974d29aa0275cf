CONSTANTS
  Node <- MCNode
  Route <- MCRoute
  Carryable <- MCCarryable
  MaxReopens = 3
  LossyKinds = {"run.resumed", "node.entered", "node.completed", "node.reopened"}
SPECIFICATION Spec
INVARIANT IInv
INVARIANT ResumeNeverSkips
PROPERTY WalkSettles
PROPERTY ImplementsProgress
CHECK_DEADLOCK FALSE
