SPECIFICATION FairSpec
CONSTANTS
  p1 = p1
  p2 = p2
  NoFile = NoFile
  NoProc = NoProc
  Procs <- MCProcs
  Supervised <- MCSupervised
  MaxDeaths = 2
  MaxFailures = 2
  MaxRequests = 3
INVARIANT IInv
PROPERTY SomeoneServes
PROPERTY WaitingRestartRuns
CHECK_DEADLOCK FALSE
