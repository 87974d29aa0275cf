CONSTANTS
  Turn <- MCTurn
  RunId <- MCRunId
  Session = {s1, s2, s3}
  Lane = {"main"}
  NoTurn = "no-turn"
  NoRun = "no-run"
  NoSession = "no-session"
  runOf <- MCRunOf
  laneOf <- MCLaneOf
  Managed = {"t3"}
  Watchdogged = {"t1", "t3"}
SPECIFICATION FairSpec
INVARIANT IInv
INVARIANT MediationMatchesTurn
PROPERTY OpenRowIsClosed
CHECK_DEADLOCK FALSE
