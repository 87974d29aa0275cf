CONSTANTS
  a = a
  b = b
  Entry <- MCEntry
  Startup = startup
  Drain = {drain}
  Units = 2
  MAX_RETRIES = 1
  BestEffort = {TRUE, FALSE}
  QueuePolicy = {"required", "best_effort"}
  Reconciles = {TRUE, FALSE}
  Lagging = {TRUE, FALSE}
  MaxCrashes = 1
  MaxFaults = 1
SPECIFICATION MCSpec
INVARIANT QueueSafe
INVARIANT LiveSendNotRepeated
PROPERTY SettledIsFinal
PROPERTY Settles
CHECK_DEADLOCK FALSE
