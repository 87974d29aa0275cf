SPECIFICATION RouteFairSpec
CONSTANTS
  Assist = Assist
  System = System
  Finance = Finance
  Support = Support
  Unknown = Unknown
  NoTree = NoTree
  WorkMaps <- MCWorkMaps
  Rank <- MCRank
  MaxNodes = 4
  Setups <- MCSetups
INVARIANT SelectionSound
PROPERTY NothingAskedTooLate
PROPERTY AlwaysConcludes
CHECK_DEADLOCK FALSE
