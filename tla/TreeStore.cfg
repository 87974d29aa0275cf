SPECIFICATION FairSpec
CONSTANTS
  Defs = {d1, d2}
  Builtin = d1
  Editors = {e1, e2}
  Persistent = {e1}
  MaxSaves = 2
  MaxForeign = 1
  MaxRestarts = 1
  NoDef = NoDef
  Corrupt = Corrupt
  Unloaded = Unloaded
  Unseen = Unseen
  Idle = Idle
  d1 = d1
  d2 = d2
PROPERTY SavesWhatWasSeen
PROPERTY ImportsWhatWasReviewed
PROPERTY StaleSnapshotEnds
