SPECIFICATION FairSpec
CONSTANTS
  MaxRevision = 4
  MaxOpens = 1
  MaxFaults = 2
  MaxRewinds = 1
  MaxPatches = 1
  Intrusions = {}
  MaxEdits = 1
INVARIANTS
  QuietMeansPublished
  UnsavedIsScheduled
PROPERTIES
  SavingCatchesUp
CHECK_DEADLOCK FALSE
