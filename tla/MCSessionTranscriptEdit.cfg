SPECIFICATION Spec
CONSTANTS
  MaxRevision = 4
  MaxOpens = 1
  MaxFaults = 0
  MaxRewinds = 1
  MaxPatches = 0
  Intrusions = {}
  MaxEdits = 1
INVARIANT
  ForeignEditSurvives
CHECK_DEADLOCK FALSE
