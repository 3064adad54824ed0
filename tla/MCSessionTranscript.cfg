SPECIFICATION Spec
CONSTANTS
  MaxRevision = 4
  MaxOpens = 2
  MaxFaults = 1
  MaxRewinds = 1
  MaxPatches = 0
  Intrusions = {"empty", "row"}
  MaxEdits = 0
INVARIANTS
  TypeOK
  SavedIsOnDisk
  RecoveryCoversTheGap
  BlockedForCause
  BindingFollowsHistory
  ForeignRowIsKept
PROPERTIES
  HistoryPromise
CHECK_DEADLOCK FALSE
