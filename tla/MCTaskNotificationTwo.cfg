SPECIFICATION FairSpec
CONSTANTS
  d1 = d1
  d2 = d2
  s1 = s1
  s2 = s2
  Deliveries = {d1, d2}
  Sessions = {s1}
  NoSession = none
  ExecutionSession <- MCExecutionSession
  Legacy = {}
  MaxPending = 1
  MaxRetained = 1
  MaxAttempts = 2
  MaxRequests = 1
  MaxFaults = 1
INVARIANT
  NothingPendingIsLost
PROPERTIES
  CancelIsFinal
  ClaimSettles
CHECK_DEADLOCK FALSE
