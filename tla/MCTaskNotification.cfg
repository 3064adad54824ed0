SPECIFICATION Spec
CONSTANTS
  d1 = d1
  d2 = d2
  s1 = s1
  s2 = s2
  Deliveries = {d1}
  Sessions = {s1, s2}
  NoSession = none
  ExecutionSession <- MCExecutionSession
  Legacy = {"Partial"}
  MaxPending = 2
  MaxRetained = 1
  MaxAttempts = 3
  MaxRequests = 2
  MaxFaults = 1
INVARIANTS
  OncePerRequest
  HandedOffWasDispatched
PROPERTIES
  SettledStaysSettled
  PromiseSpec
