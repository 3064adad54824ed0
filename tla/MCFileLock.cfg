SPECIFICATION FairSpec
CONSTANTS
  c1 = c1
  c2 = c2
  c3 = c3
  p1 = p1
  p2 = p2
  Callers = {c1, c2, c3}
  Processes = {p1, p2}
  Home <- MCHome
  MaxLocks = 3
  MaxCrashes = 1
  MaxFaults = 1

  
PROPERTIES
  OrphanIsReclaimed
CHECK_DEADLOCK FALSE
