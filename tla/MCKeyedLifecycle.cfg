SPECIFICATION FairSpec
CONSTANTS
  Callers = {p, q, r}
  Keys = {1, 2}
  Objects = {1, 2}
INVARIANTS
  MutualExclusion
PROPERTIES
  EveryoneServed
