SPECIFICATION Spec
CONSTANTS
  Creators = {m, s}
  Monitor = m
  Stoppers = {k}
  Updaters = {u}
  Exiters = {x}
  MaxGen = 2
  MaxRequests = 1
  MaxFaults = 1
INVARIANTS
  OneGlobal
  PortFileFresh
  StopSettles
  QuiescedMeansNoBirth
  FlagCoversShutdown
PROPERTIES
  GateContract
CHECK_DEADLOCK FALSE
