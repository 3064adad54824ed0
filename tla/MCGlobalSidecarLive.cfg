SPECIFICATION FairSpec
CONSTANTS
  Creators = {m, s}
  Monitor = m
  Stoppers = {}
  Updaters = {u}
  Exiters = {x}
  MaxGen = 2
  MaxRequests = 1
  MaxFaults = 1
PROPERTIES
  EveryCallReturns
  
CHECK_DEADLOCK FALSE
