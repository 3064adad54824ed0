SPECIFICATION Spec
CONSTANTS
  TabOwners = {t}
  AgentOwners = {}
  ReplyOwners = {r}
  Background = b
  NoOwner = none
  MaxGen = 3
  MaxLeases = 1
  MaxFaults = 1
  MaxAttempts = 2
INVARIANTS
  OneAdmitting
  NoStrandedOwner
  DeleteFencesManagerWriter
PROPERTIES
  OwnersConserved
  StaleDrainHarmless
  BgReleaseCurrent
  GateSpec
