SPECIFICATION Spec
CONSTANTS
  TabOwners = {t}
  AgentOwners = {}
  ReplyOwners = {}
  Background = b
  NoOwner = none
  MaxGen = 2
  MaxLeases = 1
  MaxFaults = 1
  MaxAttempts = 2
INVARIANTS
  UnlinkAfterExit
