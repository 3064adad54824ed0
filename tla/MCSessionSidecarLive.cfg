SPECIFICATION FairSpec
CONSTANTS
  TabOwners = {t}
  AgentOwners = {a}
  ReplyOwners = {}
  Background = b
  NoOwner = none
  MaxGen = 2
  MaxLeases = 1
  MaxFaults = 1
  MaxAttempts = 2
PROPERTIES
  FenceReleased
  OwnedEventuallyServed
  RetirementFinishes
  BackgroundSettles
