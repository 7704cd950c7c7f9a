CONSTANTS
  a = a
  b = b
  c3 = c3
  Replicas <- Three
  MaxDelay = 1
  Fleets <- MCFleets
SPECIFICATION FairSpec
INVARIANTS
  HeldIsNotExpired
  ExclusiveUnlessBroken
PROPERTIES
  EveryoneRestarts
  NobodyIsStuck
CHECK_DEADLOCK FALSE
