CONSTANTS
  r1 = r1
  r2 = r2
  Releasers <- MCReleasers
  MaxInbox = 2
  MaxInFlight = 2
SPECIFICATION FairSpec
INVARIANTS
  ReleaseEndsStream
  NoTimerOnceReleased
PROPERTIES
  FailureLeavesNothing
  ImplementsContract
  ImplementsContractFairness
CHECK_DEADLOCK FALSE
