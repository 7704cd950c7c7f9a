CONSTANTS
  r1 = r1
  r2 = r2
  Releasers <- MCReleasers
  MaxInbox = 2
  MaxInFlight = 2
SPECIFICATION FairSpec
INVARIANTS
  CleanReleaseNeverLost
  ReleaseEndsStream
PROPERTIES
  HeartbeatLoopStops
  FailureLeavesNothing
  ImplementsContract
  ImplementsContractFairness
CHECK_DEADLOCK FALSE
