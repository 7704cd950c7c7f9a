CONSTANTS
  Releasers = {r1, r2}
  Capacity = 2
  MaxInbox = 2
  MaxInFlight = 2
SPECIFICATION FairSpec
PROPERTIES
  ImplementsContract
  ImplementsContractFairness
  FailureLeavesNothing
CHECK_DEADLOCK FALSE
