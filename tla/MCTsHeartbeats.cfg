CONSTANTS
  r1 = r1
  r2 = r2
  Releasers <- MCReleasers
  MaxInbox = 2
  MaxInFlight = 1
SPECIFICATION FairSpec
PROPERTIES
  HeartbeatsStopAsDocumented
CHECK_DEADLOCK FALSE
