CONSTANTS
  w = w
  Caller = w
  Consumers <- MCConsumers
  backoffMin = 1
  backoffMax = 2
  MaxChanges = 2
  MaxInbox = 1
  Debounce = 2
  TrustDomain <- MCTrustDomain
  workloadDialBackoff <- MCBackoff
  Certificates <- MCCertificates
  SharedBundle = TRUE
SPECIFICATION FairSpec
INVARIANTS
  RetrySchedule
  ExitsAreExplained
  DebounceIsQuiet
  CoalescingIsExact
PROPERTIES
  SentLeadsToLock
  ShutdownEnds
CHECK_DEADLOCK FALSE
