CONSTANTS
  watchBackoffMin = 1
  watchBackoffMax = 30
  MaxChanges = 2
  MaxInbox = 1
  MaxFailures = 6
  Debounce = 2
SPECIFICATION FairSpec
INVARIANTS
  RestartHasReason
  DebounceIsQuiet
  CoalescingIsExact
  BackoffSchedule
PROPERTIES
  CancelReturns
  SentLeadsToLock
CHECK_DEADLOCK FALSE
