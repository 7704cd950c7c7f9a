CONSTANTS
  waiter = waiter
  BackoffMin = 1
  BackoffMax = 2
  MaxChanges = 2
  MaxInbox = 1
  Debounce = 2
SPECIFICATION FairSpec
PROPERTIES
  DebounceIsQuiet
  SentLeadsToLock
  StopIsHeard
CHECK_DEADLOCK FALSE
