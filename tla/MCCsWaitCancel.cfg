CONSTANTS
  WatchBackoffMin = 1
  WatchBackoffMax = 2
  MaxChanges = 2
  MaxInbox = 1
  Debounce = 2
SPECIFICATION FairSpec
PROPERTIES
  CancelThrowsCanceled
CHECK_DEADLOCK FALSE
