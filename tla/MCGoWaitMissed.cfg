CONSTANTS
  watchBackoffMin = 1
  watchBackoffMax = 2
  MaxChanges = 2
  MaxInbox = 1
  MaxFailures = 1
  Debounce = 2
SPECIFICATION FairSpec
PROPERTIES
  NextChangeIsSeen
CHECK_DEADLOCK FALSE
