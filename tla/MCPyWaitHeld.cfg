CONSTANTS
  waiter = waiter
  Closers = {waiter}
  backoffMin = 1
  backoffMax = 2
  MaxChanges = 2
  MaxInbox = 1
  Debounce = 2
SPECIFICATION FairSpec
PROPERTIES
  ReturnsOnceHeld
CHECK_DEADLOCK FALSE
