CONSTANTS
  Capacity = 1
  Buffer = 1
  Ring = 1
  MaxSent <- EndsMaxSent
  MaxPosted = 2
SPECIFICATION Spec
CHECK_DEADLOCK FALSE
INVARIANT BroadcastsAreReadable
