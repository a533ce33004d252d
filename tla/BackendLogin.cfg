CONSTANTS
  Requests <- MCRequests
  Sizes <- MCSizes
  MaxData = 3
SPECIFICATION Spec
INVARIANT TypeOK
INVARIANT FramesAgree
INVARIANT OnlyZeroGarbles
PROPERTY LoginEnds
CHECK_DEADLOCK FALSE
