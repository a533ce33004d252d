CONSTANTS
  Requests <- MCRequests
  Sizes <- MCSizes
  MaxData = 2
SPECIFICATION Spec
INVARIANT CompressionAsRequested
CHECK_DEADLOCK FALSE
