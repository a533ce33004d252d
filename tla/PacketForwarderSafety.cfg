CONSTANTS
  Capacity = 1
  Buffer = 1
  Ring = 1
  MaxSent <- SafetyMaxSent
  MaxPosted = 2
SPECIFICATION Spec
INVARIANT TypeOK
INVARIANT ProtocolTracked
INVARIANT OnlyBroadcastsConfuse
INVARIANT CommandsAreServed
INVARIANT ProtocolInv
PROPERTY ImplementsRelay
CHECK_DEADLOCK FALSE
