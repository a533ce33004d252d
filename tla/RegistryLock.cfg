CONSTANTS
  Clients = {alice, bob}
  Backends = {pr1}
  Default = master
  Room = 1
SPECIFICATION Spec
INVARIANT TypeOK
INVARIANT GuardOK
PROPERTY WriteServed
PROPERTY ReadServed
 
