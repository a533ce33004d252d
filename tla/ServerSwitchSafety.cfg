CONSTANTS
  Players = {u1, u2}
  Sessions = {s1, s2}
  Servers = {d, x}
  Default = d
  None = None
SPECIFICATION Spec
SYMMETRY Symmetry
INVARIANT TypeOK
INVARIANT PromiseKept
INVARIANT SwitchInv
PROPERTY ImplementsSwitchboard
