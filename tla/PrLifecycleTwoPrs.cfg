CONSTANTS
  PRs = {p1, p2}
  Commits = {c1}
  Ports = {n1, n2}
  Clients = {u1}
  None = None
SPECIFICATION Spec
SYMMETRY Symmetry
INVARIANT TypeOK
INVARIANT RoutesToOwnService
INVARIANT NoOrphan
INVARIANT IInv
PROPERTY ImplementsContract
