CONSTANTS
  PRs = {p1}
  Commits = {c1, c2}
  Ports = {n1, n2}
  Clients = {u1, u2}
  None = None
SPECIFICATION Spec
INVARIANT SnapshotIsCurrent
INVARIANT BackendMatchesReady
INVARIANT DeploysBuiltImage
INVARIANT RowHasImage
PROPERTY LifecycleOrder
PROPERTY ImplementsContract
PROPERTY AutoShutdown
PROPERTY InstanceDrains
