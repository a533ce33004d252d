CONSTANTS
  PRs = {p1}
  Commits = {c1, c2}
  Ports = {n1}
  Clients = {u1, u2}
  None = None
SPECIFICATION Spec
INVARIANT SkipOnlyBuilt
