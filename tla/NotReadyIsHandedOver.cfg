CONSTANTS
  PRs = {p1}
  Commits = {c1}
  Ports = {n1}
  Clients = {u1}
  None = None
SPECIFICATION Spec
PROPERTY NotReadyIsHandedOver
