CONSTANTS
  Players = {u1}
  Sessions = {s1, s2}
  Servers = {d, x}
  Default = d
  None = None
SPECIFICATION Spec
PROPERTY Released
