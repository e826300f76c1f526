\* SetExpire on an existing key.
SPECIFICATION Spec
CONSTANTS
  Bases = {"a", "zero"}
  ZeroKey = "zero"
  Depth = 2
  Items = {"x"}
  Fields = {}
  Half = 2
  Clients = {p1, p2}
  Servers = {s1}
  Requests <- ExpireRequests
  Disciplined = TRUE
  MaxLen = 2
  MaxFaults = 0
  MaxCrashes = 0
SYMMETRY Perms
PROPERTIES ExpireKeepsValue
