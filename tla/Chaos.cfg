\* Clients without restraint, also on lock names and on the key that is a zero byte.
SPECIFICATION Spec
CONSTANTS
  Bases = {"a", "zero"}
  ZeroKey = "zero"
  Depth = 3
  Items = {"x"}
  Fields = {}
  Half = 2
  Clients = {p1, p2}
  Servers = {s1}
  Requests <- ChaosRequests
  Disciplined = FALSE
  MaxLen = 0
  MaxFaults = 0
  MaxCrashes = 0
SYMMETRY Perms
INVARIANTS SentinelClear
