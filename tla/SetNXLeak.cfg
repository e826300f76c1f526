\* SetNX on an existing key leaves it locked.
SPECIFICATION Spec
CONSTANTS
  Bases = {"a", "zero"}
  ZeroKey = "zero"
  Depth = 2
  Items = {"x"}
  Fields = {}
  Half = 2
  Clients = {p1, p2}
  Servers = {s1}
  Requests <- SetNXRequests
  Disciplined = TRUE
  MaxLen = 2
  MaxFaults = 0
  MaxCrashes = 0
SYMMETRY Perms
INVARIANTS NoOrphanLock
