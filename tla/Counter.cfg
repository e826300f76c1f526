\* Clients lock, unlock, count and write on one key; calls fail, servers crash.
SPECIFICATION Spec
CONSTANTS
  Bases = {"a", "zero"}
  ZeroKey = "zero"
  Depth = 2
  Items = {"x"}
  Fields = {}
  Half = 2
  Clients = {p1, p2, p3}
  Servers = {s1}
  Requests <- CounterRequests
  Disciplined = TRUE
  MaxLen = 0
  MaxFaults = 1
  MaxCrashes = 1
SYMMETRY Perms
INVARIANTS TypeOK MutualExclusion FreshRead
PROPERTIES LockedNotModified
