\* Hashes, a float, SetNX and GetMany against the atomic store.
SPECIFICATION Spec
CONSTANTS
  Bases = {"a", "b", "zero"}
  ZeroKey = "zero"
  Depth = 2
  Items = {"x", "y"}
  Fields = {"f", "g"}
  Half = 2
  Clients = {p1, p2}
  Servers = {s1, s2}
  Requests <- HashRequests
  Disciplined = TRUE
  MaxLen = 2
  MaxFaults = 0
  MaxCrashes = 1
SYMMETRY Perms
PROPERTIES ImplementsAtomicStore
