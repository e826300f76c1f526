\* A list as a queue and as an array, against the atomic store.
SPECIFICATION Spec
CONSTANTS
  Bases = {"a", "zero"}
  ZeroKey = "zero"
  Depth = 2
  Items = {"x", "y"}
  Fields = {}
  Half = 4
  Clients = {p1, p2}
  Servers = {s1}
  Requests <- ListRequests
  Disciplined = TRUE
  MaxLen = 2
  MaxFaults = 1
  MaxCrashes = 1
SYMMETRY Perms
PROPERTIES ImplementsAtomicStore
