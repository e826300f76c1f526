\* Every request is answered, and handlers that always unlock leave no lock behind.
SPECIFICATION FairSpec
CONSTANTS
  Bases = {"a", "b", "zero"}
  ZeroKey = "zero"
  Depth = 2
  Items = {"x"}
  Fields = {"f"}
  Half = 2
  Clients = {p1, p2}
  Servers = {s1}
  Requests <- WaitingRequests
  Disciplined = TRUE
  MaxLen = 1
  MaxFaults = 0
  MaxCrashes = 0
INVARIANTS NoOrphanLock
PROPERTIES Answered
