\* One user of two keys, an event channel, a connection that breaks, Close.
SPECIFICATION Spec
CONSTANTS
  MayClose = TRUE
  Users = {"u1"}
  Readers = {"o1"}
  Keys = {"a", "b"}
  Asks <- Calls
  Capacity = 1
  MaxConns = 3
  MaxBreaks = 1
  MaxAsks = 2
  MaxEvents = 1
INVARIANTS TypeOK RewatchComplete NoSendOnClosed
CHECK_DEADLOCK FALSE
