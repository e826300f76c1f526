\* Two watched keys and a connection that breaks.
SPECIFICATION FairSpec
CONSTANTS
  MayClose = FALSE
  Users = {"u1"}
  Readers = {}
  Keys = {"a", "b"}
  Asks <- TwoKeys
  Capacity = 1
  MaxConns = 3
  MaxBreaks = 1
  MaxAsks = 2
  MaxEvents = 0
PROPERTIES Reconnects
CHECK_DEADLOCK FALSE
