\* One socket, over the whole life of the server, beside one direct call.
SPECIFICATION FairSpec
CONSTANTS
  Calls = {c1}
  Sockets = {s1}
  MaxMessages = 2
  MaxEvents = 2
INVARIANTS TypeOK EtcdWhileCalled ClosedForGood  EventsInOrder LastWord ErrorsHaveCause
PROPERTIES Unwinds Arrives CloseReturns
CHECK_DEADLOCK FALSE
