\* One stream with overlapping watches, one of a prefix that has no end, that
\* come and go while keys change.
SPECIFICATION FairSpec
CONSTANTS
  Streams = {s1}
  Top = 2
  Star = 1
  Keys <- MCKeys
  Names <- MCNames
  Extends <- MCExtends
  NoEnd <- MCNoEnd
  EtcdRange <- MCEtcdRange
  Asks <- OverlapAsks
  Polite = TRUE
  MaxChanges = 2
  MaxAsks = 3
INVARIANTS TypeOK NoGap NoStray WatchingAsAsked InOrder
PROPERTIES Notified Released
CHECK_DEADLOCK FALSE
