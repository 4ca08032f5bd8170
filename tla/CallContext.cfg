SPECIFICATION FairSpec
CONSTANT Capacity = 5
INVARIANT TypeOK
PROPERTIES
  DoneReturns
  QuietCallEnds
  WatcherEnds
  WatcherClosesBody
CHECK_DEADLOCK FALSE
