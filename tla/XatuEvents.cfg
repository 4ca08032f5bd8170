SPECIFICATION FairSpec
CONSTANTS
  p1 = p1
  p2 = p2
  v = v
  Calls = {p1, p2, v}
  Handler <- MCHandler
  Outputs = 2
  MaxVersion = 2
INVARIANTS TypeOK OneEventPerCall RunningSinksOnly FreshPendingKept StopWaits
CHECK_DEADLOCK FALSE
PROPERTIES MetadataFresh ShutdownEnds
