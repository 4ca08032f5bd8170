SPECIFICATION FairSpec
CONSTANTS
  Conns = {n1, n2}
  c1 = c1
  Calls = {c1}
  FilterConfigs <- MCFilterConfigs
  Streams = {}
  MaxModules = 2
INVARIANTS
  TypeOK
  NoOrphans
  RequestFilterHonoured
  RejectedNotAnswered
PROPERTY DroppedCleaned
CHECK_DEADLOCK FALSE
