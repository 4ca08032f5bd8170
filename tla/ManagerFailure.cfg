SPECIFICATION Spec
CONSTANTS
  Conns = {n1, n2}
  c1 = c1
  Calls = {c1}
  FilterConfigs <- MCFilterConfigs
  Streams = {c1}
  MaxModules = 2
CHECK_DEADLOCK FALSE
INVARIANT FailureIsolated
