SPECIFICATION Spec
CONSTANTS
  Calls = {c1}
  c1 = c1
  Streams = {}
  Plain = {c1}
  Events = {}
  Stalled = {}
INVARIANT RequestLogsFirst
CHECK_DEADLOCK FALSE
