SPECIFICATION Spec
CONSTANTS
  p1 = p1
  p2 = p2
  v = v
  Calls = {p1, p2, v}
  Handler <- MCHandler
  Outputs = 1
  MaxVersion = 2
INVARIANT PublishedWithMetadata
CHECK_DEADLOCK FALSE
