SPECIFICATION Spec
CONSTANTS
  Tasks = {t1, t2}
  Stalled = {}
INVARIANT TrueMeansReached
CHECK_DEADLOCK FALSE
