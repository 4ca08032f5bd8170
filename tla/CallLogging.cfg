SPECIFICATION FairSpec
CONSTANTS
  Calls = {c1}
  c1 = c1
  Streams = {c1}
  Plain = {c1}
  Events = {e1, e2}
  Stalled <- MCStalled
INVARIANTS
  DataRaceNeedsLate
  ResponseAfterRequest
  DurationBeforeResponse
PROPERTIES
  ImplementsCallLogging
  EveryResponseLogged
  HandlersReturn
CHECK_DEADLOCK FALSE
