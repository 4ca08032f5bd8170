SPECIFICATION FairSpec
CONSTANTS
  Tasks = {t1, t2, t3, t4}
  Stalled = {t1, t2}
INVARIANTS
  TypeOK
  TurnOrder
  NoLostWakeup
  NoDoubleClose
  FrontierNotPastHeld
PROPERTIES
  EveryoneCompletes
  OthersComplete
  ImplementsTurnQueue
CHECK_DEADLOCK FALSE
