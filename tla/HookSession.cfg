SPECIFICATION FairSpec
CONSTANTS
  Events = {e1, e2, e3, e4}
  Binary = {e1, e2}
  Unencodable = {e4}
  Answer = Answer
  Capacity = 2
INVARIANTS
  TypeOK
  AnswerKept
PROPERTIES
  ImplementsChannel
  SessionEnds
  WritersReturn
CHECK_DEADLOCK FALSE
