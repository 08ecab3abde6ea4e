CONSTANTS
  a1 = a1
  a2 = a2
  p1 = p1
  p2 = p2
  p3 = p3
  Agent <- MCAgent
  Proc <- MCProc
  Port <- MCPort
  None = None
SPECIFICATION Spec
INVARIANTS
  TypeOK
  OwnAnswers
  NoPortLost
PROPERTIES
  DeadFound
CHECK_DEADLOCK FALSE
