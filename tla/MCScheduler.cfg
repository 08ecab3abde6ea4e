CONSTANTS
  t1 = t1
  t2 = t2
  Task <- MCTask
  None = None
  Period = 2
  MaxTime = 5
  MaxCrashes = 1
SPECIFICATION Spec
INVARIANTS
  TypeOK
  FiredOnce
PROPERTY
  OnceSettles
CHECK_DEADLOCK FALSE
