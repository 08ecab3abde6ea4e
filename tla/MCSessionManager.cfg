CONSTANTS
  c1 = c1
  c2 = c2
  c3 = c3
  s1 = s1
  s2 = s2
  w1 = w1
  w2 = w2
  None = None
  Caller <- MCCaller
  SudoCaller <- MCSudoCaller
  Scope <- MCScope
  Worker <- MCWorker
  MaxConcurrent = 1
  MaxRestarts = 1
SPECIFICATION Spec
INVARIANTS
  TypeOK
  SlotLimit
  NoIdleSlot
  NoSlotLeak
  LiveSessionIntact
  OneLoopPerScope
PROPERTY
  WaiterServed
CHECK_DEADLOCK FALSE
