CONSTANTS
  None = None
  Cid <- MCCid
  Session = {s1}
  MaxEvents = 1
  MaxCrashes = 2
SPECIFICATION SessionSpec
INVARIANTS
  AnsweredOnce
PROPERTIES
  ReplyComes
  KeepsFeed
CHECK_DEADLOCK FALSE
