CONSTANTS
  c1 = c1
  k1 = k1
  n1 = n1
  p1 = p1
  p2 = p2
  Nothing = Nothing
  Chat <- MCChat
  SudoChat <- MCSudoChat
  Key <- MCKey
  Run <- MCRun
  Report <- MCReport
  Args <- MCArgs
  Name <- MCName
  Scope <- MCScope
  Caller <- MCCaller
  MaxConcurrent = 1
  MaxContinue = 1
SPECIFICATION AgentsSpec
INVARIANTS AgentsTypeOK NamesLive
PROPERTY StartsEnd
CHECK_DEADLOCK FALSE
