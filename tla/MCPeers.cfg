CONSTANTS
  s1 = s1
  f1 = f1
  k1 = k1
  r1 = r1
  Session <- MCSession
  Fresh <- MCFresh
  Principal <- MCPrincipal
  Remote <- MCRemote
  Start = Start
  PreApproved = {}
  Earlier <- MCEarlier
  Reach <- MCReach
  HopLimit = 2
  RemoteHops = {2}
  MaxTurns = 1
  Any = Any
SPECIFICATION Spec
INVARIANTS
  TypeOK
  MarkIsQuestion
PROPERTIES
  PairsLive
CHECK_DEADLOCK FALSE
