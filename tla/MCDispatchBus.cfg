CONSTANTS
  None = None
  Msg = {m1, m2}
  Nudge = Nudge
  Cid <- MCCid
  Session <- MCCid
  MaxEvents = 1
  MaxContinue = 0
  MaxMishaps = 1
  Transcripts = {"none", "good"}
SPECIFICATION Spec
INVARIANTS
  TypeOK
  NoCallerForgotten
  HeldHasCarrier
PROPERTIES
  Settles
  HeldResumed
CHECK_DEADLOCK FALSE
