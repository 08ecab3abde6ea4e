CONSTANTS
  None = None
  Msg = {m1}
  Nudge = Nudge
  Cid <- MCFewerCid
  Session <- MCFewerCid
  MaxEvents = 1
  MaxContinue = 1
  MaxMishaps = 0
  Transcripts = {"dead"}
SPECIFICATION Spec
INVARIANTS
  SavedHeals
CHECK_DEADLOCK FALSE
