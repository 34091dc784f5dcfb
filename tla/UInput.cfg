CONSTANTS
  Ids = {1}
  Uploads <- EffectsToUpload
  MaxQueue = 3
  MaxCreates = 2
SPECIFICATION UInputSpec
INVARIANTS
  EffectsKnown
PROPERTIES
  RequestAnswered
  DestroyReturns
CHECK_DEADLOCK FALSE
