SPECIFICATION ProcessingSpec
CONSTANTS
  Calls = {c1, c2}
  MaxRetries = 2
  MaxDeltas = 1
  PoolSize = 1
  None = None
  Uploads <- MCUploads
INVARIANTS
  ProcessingTypeOK
  RowTellsOutcome
  ConnectionsConserved
  AttemptsJustified
  HintAfterInvalid
  OutcomeTellsCause
PROPERTIES
  CallsEnd
CHECK_DEADLOCK FALSE
