SPECIFICATION Spec
CONSTANTS
  Calls = {c1}
  MaxRetries = 1
  MaxDeltas = 1
  PoolSize = 1
  None = None
INVARIANTS
  EveryStreamIsLogged
CHECK_DEADLOCK FALSE
