SPECIFICATION FairSpec
CONSTANTS
  Runs = {r1, r2, r3}
  x1 = x1
  x2 = x2
  x3 = x3
  x4 = x4
  Refs = {x1, x2, x3, x4}
  Records <- MCRecords
  Batch = 2
INVARIANTS
  TypeOK
  SeededAtOnce
  RefusedOnlyByOverlap
PROPERTIES
  RunsEnd
CHECK_DEADLOCK FALSE
