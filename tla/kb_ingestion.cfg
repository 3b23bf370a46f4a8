SPECIFICATION FairSpec
CONSTANTS
  Runs = {r1, r2}
  c1 = c1
  c2 = c2
  Files <- MCFiles
  Chunks = {c1, c2}
  Editions <- MCEditions
  MaxEdits = 1
  NoRow = NoRow
  Missing = Missing
  None = None
  Lengths = {0, 1, 2, 9}
  TitleLengths = {0, 1}
  MaxChars = 7
  MaxLines = 5
INVARIANTS
  TypeOK
  DeadlockNeedsEdit
  ChunksPartition
PROPERTIES
  ImplementsKnowledgeBase
  RunsEnd
CHECK_DEADLOCK FALSE
