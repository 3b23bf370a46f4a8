SPECIFICATION Spec
CONSTANTS
  Workers = {w1}
  Users = {u1}
  Keys = {k1, k2}
  Contents = {c1, nobytes, toolarge}
  Rejected = {toolarge}
  NoBytes = nobytes
  NoRow = NoRow
  NoFile = NoFile
  Partial = Partial
  None = None
INVARIANTS
  RowsHaveFiles
