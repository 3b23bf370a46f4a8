SPECIFICATION FairSpec
CONSTANTS
  Workers = {w1, w2}
  Users = {u1, u2}
  Keys = {k1, k2, k3}
  Contents = {c1, nobytes, toolarge}
  Rejected = {toolarge}
  NoBytes = nobytes
  NoRow = NoRow
  NoFile = NoFile
  Partial = Partial
  None = None
INVARIANTS
  TypeOK
  StoredOnce
  DeletedIsGone
PROPERTIES
  ImplementsLibrary
  RequestsEnd
