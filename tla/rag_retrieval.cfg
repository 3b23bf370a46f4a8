SPECIFICATION FairSpec
CONSTANTS
  Threads = {t1, t2}
  Providers = {p1, p2}
  MaxResets = 1
  None = None
  c1 = c1
  c2 = c2
  c3 = c3
  Files <- MCFiles
  Chunks = {c1, c2, c3}
  Readings <- MCReadings
  NoRow = NoRow
  Missing = Missing
  Category <- MCCategory
  Lead <- MCLead
  Similarities <- MCSimilarities
  Ks = {None, 1}
  RagTopK = 5
  Floor = 2
  EfSearch = 2
  MaxIngests = 2
INVARIANTS
  TypeOK
  OneProviderOneModel
  CitationsResolve
  NearestAboveFloor
PROPERTIES
  RetrievalsEnd
