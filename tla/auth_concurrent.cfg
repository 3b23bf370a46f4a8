SPECIFICATION Spec
CONSTANTS
  Workers = {w1, w2}
  alice = alice
  bob = bob
  pw = pw
  other = other
  short = short
  Addresses <- MCOneAddress
  Emails = {alice}
  Lower <- MCOneLower
  Passwords = {pw}
  ShortPasswords = {}
  Tokens = {t1, t2, t3, t4}
  Ttl = 1
  MaxTime = 1
  NoRow = NoRow
  None = None
SYMMETRY WorkerAndTokenSymmetry
INVARIANTS
  TypeOK
  RotationConsistent
  DeliveredArePersisted
  SiblingsBounded
PROPERTIES
  TokensOnlyAge
  ImplementsLedger
