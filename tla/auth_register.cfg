SPECIFICATION FairSpec
CONSTANTS
  Workers = {w1, w2}
  alice = alice
  bob = bob
  pw = pw
  other = other
  short = short
  Addresses <- MCAddresses
  Emails = {alice, bob}
  Lower <- MCLower
  Passwords = {pw, other, short}
  ShortPasswords = {short}
  Tokens = {t1}
  Ttl = 1
  MaxTime = 1
  NoRow = NoRow
  None = None
PROPERTIES
  FirstRegistrationWins
  RequestsEnd
