SPECIFICATION Spec
CONSTANTS
  Workers = {w1, w2}
  Users = {u1}
  Asked = {u1}
  Active = {"headline", "skills"}
  Contents = {c1}
  Blank = Blank
  TooLong = TooLong
  NoRow = NoRow
  None = None
  Empty = Empty
  Content = content
  Words = {x1, x2, x3}
  MaxSkills = 4
INVARIANTS
  CompletionMatches
