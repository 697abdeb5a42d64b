SPECIFICATION LiveSpec
CONSTANTS
  Id = {i1}
  Article = {p1}
  Nick = {}
  Term = {}
  Request = {r1}
  None = None
  MaxChanges = 0
  Reader = {g1, g2}
  EdgeTtlSeconds = 2
  HandlingSeconds = 1
INVARIANTS
  ListTypeOK
  BoundedStaleness
  StaleOnlyIfExcused
PROPERTY DeletedLeaves
