SPECIFICATION Spec
CONSTANTS
  Id = {i1, i2}
  Article = {p1, p2}
  Nick = {n1}
  Term = {t1}
  Request = {r1, r2}
  None = None
  MaxChanges = 3
SYMMETRY Symmetry
CONSTRAINT Bounds
INVARIANTS
  TypeOK
  OneArticlePerThread
PROPERTIES
  ListChangeOwesPurge
  StoredWasJustified
