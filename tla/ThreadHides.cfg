SPECIFICATION Spec
CONSTANTS
  Id = {i1, i2, i3}
  Article = {p1}
  Nick = {}
  Term = {}
  Request = {r1}
  None = None
  MaxChanges = 0
SYMMETRY Symmetry
PROPERTY ThreadHides
