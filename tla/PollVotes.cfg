SPECIFICATION Spec
CONSTANTS
  Poll = {p1}
  Option = {o1, o2}
  Challenge = {c1, c2, c3}
  Token = {t1, t2}
  Browser = {b1, b2}
  Widget = {w1, w2}
  Request = {r1, r2}
  None = None
  MaxPatches = 1
SYMMETRY Symmetry
CONSTRAINT Bounds
INVARIANTS
  PollTypeOK
  WholeBallots
PROPERTIES
  OwnBallotsOnly
  ImplementsBallotBox
CHECK_DEADLOCK FALSE
