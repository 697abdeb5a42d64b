SPECIFICATION Spec
CONSTANTS
  Poll = {p1, p2}
  Option = {o1}
  Challenge = {c1, c2, c3}
  Token = {t1, t2}
  Browser = {b1}
  Widget = {w1, w2, w3}
  Request = {r1}
  None = None
  MaxPatches = 0
SYMMETRY Symmetry
INVARIANT ReturningCannotVoteTwice
CHECK_DEADLOCK FALSE
