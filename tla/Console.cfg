SPECIFICATION Spec
CONSTANTS
  Tab = {t1, t2}
  Call = {j1, j2}
  Key = {k1, k2}
  State = {s1}
  Comment = {c1, c2}
  Poll = {q1}
  Slot = {l1, l2}
  Value = {v1, v2}
  None = None
  SessionTtl = 2
  OAuthTtl = 1
  MaxId = 3
  Plans <- MCPlans
SYMMETRY Symmetry
INVARIANTS
  ConsoleTypeOK
  ConsoleKnowsItsSession
  StartSignsInOnce
  ViewsMatch
PROPERTIES
  HitsWhatWasShown
CHECK_DEADLOCK FALSE
