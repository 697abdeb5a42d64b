SPECIFICATION Spec
CONSTANTS
  Comment = {c1}
  Job = {j1, j2}
  None = None
  Page = {p1, p2}
  Second = 2
  Gate = 1
  Margin = 1
  MinInterval = 1
  Plans <- MCPlans
  MaxEdits = 1
SYMMETRY Symmetry
INVARIANTS
  WidgetTypeOK
  IntervalHeld
  TwiceLikedIsExcused
  FormsPassTheGate
  BusyMeansPending
PROPERTIES
  LikeRemembered
  ListNeverGoesBack
CHECK_DEADLOCK FALSE
