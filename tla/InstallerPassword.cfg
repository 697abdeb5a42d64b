SPECIFICATION Spec
CONSTANTS
  Run = {r1, r2}
  Database = {d1}
  Secret = {admin, github}
  Admin = admin
  None = None
  MaxFaults = 0
  MaxRemovals = 0
SYMMETRY Symmetry
PROPERTY PasswordWasApplied
CHECK_DEADLOCK FALSE
