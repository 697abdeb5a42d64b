SPECIFICATION Spec
CONSTANTS
  Run = {r1, r2}
  Database = {d1, d2}
  Secret = {admin, github}
  Admin = admin
  None = None
  MaxFaults = 1
  MaxRemovals = 1
SYMMETRY Symmetry
INVARIANT DeployTypeOK
PROPERTIES
  SuccessMeansReady
  VerifyFailsForCause
  OnlyWhatIsMissing
  NewPasswordWorks
CHECK_DEADLOCK FALSE
