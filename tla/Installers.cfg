SPECIFICATION Spec
CONSTANTS
  Session = {s1, s2}
  Consent = {g1, g2}
  ApiToken = {t1}
  State = {st1}
  Request = {r1, r2}
  None = None
  SessionTtl = 1
  StateTtl = 1
  MaxTime = 1
SYMMETRY Symmetry
INVARIANTS
  InstallersTypeOK
  PastedNeverRevoked
  SpentTokenUnreachable
  StateUsedOnce
PROPERTY DeployEndsSession
CHECK_DEADLOCK FALSE
