SPECIFICATION Spec
CONSTANTS
  a1 = a1
  b1 = b1
  b2 = b2
  ab = ab
  ann = ann
  bob = bob
  None = None
  Conns = {b1, b2}
  UserIds = {ann, bob}
  Owner = ann
  LoginAs <- Logins
  Signups = {}
  Faults = FALSE
INVARIANTS
  LiveMemberIsOnline
\* Every connection may have closed.
CHECK_DEADLOCK FALSE
