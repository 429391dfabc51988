SPECIFICATION Spec
CONSTANTS
  p1 = p1
  p2 = p2
  r1 = r1
  r2 = r2
  i1 = i1
  s1 = s1
  s2 = s2
  j1 = j1
  n1 = n1
  n2 = n2
  n3 = n3
  None = None
  PasswordReqs = {p1}
  RegisterReqs = {r1}
  MintReqs = {i1}
  SignupReqs = {s1, s2}
  JoinReqs = {}
  Names = {n1, n2, n3}
  Faults = FALSE
  MaxRestarts = 0
INVARIANT InviteIsSingleUse
\* A finite number of requests: everything ends.
CHECK_DEADLOCK FALSE
