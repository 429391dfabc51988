SPECIFICATION Spec
CONSTANTS
  p1 = p1
  p2 = p2
  r1 = r1
  r2 = r2
  i1 = i1
  s1 = s1
  s2 = s2
  j1 = j1
  n1 = n1
  n2 = n2
  n3 = n3
  None = None
  PasswordReqs = {p1}
  RegisterReqs = {r1, r2}
  MintReqs = {i1}
  SignupReqs = {s1}
  JoinReqs = {}
  Names = {n1, n2}
  Faults = TRUE
  MaxRestarts = 1
INVARIANTS
  TypeOK
  ClaimComesFirst
  SuccessIsDurable
PROPERTY PromiseSpec
\* A finite number of requests: everything ends.
CHECK_DEADLOCK FALSE
