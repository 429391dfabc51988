SPECIFICATION RelaySpec
CONSTANTS
  a1 = a1
  b1 = b1
  ann = ann
  bob = bob
  v1 = v1
  empty = empty
  None = None
  Conns = {a1, b1}
  UserIds = {ann, bob}
  Owner = ann
  Account <- Logins
  Channels = {v1}
  NoName = empty
  Stopped = {}
  MaxJoins <- EachJoinsOnce
INVARIANT ParticipantsAreHeard
\* Every connection may have closed.
CHECK_DEADLOCK FALSE
