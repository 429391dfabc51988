SPECIFICATION SessionsSpec
CONSTANTS
  a1 = a1
  b1 = b1
  ann = ann
  bob = bob
  v1 = v1
  empty = empty
  None = None
  Conns = {a1, b1}
  UserIds = {ann, bob}
  Owner = ann
  Account <- Logins
  Channels = {v1, empty}
  NoName = empty
  Stopped = {}
  MaxJoins <- BobJoinsTwice
  g1 = g1
  g2 = g2
  q1 = q1
  q2 = q2
  App = App
  Server = Server
  Nil = Nil
  Goroutines = {g1, g2}
  VoiceChannels = {v1}
  Sockets = {q1, q2}
  Stalled = {q2}
INVARIANTS
  RosterWellFormed
  NoDeadEntry
  StaysListed
  ListedHaveMedia
  NoDeadlock
PROPERTIES
  CallsSpec
  MethodsReturn
\* Every connection may have closed.
CHECK_DEADLOCK FALSE
