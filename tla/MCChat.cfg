SPECIFICATION BoundedChatSpec
CONSTANTS
  a1 = a1
  ab = ab
  ann = ann
  bob = bob
  None = None
  g1 = g1
  g2 = g2
  Conns = {a1, ab}
  UserIds = {ann, bob}
  Owner = ann
  LoginAs <- Logins
  Signups = {bob}
  Faults = TRUE
  MaxPosts <- Posts
  Channels = {g1, g2}
  Names <- TheName
  NameOf <- OneName
  Witnesses = {a1}
SYMMETRY Alike
INVARIANTS
  OnlineHasConnection
  ListedWasMember
  HeardIsSaved
  OneLivePerName
  ListedHaveHeard
PROPERTIES
  FeedSpec
\* Every connection may have closed.
CHECK_DEADLOCK FALSE
