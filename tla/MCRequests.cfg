SPECIFICATION RequestsSpec
CONSTANTS
  ann = ann
  bob = bob
  ann1 = ann1
  ann2 = ann2
  bob1 = bob1
  ch1 = ch1
  ch2 = ch2
  None = None
  Keys = {ann, bob}
  Requests = {ann1, ann2, bob1}
  KeyOf <- Accounts
  Challenges = {ch1, ch2}
  MaxNow = 3
  MaxRuns = 2
  Cap = 2
  Cost = 2
  Gain = 1
  IdleTTL = 2
  TTL = 1
  SweepInterval = 1
  proxy1 = proxy1
  proxy2 = proxy2
  v4 = v4
  v6 = v6
  v6Sibling = v6Sibling
  Unknown = Unknown
  Addresses = {proxy1, proxy2, v4, v6, v6Sibling}
  Trusted = {proxy1, proxy2}
  Blocks = {proxy1, proxy2, v4, v6}
  Block <- OwnBlock
  Forged <- UpToTwoHops
  MaxHops = 4
  MaxWidth = 5
  MaxHeight = 4
  MaxPixels = 15
  ThumbSize = 2
  Inputs <- Pictures
  red = red
  blue = blue
  left = left
  right = right
  Clear = Clear
  Pixels = {left, right}
  Colours = {red, blue}
  Drawn <- Patches
SYMMETRY Alike
INVARIANTS
  UsedOnce
  ReplayMeansPassed
  PasswordsBounded
  CountsTheSender
  StoredUpright
  StoredWithinBounds
  ThumbPlaysTheSame
PROPERTIES
  SweepForgetsNothing
\* Requests end.
CHECK_DEADLOCK FALSE
