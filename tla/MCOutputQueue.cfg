\* Two colours, four deliveries and one recovery: enough for a frame to be
\* retried, replaced and repeated while an older one is still with the lane.
\* A dropped queue stops for good.
SPECIFICATION Spec
CONSTANTS
  Colors = {red, blue}
  Policies <- SmallPolicies
  Threshold = 2
  None = None
  MaxSeq = 4
  MaxGen = 2
SYMMETRY Palette
INVARIANTS
  NothingIsLost
  CopiesAreSent
  StreakIsTrue
  FailuresSurface
PROPERTIES
  ClaimsAreCurrent
CHECK_DEADLOCK FALSE
