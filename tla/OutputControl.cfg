\* A device of each kind, and two transitions, so that a request overtakes a
\* transition under way; a stop that waits for the mutex may be a third.  When
\* the transitions are used up a paused system has nothing left to do.
SPECIFICATION FairSpec
CONSTANTS
  Usb = {usb}
  Network = {net}
  Zoned = {usb}
  Unassigned = {"Hold", "Fallback"}
  MaxTransitions = 2
INVARIANTS
  NewestRequestWins
  LoopFollowsPower
  HeldWhilePausedOrParked
  HoldIsLast
  PauseCoversEveryDevice
CHECK_DEADLOCK FALSE
PROPERTIES
  RequestsFinish
  LightsFollow
