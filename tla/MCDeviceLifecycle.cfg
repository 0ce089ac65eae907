\* Two layouts, a short backoff ladder (two attempts) and a short flap streak.
SPECIFICATION LifecycleSpec
CONSTANTS
  Devices = {d1}
  Layouts = {l1, l2}
  MaxStamps = 4
  MaxFlaps = 3
  InitialDelay = 1
  MaxDelay = 2
  BackoffFactor = 2
  JitterPercent = 0
  MaxAttempts = 2
  DelayFloor = 1
  StableAfter = 1
  FlapThreshold = 2
  None = None
INVARIANTS
  ReconnectingIsDriven
PROPERTIES
  LeavingRenderableDisconnects
  TimersFollowTheFlag
  ConnectsAreSingle
