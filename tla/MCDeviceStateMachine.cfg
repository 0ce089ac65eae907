\* The production backoff policy (delays in ms), with a 2-tick stability window.
SPECIFICATION Spec
CONSTANTS
  InitialDelay = 1000
  MaxDelay = 60000
  BackoffFactor = 2
  JitterPercent = 10
  MaxAttempts = 6
  DelayFloor = 100
  StableAfter = 2
  FlapThreshold = 3
  MaxFlaps = 8
  None = None
INVARIANTS
  FlapsCountTheStreak
  EscalatesOncePerStreak
PROPERTIES
  BackoffNeverShrinks
