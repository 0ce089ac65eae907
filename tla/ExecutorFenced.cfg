\* Two scans whose successful connects outlive them as fenced background tasks.
SPECIFICATION Spec
CONSTANTS
  Layouts = {l1}
  InitialDelay = 1
  MaxDelay = 1
  BackoffFactor = 1
  JitterPercent = 0
  MaxAttempts = 2
  DelayFloor = 1
  StableAfter = 1
  FlapThreshold = 1
  None = None
  Scans = {s1, s2}
  Backgrounds = {b1, b2}
  Timers = {}
  Users = {}
  Faults = {}
  Convergers = {}
  Droppers = {}
  Pairers = {}
  Cancellable = {}
  Targeting = {TRUE}
  Execution = {"background"}
  Outcomes = {"ok"}
  MaxIssues = 4
  Starts = 6
SYMMETRY Slots
INVARIANTS
  QuietSessionMatches
  QuietRoutingMatches
  FencedConnectStaysWanted
CHECK_DEADLOCK FALSE
