\* One inline scan connect against one disable request.
SPECIFICATION Spec
CONSTANTS
  Layouts = {l1}
  InitialDelay = 1
  MaxDelay = 1
  BackoffFactor = 1
  JitterPercent = 0
  MaxAttempts = 2
  DelayFloor = 1
  StableAfter = 1
  FlapThreshold = 1
  None = None
  Scans = {s1}
  Backgrounds = {}
  Timers = {}
  Users = {u1}
  Faults = {}
  Convergers = {}
  Droppers = {}
  Pairers = {}
  Cancellable = {}
  Targeting = {TRUE}
  Execution = {"inline"}
  Outcomes = {"ok"}
  MaxIssues = 2
  Starts = 4
SYMMETRY Slots
INVARIANTS
  DisabledIsTornDown
CHECK_DEADLOCK FALSE
