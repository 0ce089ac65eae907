\* A late CancelReconnect against a newer reconnect task.
SPECIFICATION Spec
CONSTANTS
  Layouts = {l1}
  InitialDelay = 1
  MaxDelay = 1
  BackoffFactor = 1
  JitterPercent = 0
  MaxAttempts = 2
  DelayFloor = 1
  StableAfter = 1
  FlapThreshold = 1
  None = None
  Scans = {s1}
  Backgrounds = {}
  Timers = {r1, r2}
  Users = {}
  Faults = {}
  Convergers = {}
  Droppers = {}
  Pairers = {}
  Cancellable = {}
  Targeting = {TRUE}
  Execution = {"inline"}
  Outcomes = {"retry"}
  MaxIssues = 3
  Starts = 4
SYMMETRY Slots
INVARIANTS
  ReconnectIsPending
CHECK_DEADLOCK FALSE
