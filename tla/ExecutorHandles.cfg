\* A reconnect task whose handle is replaced between its sleep and its removal.
SPECIFICATION Spec
CONSTANTS
  Layouts = {l1}
  InitialDelay = 1
  MaxDelay = 1
  BackoffFactor = 1
  JitterPercent = 0
  MaxAttempts = 2
  DelayFloor = 1
  StableAfter = 1
  FlapThreshold = 1
  None = None
  Scans = {s1}
  Backgrounds = {}
  Timers = {r1, r2}
  Users = {}
  Faults = {f1}
  Convergers = {}
  Droppers = {}
  Pairers = {}
  Cancellable = {}
  Targeting = {TRUE}
  Execution = {"inline"}
  Outcomes = {"ok", "retry", "abandon"}
  MaxIssues = 3
  Starts = 3
SYMMETRY Slots
INVARIANTS
  WakesRemoveOwnHandle
CHECK_DEADLOCK FALSE
