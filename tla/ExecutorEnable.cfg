\* A device the layout may not target is switched off and on again.
SPECIFICATION Spec
CONSTANTS
  Layouts = {l1}
  InitialDelay = 1
  MaxDelay = 1
  BackoffFactor = 1
  JitterPercent = 0
  MaxAttempts = 2
  DelayFloor = 1
  StableAfter = 1
  FlapThreshold = 1
  None = None
  Scans = {s1}
  Backgrounds = {}
  Timers = {}
  Users = {u1}
  Faults = {}
  Convergers = {}
  Droppers = {}
  Pairers = {}
  Cancellable = {}
  Targeting = {TRUE, FALSE}
  Execution = {"inline"}
  Outcomes = {"ok"}
  MaxIssues = 3
  Starts = 4
SYMMETRY Slots
INVARIANTS
  MarkHasOwner
CHECK_DEADLOCK FALSE
