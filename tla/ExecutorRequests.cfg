\* A scan, a user request, a convergence, a release and a pairing, any three of them;
\* all but the convergence may be cancelled.
SPECIFICATION Spec
CONSTANTS
  Layouts = {l1}
  InitialDelay = 1
  MaxDelay = 1
  BackoffFactor = 1
  JitterPercent = 0
  MaxAttempts = 2
  DelayFloor = 1
  StableAfter = 1
  FlapThreshold = 1
  None = None
  Scans = {s1}
  Backgrounds = {}
  Timers = {}
  Users = {u1}
  Faults = {}
  Convergers = {c1}
  Droppers = {v1}
  Pairers = {p1}
  Cancellable = {s1, u1, v1, p1}
  Targeting = {TRUE, FALSE}
  Execution = {"inline"}
  Outcomes = {"ok", "abandon"}
  MaxIssues = 3
  Starts = 3
SYMMETRY Slots
INVARIANTS
  InFlightHasOwner
CHECK_DEADLOCK FALSE
