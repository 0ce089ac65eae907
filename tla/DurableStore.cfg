\* One transaction that waits, one write-behind owner and one retry worker on one
\* destination; two writes, so that a retry meets a newer admission; two troubles
\* (failed steps, outside edits, a crash), so that a failed attempt fails again.
\* The writes are bounded: when they are done the system may go quiet.
SPECIFICATION FairSpec
CONSTANTS
  Foreground = {w1}
  Behind = {w2}
  Workers = {r1}
  Payloads = {a, b}
  Seed = a
  MaxWrites = 2
  MaxTroubles = 2
INVARIANTS
  PromiseKept
  WrittenIsDurable
  PendingIsDriven
  FailureStaysVisible
  FlushCovers
CHECK_DEADLOCK FALSE
PROPERTIES
  RegisterSpec
  AdmittedLands
