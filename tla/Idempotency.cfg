\* Three requests over two keys and two bodies: repeats, mismatches and a key
\* that is used again after its answer was forgotten.  The clock ticks once and
\* an answer ages at once, two answers are over the byte bound, and two writes
\* in flight may be over each of the pending bounds.  Requests end, so that the
\* system may stop.
SPECIFICATION FairSpec
CONSTANTS
  MaxRequests = 3
  Keys = {k1, k2}
  f = f
  g = g
  Fingerprints = {f, g}
  Size <- MCSize
  Weights = {2}
  Entries = 2
  Bytes = 3
  Age = 1
  PendingEntries = 2
  PendingBytes = 3
  MaxClock = 1
INVARIANTS
  AppliedOnce
  AnswersBelong
  LedgerBalances
  KeptUntilPushedOut
PROPERTIES
  WaitersAreAnswered
CHECK_DEADLOCK FALSE
