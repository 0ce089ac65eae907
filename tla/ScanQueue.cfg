\* Every kind of caller at once, and workers enough for the flag to change hands
\* while an earlier worker still looks at the queue.
SPECIFICATION QueueSpec
CONSTANTS
  Scanners = {s1}
  Enqueuers = {e1}
  Schedulers = {c1, c2}
  Workers = {w1, w2}
INVARIANTS
  OneOwner
  PendingIsWatched
PROPERTIES
  RequestsAreServed
CHECK_DEADLOCK FALSE
