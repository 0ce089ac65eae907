\* The assertion of execute_discovery_scan_or_enqueue, with one other caller.
SPECIFICATION QueueSpec
CONSTANTS
  Scanners = {}
  Enqueuers = {e1}
  Schedulers = {c1}
  Workers = {w1}
INVARIANTS
  OwnerFindsItsRequest
CHECK_DEADLOCK FALSE
