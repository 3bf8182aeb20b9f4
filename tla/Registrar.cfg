\* Leases and heartbeats of three seconds, Consul services kept for four, calls of any length.
SPECIFICATION FairSpec
CONSTANTS
  TTL = 3
  Interval = 3
  ReapAfter = 4
INVARIANTS
  DeadIsForgotten
PROPERTIES
  Vanishes
CHECK_DEADLOCK FALSE
