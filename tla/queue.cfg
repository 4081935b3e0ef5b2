SPECIFICATION Spec
CONSTANTS
  d1 = d1
  d2 = d2
  d3 = d3
  Deliveries <- ThreeRows
  MaxAttempts = 2
  Batch = 2
  Base = 1
  BackoffCap = 3
  MaxFaults = 1
INVARIANTS NothingLost PostsBounded
PROPERTIES KeepsPromise Drains
CHECK_DEADLOCK FALSE
