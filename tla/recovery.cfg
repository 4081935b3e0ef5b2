SPECIFICATION RecoverySpec
CONSTANTS
  owner = owner
  other = other
  Sessions <- Two
  Owner = owner
  Bulletins = FALSE
  MayNotForce = TRUE
  MaxResets = 2
  MaxClock = 3
INVARIANTS GateHolds YoungAreSpared
PROPERTIES SweepIsThorough Recoverable
CHECK_DEADLOCK FALSE
