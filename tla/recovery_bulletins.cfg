SPECIFICATION RecoverySpec
CONSTANTS
  owner = owner
  other = other
  Sessions <- Two
  Owner = owner
  Bulletins = TRUE
  MayNotForce = FALSE
  MaxResets = 1
  MaxClock = 3
INVARIANTS GateHolds
CHECK_DEADLOCK FALSE
