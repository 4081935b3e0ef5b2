SPECIFICATION Spec
CONSTANTS
  s = s
  w = w
  Conns <- OneWeb
  Web <- OneWeb
  MaxShells = 1
  Cap = 2
  Frail <- NoConns
  Banning = FALSE
INVARIANTS TimeIsBanked
CHECK_DEADLOCK FALSE
