SPECIFICATION Spec
CONSTANTS
  s = s
  w = w
  Conns <- Both
  Web <- OneWeb
  MaxShells = 1
  Cap = 2
  Frail <- OneSsh
  Banning = TRUE
INVARIANTS NoGhostOnline
PROPERTIES BanLands
CHECK_DEADLOCK FALSE
