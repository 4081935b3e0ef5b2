SPECIFICATION Spec
CONSTANTS
  s = s
  w = w
  Conns <- OneSsh
  Web <- NoConns
  MaxShells = 2
  Cap = 2
  Frail <- NoConns
  Banning = TRUE
PROPERTIES BanLands
CHECK_DEADLOCK FALSE
