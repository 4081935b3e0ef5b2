SPECIFICATION Spec
CONSTANTS
  s1 = s1
  s2 = s2
  sweeper = sweeper
  Sessions <- TwoSessions
  Commands <- ChatOnly
  Cap = 1
  MaxKeys = 3
PROPERTIES BanLands
CHECK_DEADLOCK FALSE
