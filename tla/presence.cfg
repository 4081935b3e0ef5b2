SPECIFICATION Spec
CONSTANTS
  s1 = s1
  s2 = s2
  sweeper = sweeper
  Sessions <- TwoSessions
  Commands <- AllCommands
  Cap = 8
  MaxKeys = 1
INVARIANTS RecipientsStay NoGhostInChat
PROPERTIES CallsReturn
CHECK_DEADLOCK FALSE
