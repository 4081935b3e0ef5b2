SPECIFICATION HubSpec
CONSTANTS
  peer1 = peer1
  peer2 = peer2
  Inboxes <- OnePeer
  MaxEdits = 1
  AdminActs = FALSE
  Lossy = TRUE
  MaxAttempts = 3
  Batch = 2
  Base = 1
  BackoffCap = 2
  MaxFaults = 0
INVARIANTS WithdrawnEverywhere
CHECK_DEADLOCK FALSE
