SPECIFICATION HubSpec
CONSTANTS
  peer1 = peer1
  peer2 = peer2
  Inboxes <- TwoPeers
  MaxEdits = 1
  AdminActs = FALSE
  Lossy = FALSE
  MaxAttempts = 3
  Batch = 2
  Base = 1
  BackoffCap = 2
  MaxFaults = 1
INVARIANTS RestartDropsNothing
CHECK_DEADLOCK FALSE
