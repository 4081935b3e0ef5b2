SPECIFICATION HubSpec
CONSTANTS
  peer1 = peer1
  peer2 = peer2
  Inboxes <- OnePeer
  MaxEdits = 1
  AdminActs = TRUE
  Lossy = TRUE
  MaxAttempts = 2
  Batch = 2
  Base = 1
  BackoffCap = 2
  MaxFaults = 1
INVARIANTS SteadyPeerAgrees WithdrawalsAreReal
PROPERTIES Converges
CHECK_DEADLOCK FALSE
