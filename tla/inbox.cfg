SPECIFICATION Spec
CONSTANTS
  root = root
  reply = reply
  note = note
  Posts = {root, reply, note}
  HomeOf <- MCHomeOf
  ParentOf <- MCParentOf
  Private = {note}
  MaxPosts = 1
  AllowDms = TRUE
  MaxVer = 2
  MaxAsks = 3
  MaxUpsets = 1
INVARIANTS EdgesAgree AuthorsWordHolds MirrorAgrees ThreadsJoin
CHECK_DEADLOCK FALSE
CONSTRAINTS OneStory InFlight
