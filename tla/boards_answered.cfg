SPECIFICATION Spec
CONSTANTS
  a = a
  b = b
  r = r
  gen = gen
  dev = dev
  ann = ann
  root = root
  zoe = zoe
  Sessions = {a, b, r}
  UserOf <- MCUserOf
  Users = {ann, root}
  Admins = {root}
  Stranger = zoe
  BoardIds = {gen, dev}
  Window = 1
  MaxPerWindow = 1
  MaxPosts = 3
  MaxNow = 2
SYMMETRY Alike
INVARIANT DeletionsLand
CONSTRAINT OneStory
CHECK_DEADLOCK FALSE
