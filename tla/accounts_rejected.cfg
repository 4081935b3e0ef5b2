SPECIFICATION Spec
CONSTANTS
  c = c
  d = d
  root = root
  guest = guest
  ann = ann
  Conns = {c, d}
  Names = {root, guest, ann}
  Sysop = root
  Guest = guest
  RequireValidation = TRUE
  DailyLimit = 2
  Day = 4
  SweepPeriod = 1
  MaxFailures = 1
  BanTicks = 1
  MaxIds = 4
  MaxMail = 1
  MaxNow = 5
INVARIANT ActiveIsKept
CONSTRAINT ShortStory
SYMMETRY Alike
CHECK_DEADLOCK FALSE
