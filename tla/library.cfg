SPECIFICATION Spec
CONSTANTS
  sftp1 = sftp1
  sftp2 = sftp2
  ctl = ctl
  ann = ann
  root = root
  uploads = uploads
  Workers = {sftp1, sftp2, ctl}
  Ctl = {ctl}
  UserOf <- MCUserOf
  Admins = {root}
  Areas = {uploads}
  Staff = {}
  Names = {n1}
  Sizes = {1, 2}
  MaxFileBytes = 1
  UserQuota = 1
  MaxAttachments = 1
  MaxFiles = 2
  MaxFaults = 1
INVARIANTS ListedIsThere QuotaHolds
PROPERTIES TornOnlyMidway
CHECK_DEADLOCK FALSE
