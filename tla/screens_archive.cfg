SPECIFICATION ScreensSpec
CONSTANTS
  Configs <- MCConfigs
  MaxMenuDepth = 3
  Files = {f, g}
  MyFiles = {f}
  MaxAttachments = 1
INVARIANT ArchiveIsCurrent
CHECK_DEADLOCK FALSE
