SPECIFICATION ScreensSpec
CONSTANTS
  Configs <- MCTypo
  MaxMenuDepth = 3
  Files = {f, g}
  MyFiles = {f}
  MaxAttachments = 1
INVARIANT NoPanic
CHECK_DEADLOCK FALSE
