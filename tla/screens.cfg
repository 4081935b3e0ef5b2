SPECIFICATION ScreensSpec
CONSTANTS
  Configs <- MCConfigs
  MaxMenuDepth = 3
  Files = {f, g}
  MyFiles = {f}
  MaxAttachments = 1
INVARIANTS NoPanic GatesHold EscLeadsOut
CHECK_DEADLOCK FALSE
