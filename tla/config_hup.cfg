SPECIFICATION Spec
CONSTANTS
  ArtKeys <- MCArtKeys
  Start <- MCStart
  HandTexts <- MCHandTexts
  Plans <- MCPlans
INVARIANT ReloadIsCurrent
CHECK_DEADLOCK FALSE
