SPECIFICATION Spec
CONSTANTS
  ArtKeys <- MCArtKeys
  Start <- MCStart
  HandTexts <- MCHandTexts
  Plans <- MCPlans
PROPERTY EntriesAreKept
CHECK_DEADLOCK FALSE
