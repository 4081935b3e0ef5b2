SPECIFICATION Spec
CONSTANTS
  ArtKeys <- MCArtKeys
  Start <- MCStart
  HandTexts <- MCHandTexts
  Plans <- MCPlans
INVARIANTS SelectionHolds BoardStarts SettledIsCurrent
PROPERTIES ComesToRest
CHECK_DEADLOCK FALSE
