SPECIFICATION FairSpec
CONSTANTS
  Blocks <- TwoBlocks
  Data <- MCData
  Junk = "?"
  Zeroes = "0"
  Source <- TwoSource
  Target <- TwoTarget
  Parts <- TwoParts
  Ids <- TwoIds
  Content <- TwoContent
  Lists <- TwoLists
  NewData <- TwoNew
  Script <- TwoScript
  MaxCrashes = 2
  MaxErrors = 1
INVARIANTS
  StashIntact
  OnlyCurrentTargetAtRisk
  SkippedCommandsAreDone
  AlwaysResumable
  EndMeansTarget
PROPERTIES
  UpdateCompletes
