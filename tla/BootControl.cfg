CONSTANTS
  NotANumber = NotANumber
  None = None
  Unreadable = Unreadable
  BootPartitions = {0, 1}
  Blocks <- MCBlocks
  Flaws <- MCFlaws
  CareMaps <- MCCareMaps
  VerityModes <- MCModes
  Build = "avb"
  DmNames <- MCDmNames
  Concurrency = 2
  Damages <- MCDamages
  MaxUpdates = 2
  MaxLosses = 1
  MaxErrors = 1
SPECIFICATION BootSpec
INVARIANT MarkedMeansRead
PROPERTY ComesUp
