CONSTANTS
  Parts <- MCParts
  Source <- MCSource
  Target <- MCTarget
  Device <- MCDevice
  Script <- MCScript
  Files <- MCFiles
  OpenFiles = {3}
  CacheSize = 6
  Junk = Junk
  None = None
  MaxLosses = 2
  MaxErrors = 2
SPECIFICATION Spec
INVARIANTS SourceSurvives AppliedIsOnMedium FailsForAReason
