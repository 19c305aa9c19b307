SPECIFICATION FairSpec
CONSTANTS
  Sizes <- MCSizes
  Start <- MCStart
  StreamLen = 6
  MaxChunk = 4
  Brotli = TRUE
INVARIANTS
  DataInOrder
  WriterInUseOnlyWhileMainWaits
PROPERTIES
  ThreadsJoin
  ImplementsNewData
