SPECIFICATION FairSpec
CONSTANTS
  RetryLimit = 4
  HasCache = TRUE
  Requests <- const_Requests
  MenuWork <- const_MenuWork
  MaxRequests = 2
  MaxCrashes = 2
  MaxErrors = 1
INVARIANTS
  WholeBeforeMain
  AttemptsBounded
  RunsOnce
PROPERTIES
  BackToRecovery
  LeavesRecovery
