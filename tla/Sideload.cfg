SPECIFICATION SideloadSpec
CONSTANTS
  MaxSessions = 3
  MaxDepth = 1
  Timeout = 2
  SdTimeout = 1
  MaxErrors = 2
INVARIANTS InstallsWhatWasOffered NothingLeftBehind
PROPERTY OfferIsTaken
