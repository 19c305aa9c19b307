SPECIFICATION Spec
CONSTANTS
  Scenarios <- MCScenarios
  VirtualKeys <- MCVirtualKeys
  MaxTimers = 2
  MaxDevices = 2
  QueueMax = 2
  RebootPresses = 3
  FbWidth = 9
  FbHeight = 16
  TouchRange = 32
  CharHeight = 1
  StartY = 4
  LowThreshold = 3
  HighThreshold = 3
  Logs = 11
  Pages = 2
INVARIANTS LongPressWasHeld ChosenIsAnItem AnswersAreFresh
PROPERTY UnattendedEnds
