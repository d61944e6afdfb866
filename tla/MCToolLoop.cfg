SPECIFICATION Spec
CONSTANTS
  Limit = 3
  PromptLimit = 2
  MaxCalls = 3
  Parallel = 2
INVARIANTS
  CardsClosed
  StopEndsNative
  CallsContained
PROPERTIES
  LoopEnds
CHECK_DEADLOCK FALSE
