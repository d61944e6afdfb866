SPECIFICATION Spec
CONSTANTS
  Chunks = 4
INVARIANTS
  StopCutsStream
  NewestShown
PROPERTIES
  KeepsStreamPromise
  AnswerFinishes
CHECK_DEADLOCK FALSE
