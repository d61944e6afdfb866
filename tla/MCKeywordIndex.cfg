SPECIFICATION Spec
CONSTANTS
  Search = {s1, s2}
  Document = {d1, d2}
  MaxId = 2
  InOrder = TRUE
  None = None
INVARIANTS
  NothingMissing
  FindsAnnounced
PROPERTIES
  SearchesEnd
  MemoryReturned
CHECK_DEADLOCK FALSE
