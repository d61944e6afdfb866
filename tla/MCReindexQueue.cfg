SPECIFICATION QueueSpec
CONSTANTS
  Run = {r1, r2, r3, r4}
  Entity = {a, b}
  GLOBAL = GLOBAL
  Limit = 2
  NoRun = NoRun
INVARIANTS
  SlotsConserved
  ClusterAlone
  ClusterFlagTrue
PROPERTIES
  RunsEnd
CHECK_DEADLOCK FALSE
