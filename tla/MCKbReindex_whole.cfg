SPECIFICATION Spec
CONSTANTS
  a = a
  b = b
  d1 = d1
  d2 = d2
  x = x
  y = y
  Run = {r1, r2}
  Entity = {a, b}
  GLOBAL = GLOBAL
  Limit = 2
  NoRun = NoRun
  Doc = {d1, d2}
  EntityDocs <- SharedDocs
  BaseDocs <- OneBase
  MaxWaves = 2
  Dim = {x, y}
  UploadDim = x
  Restarts = TRUE
  NoDoc = NoDoc

INVARIANTS
  WholeOrNothing
  CountedIsIndexed
PROPERTIES
  RequestsEnd
CHECK_DEADLOCK FALSE
