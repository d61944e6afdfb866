SPECIFICATION Spec
CONSTANTS
  a = a
  b = b
  d1 = d1
  d2 = d2
  x = x
  y = y
  Run = {r1, r2, r3}
  Entity = {a, b}
  GLOBAL = GLOBAL
  Limit = 2
  NoRun = NoRun
  Doc = {d1, d2}
  EntityDocs <- OwnDocs
  BaseDocs <- NoBases
  MaxWaves = 1
  Dim = {x}
  UploadDim = x
  Restarts = TRUE
  NoDoc = NoDoc
SYMMETRY Symmetry
INVARIANTS
  AbandonedIsRedone
CHECK_DEADLOCK FALSE
