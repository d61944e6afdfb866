SPECIFICATION MCSpec
CONSTANTS
  m0 = m0
  m1 = m1
  m2 = m2
  Task = {1, 2}
  Model = {m0, m1, m2}
  Default = m0
  AnyModel = AnyModel
  MaxLoaded = 2
  Replicas = 2
  None = None
INVARIANTS
  OneThreadPerLlama
CHECK_DEADLOCK FALSE
