SPECIFICATION Spec
CONSTANTS
  f = f
  g = g
  h = h
  s = s
  t = t
  Upload = {u1, u2, u3}
  File = {f, g, h}
  Text = {s, t}
  TextOf <- Texts
  Nobody = Nobody
  InOrder = TRUE
SYMMETRY Symmetry
INVARIANTS
  NoTwins
  IndexedStays
  NoEmptyDocument
  CopiesKeepOne
CHECK_DEADLOCK FALSE
