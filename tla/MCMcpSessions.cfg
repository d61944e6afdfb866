SPECIFICATION Spec
CONSTANTS
  s1 = s1
  s2 = s2
  r1 = r1
  r2 = r2
  r3 = r3
  Request = {r1, r2, r3}
  Server = {s1, s2}
  Wanted <- OneOrBoth
  Headers <- TwoUsers
  Subagent = {r1, r3}
  MaxSize = 2
  Evictor = Evictor
INVARIANTS
  SessionsOwned
  NothingLeaks
  PoolSound
PROPERTIES
  RequestsEnd
CHECK_DEADLOCK FALSE
