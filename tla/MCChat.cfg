SPECIFICATION Spec
CONSTANTS
  Sid = {s1}
  Gen = {g1, g2}
  NoSid = NoSid
  Modes = {"direct", "agent", "coding", "chain", "media"}
  ChainLen = 2
SYMMETRY Symmetry
INVARIANTS
  HonoursStop
  OneTerminalEvent
  NeverSilent
  StopKeepsShownText
PROPERTIES
  KeepsStopPromise
CHECK_DEADLOCK FALSE
