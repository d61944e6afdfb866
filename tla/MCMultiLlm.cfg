SPECIFICATION MultiSpec
CONSTANTS
  Sid = {s1, s2}
  Gen = {g1}
  NoSid = NoSid
  Modes = {"direct", "agent", "coding", "chain", "media", "multi"}
  ChainLen = 2
  Model = {m1, m2, m3}
INVARIANTS
  SlotsClosedOnce
  KeptAsTold
PROPERTIES
  StopSilencesModels
  GenerationSettles
CHECK_DEADLOCK FALSE
