SPECIFICATION FairSpec
CHECK_DEADLOCK FALSE
CONSTANTS
  m1 = m1
  m2 = m2
  Messages = {m1, m2}
  OverLimit = {m2}
  LowValue = {}
  MaxLinks = 2
  MaxPeerings = 1
INVARIANTS
  HandledIsSettled
  NumberNamesTheSession
PROPERTIES
  SessionEnds
