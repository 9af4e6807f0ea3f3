SPECIFICATION Spec
CHECK_DEADLOCK FALSE
CONSTANTS
  m1 = m1
  m2 = m2
  Messages = {m1}
  OverLimit = {}
  LowValue = {}
  MaxLinks = 2
  MaxPeerings = 2
INVARIANTS
  CallbacksFindNoPeer
