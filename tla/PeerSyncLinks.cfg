SPECIFICATION Spec
CHECK_DEADLOCK FALSE
CONSTANTS
  m1 = m1
  m2 = m2
  Messages = {m1}
  OverLimit = {}
  LowValue = {}
  MaxLinks = 3
  MaxPeerings = 1
INVARIANTS
  TypeOK
  EveryWaitIsAnswered
  LossIsReported
  NoUnusedLink
