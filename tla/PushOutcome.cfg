SPECIFICATION FairSpec
CONSTANT Links = {l1, l2, l3}
CHECK_DEADLOCK FALSE
INVARIANTS
  PendingIsExact
  OneNextRoute
  HandedOffOnlyUnproven
  ProvedHookOnce
PROPERTY
  Decided
