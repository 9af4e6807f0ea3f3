CONSTANTS
  p1 = p1
  p2 = p2
  Peers = {p1, p2}
  Budget = 2
  Window = 2
  MaxOffer = 2
  MaxLacks = 2
  MaxRestarts = 1
  ListsTwice = FALSE

SPECIFICATION FairBudgetSpec

INVARIANTS
  BudgetKept
PROPERTIES
  TurnComes

CHECK_DEADLOCK FALSE
