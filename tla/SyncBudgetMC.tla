---------------------------- MODULE SyncBudgetMC ----------------------------
(***************************************************************************)
(* SyncBudget with two peers against a budget of two messages.             *)
(***************************************************************************)
EXTENDS SyncBudget

CONSTANTS p1, p2

=============================================================================
