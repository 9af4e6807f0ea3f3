-------------------------- MODULE DeferredQueueMC --------------------------
(***************************************************************************)
(* Small instances of DeferredQueue for TLC.                               *)
(***************************************************************************)
EXTENDS DeferredQueue, TLC

CONSTANTS s1, s2, r1, r2

\* One regular subscriber and one whose limit the global one meets first.
TwoTiers == (s1 :> 2) @@ (s2 :> 3)

RoutingSymmetry == Permutations({r1, r2})
=============================================================================
