----------------------------- MODULE PeerSyncMC -----------------------------
(***************************************************************************)
(* Small instances of PeerSync for TLC.                                    *)
(***************************************************************************)
EXTENDS PeerSync, TLC

CONSTANTS m1, m2

MessageSymmetry == Permutations({m1, m2})
=============================================================================
