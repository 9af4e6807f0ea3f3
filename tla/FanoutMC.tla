------------------------------ MODULE FanoutMC ------------------------------
(***************************************************************************)
(* Small instances of Fanout for TLC.                                      *)
(***************************************************************************)
EXTENDS Fanout, TLC

CONSTANT s1

OneTier == (s1 :> 2)
=============================================================================
