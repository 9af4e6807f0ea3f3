----------------------------- MODULE PropStoreMC -----------------------------
(***************************************************************************)
(* PropStore for TLC, two nodes, one of them static.  In one scene a node  *)
(* and a client bring the same message, which ages and is forgotten, over  *)
(* two restarts; in the other a client brings two messages to a store with *)
(* room for one, over one restart.                                         *)
(***************************************************************************)
EXTENDS PropStore

CONSTANTS m1, m2, p, q

ByPeer == [sender |-> p, messages |-> {m1}]
ByClient == [sender |-> Nobody, messages |-> {m1}]
ByClientTwo == [sender |-> Nobody, messages |-> {m1, m2}]

ThreeUploads == {ByPeer, ByClient, ByClientTwo}

TwoScenes == {[uploads |-> {ByPeer, ByClient}, ageing |-> {m1}, restarts |-> 2],
              [uploads |-> {ByClientTwo}, ageing |-> {}, restarts |-> 1]}
=============================================================================
