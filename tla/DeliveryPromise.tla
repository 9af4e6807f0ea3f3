-------------------------- MODULE DeliveryPromise --------------------------
(***************************************************************************)
(* What a federation node promises of a channel post and a subscriber it   *)
(* fans the post out to (SPEC section 7): once the post waits in the       *)
(* deferred queue it leaves it only for the device or with a line in the   *)
(* log, whatever crashes; before that it is owed, and only a crash may     *)
(* lose it.  Fanout implements this module.                                *)
(***************************************************************************)
CONSTANTS Subscribers, Blobs

VARIABLE fate

Pairs == Subscribers \X Blobs

Fates == {"none", "owed", "waiting", "received", "dropped", "lost"}

\* What may become of a pair in one step of the running node.
Becomes ==
  {<<f, f>> : f \in Fates}
    \cup ({"none"} \X {"owed"})
    \cup ({"owed"} \X {"waiting", "received", "dropped"})
    \cup ({"waiting"} \X {"received", "dropped"})
    \cup ({"dropped"} \X {"received"})

Init == fate = [p \in Pairs |-> "none"]

Deliver == fate' \in [Pairs -> Fates] /\ \A p \in Pairs : <<fate[p], fate'[p]>> \in Becomes

Crash == fate' = [p \in Pairs |-> IF fate[p] = "owed" THEN "lost" ELSE fate[p]]

Spec == Init /\ [][Deliver \/ Crash]_fate
=============================================================================
