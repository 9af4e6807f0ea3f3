----------------------------- MODULE WakePathMC -----------------------------
\* Three scenes of WakePath: the node's registrations and its route to the
\* relay; tokens and wakes at apns-bridge; the same at fcm-bridge.
EXTENDS WakePath

CONSTANTS s, u

AtNode ==
  [bridge |-> "apns", requests |-> {"notify", "restart"},
   rows |-> {Row(s, 0, "channel"), Row(s, 1, "lxmf"), Row(u, 1, "channel")},
   subscribed |-> {u}, hosts_relay |-> {u}, path |-> TRUE, key |-> "other",
   envs |-> {}, good |-> {{"production"}}]

AtBridge(bridge, envs, good_at) ==
  [bridge |-> bridge, requests |-> {"tokens"},
   rows |-> {Row(s, 1, "lxmf"), Row(u, 1, "lxmf")},
   subscribed |-> {}, hosts_relay |-> {}, path |-> TRUE, key |-> "relay",
   envs |-> envs, good |-> good_at]

ThreeScenes ==
  {AtNode,
   AtBridge("apns", {"sandbox", "production"}, {{"sandbox"}, {"production"}}),
   AtBridge("fcm", {"production"}, {{"production"}})}
=============================================================================
