---------------------------- MODULE InboundSyncMC ----------------------------
\* An instance of InboundSync: a node that offers on its link, beside another
\* node or a client that only uploads.
EXTENDS InboundSync

CONSTANTS l1, l2, p, q

Two(first, second) == [l \in Links |-> IF l = l1 THEN first ELSE second]

ThreeConfigs ==
  { [sender |-> Two(p, q), offers |-> {l1}, static |-> {}, static_only |-> FALSE,
     sequential |-> TRUE, bypass |-> FALSE],
    [sender |-> Two(p, q), offers |-> {l1}, static |-> {p}, static_only |-> FALSE,
     sequential |-> TRUE, bypass |-> TRUE],
    [sender |-> Two(p, Nobody), offers |-> Links, static |-> {p}, static_only |-> TRUE,
     sequential |-> FALSE, bypass |-> FALSE] }
=============================================================================
