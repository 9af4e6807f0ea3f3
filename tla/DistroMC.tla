------------------------------ MODULE DistroMC ------------------------------
\* Three scenes of Distro: a backlog of syncs for one device; a message that
\* reaches the node of two devices two ways, while they come and go; announces.
EXTENDS Distro

CONSTANTS a, b, x, y, z

From(blob, from, claim) == [blob |-> blob, from |-> from, claim |-> claim]

Backlog ==
  [registered |-> {a}, requests |-> {"pull"}, disk_fails |-> FALSE,
   arrival |-> <<From(x, "client", "valid"), From(y, "client", "valid"),
                 From(z, "peer", "valid")>>]

TwoWays ==
  [registered |-> {a, b}, requests |-> {"register"}, disk_fails |-> TRUE,
   arrival |-> <<From(x, "client", "valid"), From(x, "fed", "none"),
                 From(x, "fed", "none")>>]

Announced ==
  [registered |-> {}, requests |-> {"register", "announce"}, disk_fails |-> FALSE,
   arrival |-> [j \in Arrivals |-> From(x, "fed", "none")]]

ThreeScenes == {Backlog, TwoWays, Announced}
=============================================================================
