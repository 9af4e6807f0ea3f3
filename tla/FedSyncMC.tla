------------------------------ MODULE FedSyncMC ------------------------------
\* An instance of FedSync: b pulls what is published at a, which has room for
\* one blob only.
EXTENDS FedSync

CONSTANTS a, b, x, y

OnlyAt(n, set) == [m \in Nodes |-> IF m = n THEN set ELSE {}]

BWants == OnlyAt(b, {x, y})
APublishes == OnlyAt(a, {x, y})
BHearsA == OnlyAt(b, {a})
NoStatic == OnlyAt(a, {})
Room == [n \in Nodes |-> IF n = a THEN 1 ELSE 2]
=============================================================================
