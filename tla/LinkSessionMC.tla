---------------------------- MODULE LinkSessionMC ----------------------------
\* Instances of LinkSession: two devices and three links, two of them opened to
\* one destination, each of the three in turn, and the third to another one.
EXTENDS LinkSession

CONSTANTS l1, l2, l3

Third(a) == IF a = "propagation stream" THEN "channel stream" ELSE "propagation stream"
Spread(a) == [l \in Links |-> IF l = l3 THEN Third(a) ELSE a]
ThreeLayouts == {Spread(a) : a \in Aspects}

Opens == [l \in Links |-> IF l = l1 THEN 2 ELSE 1]

=============================================================================
