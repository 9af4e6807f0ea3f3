---------------------------- MODULE BackupChainMC ----------------------------
\* Instances of BackupChain: three nodes in a circle, the third of which
\* selects its backup itself, and one device; the same nodes with two devices,
\* one of which is a distro of the first backup's and stays with its owner.
EXTENDS BackupChain

CONSTANTS a, b, c, dev, dis, ch

Chain == [n \in Nodes |-> CASE n = a -> <<b>> [] n = b -> <<c>> [] OTHER -> <<>>]
Requests == {<<a, <<dev, ch>>>>}
Moves == {<<a, <<dev, ch>>>>, <<b, <<dev, ch>>>>}
Batches == {<<a, <<dev, ch>>>>, <<a, <<dis, ch>>>>}
Circle == {<<b, a>>, <<c, a>>}
Line == {<<b, a>>, <<c, b>>}
NoDistros == [n \in Nodes |-> {}]
DistroAtB == [n \in Nodes |-> IF n = b THEN {dis} ELSE {}]

=============================================================================
