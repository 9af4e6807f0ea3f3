SPECIFICATION FairInboundSpec
CONSTANTS
  l1 = l1
  l2 = l2
  p = p
  q = q
  Nobody = Nobody
  Links = {l1, l2}
  Nodes = {p, q}
  Configs <- ThreeConfigs
  MaxInbound = 1
INVARIANTS
  NothingLeft
PROPERTIES
  KeyedBatchTaken
  MarksEnd
