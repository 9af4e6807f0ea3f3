SPECIFICATION FairSpec
CONSTANTS
  l1 = l1
  l2 = l2
  l3 = l3
  Links = {l1, l2, l3}
  Devices = {d, e}
  Channels = {ch}
  Nobody = Nobody
  Layouts <- ThreeLayouts
  MaxOpens <- Opens
INVARIANT AckedIsNotDeferred
PROPERTIES
  LiveSessionStays
  ClosedIsForgotten
CHECK_DEADLOCK FALSE
