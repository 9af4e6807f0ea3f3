SPECIFICATION FairFedSpec
CONSTANTS
  a = a
  b = b
  x = x
  y = y
  Nodes = {a, b}
  Blobs = {x, y}
  Wanted <- BWants
  Published <- APublishes
  Announced <- BHearsA
  Static <- NoStatic
  Capacity <- Room
  TransferLimit = 1
  SyncLimit = 1
  MaxLinks = 2
INVARIANTS
  OncePerStay
PROPERTIES
  GapCloses
