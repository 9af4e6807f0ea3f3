SPECIFICATION FairSpec
CONSTANTS
  s1 = s1
  Subscribers = {s1}
  Channels = {c1}
  Blobs = {b1, b2}
  Limit <- OneTier
  GlobalLimit = 1
  WriteOutcomes = {"saved"}
  OpenPages = 1
  MaxPosts = 2
  MaxPages = 1
  MaxUnsaved = 0
INVARIANTS
  ConfirmedIsReceived
PROPERTIES
  PromiseKept
  WokenToCollect
  EveryPushSettles
