SPECIFICATION Spec
CONSTANTS
  m1 = m1
  m2 = m2
  p = p
  q = q
  NoMsg = NoMsg
  Nobody = Nobody
  Msgs = {m1, m2}
  Peers = {p, q}
  StaticPeers = {q}
  Uploads <- ThreeUploads
  StorageLimit = 1
  Scenes <- TwoScenes
PROPERTIES
  MarksByHash
  WokenOnce
