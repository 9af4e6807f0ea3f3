SPECIFICATION FairSpec
CONSTANTS
  s = s
  u = u
  Subs = {s, u}
  Tokens = 2
  NoToken = NoToken
  Gateways = {"sandbox", "production"}
  Scenes <- ThreeScenes
  MaxPackets = 3
  MaxLosses = 1
  MaxWakes = 2
INVARIANTS
  KeyedOnce
  LastTokenStands
PROPERTIES
  RouteComesBack
  PurgeIsDeserved
CHECK_DEADLOCK FALSE
