SPECIFICATION ChainSpec
CONSTANTS
  a = a
  b = b
  c = c
  dev = dev
  dis = dis
  ch = ch
  Nodes = {a, b, c}
  Subscribers = {dev}
  Channels = {ch}
  Designated <- Chain
  Hears <- Circle
  Asks <- Moves
  Distros <- NoDistros
  Offline = 1
  Ttl = 2
  PendingCap = 4
  MostPushes = 2
PROPERTY SubscribedIsPrimary
CHECK_DEADLOCK FALSE
