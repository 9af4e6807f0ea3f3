SPECIFICATION ChainSpec
CONSTANTS
  a = a
  b = b
  c = c
  dev = dev
  dis = dis
  ch = ch
  Nodes = {a, b, c}
  Subscribers = {dev, dis}
  Channels = {ch}
  Designated <- Chain
  Hears <- Line
  Asks <- Batches
  Distros <- DistroAtB
  Offline = 1
  Ttl = 2
  PendingCap = 1
  MostPushes = 2
PROPERTY KeptUntilTaken
CHECK_DEADLOCK FALSE
