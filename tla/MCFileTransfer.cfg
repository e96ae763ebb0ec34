SPECIFICATION FairSpec
CONSTANTS
  alice = alice
  bob = bob
  Peer <- MCPeer
  Uploads <- OneWay
  Files <- LongFiles
  NameCap = 255
  MimeCap = 127
  ChunkBytes = 2
  Budget = 3
  MaxTransfers = 1
  HighWater = 1
  MaxSequence = 3
  MaxSends = 2
  Faults = {"cancel", "sweep", "leave", "corrupt"}
PROPERTIES SendsSettle InboundReleased
CHECK_DEADLOCK FALSE
