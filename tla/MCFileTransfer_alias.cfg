SPECIFICATION Spec
CONSTANTS
  alice = alice
  bob = bob
  Peer <- MCPeer
  Uploads <- BothWay
  Files <- ShortFiles
  NameCap = 255
  MimeCap = 127
  ChunkBytes = 2
  Budget = 4
  MaxTransfers = 2
  HighWater = 2
  MaxSequence = 5
  MaxSends = 1
  Faults = {}
INVARIANTS SnapshotMirrors
CHECK_DEADLOCK FALSE
