SPECIFICATION MCSpec
CONSTANTS
  Size = 3
  MaxSequence = 7
  Seat = {1, 2, 3}
  MaxPeers = 1
  None = None
  Faults = {"ice", "drop", "reject"}
  MaxFaults = 2
  MaxParked = 2
  MaxArrivals = 6
  alice = alice
  bob = bob
  NameCap = 255
  MimeCap = 127
  ChunkBytes = 2
  Budget = 4
  MaxTransfers = 2
  HighWater = 2
  MaxFrames = 5
  MaxSends = 2
  FileFaults = {"cancel", "sweep", "leave", "corrupt"}
INVARIANTS ObservesExactly InStep InboundIsFaithful Accounts HonestPeer
PROPERTIES SurfacesOnce
CHECK_DEADLOCK FALSE
