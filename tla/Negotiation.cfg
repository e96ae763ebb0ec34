SPECIFICATION FairSpec
CONSTANTS
  Peer = {a, b}
  Polite = {b}
  Eager = {b}
  None = None
  Faults = {"network", "reject"}
  MaxSpawn = 2
  MaxFaults = 1
INVARIANTS SameChannel InTurn
PROPERTIES NoStaleOffer Converges
CHECK_DEADLOCK FALSE
