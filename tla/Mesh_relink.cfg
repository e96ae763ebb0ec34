SPECIFICATION FairSpec
CONSTANTS
  Seat = {1, 2}
  MaxPeers = 1
  None = None
  Faults = {"ice"}
  MaxFaults = 1
PROPERTY PairsRelink
CHECK_DEADLOCK FALSE
