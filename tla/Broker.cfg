SPECIFICATION FairSpec
CONSTANTS
  Sockets = {s1, s2, s3}
  Rooms = {r1, r2, r3}
  PeerIds = {p1, p2, p3}
  NoRoom = NoRoom
  NoPeer = NoPeer
  MaxRooms = 2
  MaxGroupPeers = 2
  MaxConnections = 3
  MaxBuffered = 0
INVARIANTS
  SeatingHolds
  ViewsAreTrue
PROPERTIES
  DeathIsAnnounced
