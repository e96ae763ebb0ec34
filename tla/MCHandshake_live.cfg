SPECIFICATION FairSpec
CONSTANTS
  alice = alice
  bob = bob
  c1 = c1
  c2 = c2
  Peer <- MCPeer
  Codes <- MCCodes
  NoCode = NoCode
  None = None
  Invitations <- Matching
  Contacts = {"nobody"}
  MaxConn = 1
  MaxTexts = 1
  Faults = {"timeout", "leave", "drop", "repo"}
PROPERTIES HandshakesSettle
CHECK_DEADLOCK FALSE
