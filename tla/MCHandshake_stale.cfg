SPECIFICATION Spec
CONSTANTS
  alice = alice
  bob = bob
  c1 = c1
  c2 = c2
  Peer <- MCPeer
  Codes <- MCCodes
  NoCode = NoCode
  None = None
  Invitations <- Differing
  Contacts = {"nobody"}
  MaxConn = 2
  MaxTexts = 0
  Faults = {"leave"}
PROPERTIES FailureIsCurrent
CHECK_DEADLOCK FALSE
