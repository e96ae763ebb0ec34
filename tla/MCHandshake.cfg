SPECIFICATION Spec
CONSTANTS
  alice = alice
  bob = bob
  c1 = c1
  c2 = c2
  Peer <- MCPeer
  Codes <- MCCodes
  NoCode = NoCode
  None = None
  Invitations <- Typed
  Contacts = {"nobody", "stranger"}
  MaxConn = 2
  MaxTexts = 0
  Faults = {"timeout", "leave", "crash"}
INVARIANTS SessionsAgree PeerProved SessionsAreSound QuietWhenDown
PROPERTIES AuthFailureHasCause LifecycleImplemented BrickedStaysDown
CHECK_DEADLOCK FALSE
