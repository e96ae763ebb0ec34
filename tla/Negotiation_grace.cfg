SPECIFICATION Spec
CONSTANTS
  Peer = {a, b}
  Polite = {b}
  Eager = {}
  None = None
  Faults = {"network"}
  MaxSpawn = 2
  MaxFaults = 1
PROPERTY GraceCloseIsQuiet
CHECK_DEADLOCK FALSE
