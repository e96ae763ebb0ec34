SPECIFICATION SeatedSpec
CONSTANTS
  Member = {alice, bob, carol}
  Author = alice
  Seated = {alice, bob}
  MaxMembers = 3
  MaxDials = 2
  MaxKicks = 1
  Named = {}
  Renamers = {bob}
  Faults = {"timeout"}
VIEW View
CHECK_DEADLOCK FALSE
INVARIANTS ListsAgree VerifiedIsListed EjectedWasKicked
