SPECIFICATION FairSpec
CONSTANTS
  Member = {alice, bob}
  Author = alice
  Seated = {alice}
  MaxMembers = 2
  MaxDials = 2
  MaxKicks = 0
  Named = {}
  Renamers = {}
  Faults = {"drop"}
CHECK_DEADLOCK FALSE
PROPERTIES WaitingMemberIsCovered
