SPECIFICATION FairSpec
CONSTANTS
  Member = {alice, bob, carol}
  Author = alice
  Seated = {alice}
  MaxMembers = 2
  MaxDials = 2
  MaxKicks = 1
  Named = {}
  Renamers = {}
  Faults = {"drop", "leave"}
CHECK_DEADLOCK FALSE
INVARIANTS SignedIsCurrent
PROPERTIES EpochNeverRegresses GossipArrives
