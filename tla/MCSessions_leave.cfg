SPECIFICATION MCSpec
CONSTANTS
  MaxCalls = 4
  MaxLeaves = 1
  None = None
  GroupId = {g1}
  MaxHosts = 3
  MaxTasks = 4
  MaxMessages = 2
  Nowhere = Nowhere
  MaxEpoch = 3
INVARIANT LeaveIsFinal
CHECK_DEADLOCK FALSE
