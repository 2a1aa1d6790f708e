SPECIFICATION Spec
CONSTANTS
  i1 = i1
  i2 = i2
  c1 = c1
  c2 = c2
  Ids <- TwoIds
  Chats <- TwoChats
  PerChat = 1
  Total = 2
  MinLead = 1
  Horizon = 2
  Grace = 0
  Period = 2
  MaxTime = 2
  Passes = 2
  MaxFaults = 0
CHECK_DEADLOCK FALSE
INVARIANT EveryPromiseIsAccountedFor
