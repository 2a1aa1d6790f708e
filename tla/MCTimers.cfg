SPECIFICATION Sum
CONSTANTS
  Ids <- TwoIds
  Chats <- OneChat
  PerChat = 2
  Total = 2
  MinLead = 1
  Horizon = 1
  Grace = 0
  Period = 2
  MaxTime = 2
  Passes = 2
  MaxFaults = 1
  KeyWindow = 2
  Polls <- TwoPolls
  MaxKeys = 2
  MaxRestarts = 1
CHECK_DEADLOCK FALSE
INVARIANTS
  Types
  RemindersHold
  TypedInOrder
PROPERTIES
  TimersCatchUp
