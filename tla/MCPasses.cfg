SPECIFICATION Sum
CONSTANTS
  m1 = m1
  m3 = m3
  c1 = c1
  c2 = c2
  Home = home
  Other = other
  None = none
  Names <- TwoNames
  OperatorIds <- OneMessage
  Kinds <- AllKinds
  SendsPerTurn = 3
  ToolsPerTurn = 2
  SendsPerHour = 3
  MaxAttempts = 2
  KeepPerChat = 2
  MaxCrashes = 1
  Msg <- TwoMessages
  Chat <- TwoChats
  ChatOf <- MsgChat
  Stamp <- MsgStamp
  MaxBatch = 1
  DMaxFailures = 1
  MaxRestarts = 1
CHECK_DEADLOCK FALSE
INVARIANTS
  Types
  DoneOnceOrReported
PROPERTIES
  EveryPassEnds
  EveryMessageHandedOver
