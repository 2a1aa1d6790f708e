SPECIFICATION Spec
CONSTANTS
  m1 = m1
  m2 = m2
  m3 = m3
  c1 = c1
  c2 = c2
  Msg <- TwoMessages
  Chat <- TwoChats
  ChatOf <- MsgChat
  Stamp <- MsgStamp
  MaxBatch = 1
  MaxFailures = 0
  MaxRestarts = 0
PROPERTY HoldStopsDelivery
CHECK_DEADLOCK FALSE
