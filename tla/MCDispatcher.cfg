SPECIFICATION Spec
CONSTANTS
  m1 = m1
  m2 = m2
  m3 = m3
  c1 = c1
  c2 = c2
  Msg <- ThreeMessages
  Chat <- TwoChats
  ChatOf <- MsgChat
  Stamp <- MsgStamp
  MaxBatch = 1
  MaxFailures = 1
  MaxRestarts = 1
CHECK_DEADLOCK FALSE
INVARIANT QueueIsSound
PROPERTY KeepsContract
