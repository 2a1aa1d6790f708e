SPECIFICATION Spec
CONSTANTS
  c1 = c1
  c2 = c2
  Chats <- TwoChats
  None = None
  Hour = 2
  HoursPerDay = 2
  PerHour = 1
  Burst = 1
  TurnsPerDay = 1
  NewPerHour = 1
  OutPerHour = 1
  PaidPerDay = 1
  MaxBatch = 1
  Lag = 1
  Horizon = 4
  MaxCalls = 3
  MaxFaults = 1
SYMMETRY ChatSymmetry
CHECK_DEADLOCK FALSE
INVARIANTS
  TypeOK
  LimitsHold
