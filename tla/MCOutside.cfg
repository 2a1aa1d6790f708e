SPECIFICATION Sum
CONSTANTS
  Conns = {c1, c2, c3}
  Hosts = {"listed", "under", "numeric"}
  Exact = {"listed"}
  Suffixed = {"under"}
  Any = TRUE
  Numeric = {"numeric"}
  Addresses = {"public", "private"}
  Blocked = {"private"}
  MAX_TUNNELS = 1
  Unanswered = 2
  MaxExits = 1
  Asks = {a1, a2}
  Look = {a2}
  TEXT_TIMEOUT = 1
  LOOK_TIMEOUT = 2
  STALE = 1
  HEARTBEAT_STALE = 0
  ORPHAN = 3
  MaxFaults = 1
  Calls = {k1, k2}
  Foreign = FALSE
  MaxCallCrashes = 1
  Names <- TwoFiles
  Ids = {"x"}
  MAX_ATTEMPTS = 2
  MAX_PER_TICK = 2
  PerHour = 1
  MaxWritten = 2
  MaxFlips = 1
  MaxSendFails = 1
  MaxUnclean = 1
  Pids = {1, 2}
  Messages = {m1, m2, m3}
  Stale = {m3}
  SEEN = 1
  Deliveries = 2
  MaxSockets = 3
  MaxTroubles = 3
  MaxRestarts = 1
  TICKS = 2
  MINUTES = 2
  HOURS = 4
  ShortMonth = 2
  LongMonth = 3
  WEEK = 3
  Zones <- ClockZones
  Expressions <- ClockExpressions
  Said <- ClockSaid
  Starts = {20, 27, 36, 41}
  MAX_SCAN_DAYS = 6
  MaxInstant = 70
  Jobs = {1, 2}
  PerDay <- OneADay
  Keys = 2
  VMAX_ATTEMPTS = 2
  MaxPolls = 2
  MaxThrows = 2
  MaxCrashes = 1
CHECK_DEADLOCK FALSE
INVARIANTS
  Types
  TunnelsHold
  PaidUsesHold
  AnswerMeansReady
  OncePerReceipt
  ClockIsKept
PROPERTIES
  ToldTheTruth
  HandedOnAgainOnlyWhenForgotten
  NothingHangs
