SPECIFICATION Sum
CONSTANTS
  Turns = 2
  Direct <- DirectTurns
  NoAck = 1
  BridgeTimeout = 3
  AgentTimeout = 3
  ReadyTimeout = 2
  MaxStops = 1
  MaxRestarts = 1
  Stragglers = TRUE
  IDLE_REAP = 2
  TURN_TIMEOUT = 1
  MaxTurns = 3
  MaxResets = 1
  MaxSaves = 2
  MaxDeaths = 1
  MaxBadWrites = 1
  Texts = {"a", "b", "long"}
  TooLong = {"long"}
  MAX_NOTES = 3
  MEMORY_IN_BRIEF = 2
  MAX_CATCHUP = 1
  MaxIds = 4
  Labels = {"a", "b"}
  TTL = 1
  MaxNow = 3
  MaxFlights = 3
  MaxLabelled = 1
  MaxBoxes = 2
  Hands = {"operator", "agent"}
  KEEP_PER_CHAT = 1
  OMaxIds = 2
  MaxDrops = 1
  RMaxDrops = 1
  MaxAdded = 1
  RMaxTurns = 2
CHECK_DEADLOCK FALSE
INVARIANTS
  Types
  HandoverIsSafe
  PoolKeepsTrack
  MarkerDividesMemory
  RecordsAreTrue
PROPERTIES
  AgentComesBack
