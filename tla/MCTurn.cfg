SPECIFICATION Sum
CONSTANTS
  Turn = {t1, t2}
  Chat = {c}
  Ttl = 3
  Grace = 1
  MaxSends = 2
  MaxTools = 1
  Capacity = 1
  MaxClock = 4
  MaxRestarts = 1
  Asks = {a1}
  Relay = relay
  Tried = {"text", "voice", "image", "search", "fetch", "history", "schedule", "pageNew", "contact", "peerAsk", "edit", "typing"}
  MAX_ATTEMPTS = 2
  MaxOff = 1
  MaxFlips = 1
  MaxMishaps = 1
  Posts <- TwoPosts
  Activities = {"a1"}
  Services = {"eu", "us"}
  SEEN = 1
  JWKS_TTL = 3
  TOKEN_MARGIN = 1
  TokenLife = 2
  MaxNow = 3
  MaxRotations = 1
  MaxTroubles = 1
SYMMETRY TurnSymmetry
CHECK_DEADLOCK FALSE
INVARIANTS
  Types
  AllowanceIsPerTurn
  SilenceHasAReason
PROPERTIES
  ClosedTurnFallsSilent
  VoiceExpires
  ToldTheTruth
  TeamsIsSound
