SPECIFICATION Sum
CONSTANTS
  p1 = p1
  p2 = p2
  l1 = l1
  ann = ann
  None = None
  Phones <- TwoPhones
  Lids <- OneLid
  Persons <- Ann
  Person <- Hers
  Forms <- Anyhow
  Handles = {h1, h2}
  Slots = {r1, r2}
  DPeople = {"ann"}
  DChats = {"c"}
  DNone = "none"
  MAX_FAILURES = 1
  WINDOW = 0
  JWKS_TTL = 1
  MaxNow = 2
  MaxRequests = 3
  MaxRotations = 1
  Slugs = {"s"}
  GChats = {"c"}
  Words = {"w"}
  Open = TRUE
  MAX_IMAGES_PER_PAGE = 1
  Entries = {"e"}
  MaxHands = 1
  MaxFaults = 2
  Typed = {1}
  Rooms = {"room"}
  Alone = {"alone"}
  MaxResets = 1
  MaxDrops = 1
  MaxUnsaved = 1
  MaxRestarts = 1
SYMMETRY Symmetry
CHECK_DEADLOCK FALSE
INVARIANTS
  Types
  BlockHoldsOnceMerged
  MessagesGoToTheSurvivor
  PanelIsFair
PROPERTIES
  PagesAreAsSaid
  SilenceIsTheOperatorsToLift
