SPECIFICATION Spec
CONSTANTS
  MaxDrops = 1
  MaxAdded = 1
  MaxTurns = 2
CHECK_DEADLOCK FALSE
INVARIANT TypedIntoItsTurn
