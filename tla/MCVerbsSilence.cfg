SPECIFICATION Spec
CONSTANTS
  a1 = a1
  relay = relay
  Asks <- OneAsk
  Relay = relay
  Tried = {"contact", "search"}
  MAX_ATTEMPTS = 2
  MaxOff = 1
  MaxFlips = 0
  MaxMishaps = 0
CHECK_DEADLOCK FALSE
INVARIANT NeverQuietByAccident
