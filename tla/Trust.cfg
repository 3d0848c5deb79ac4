CONSTANTS
  Devices = {1, 2}
  Dialers = {1}
  Codes = {TRUE,FALSE}
  MaxSessions = 2
  MaxOffers = 2
  Forgets = 1
  Faults = {"touch","cut","save"}
  MaxFaults = 1
SPECIFICATION TrustSpec
INVARIANTS ListIsAgreed OneKey
CHECK_DEADLOCK FALSE
