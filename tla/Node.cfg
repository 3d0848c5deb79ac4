CONSTANTS
  Nodes = {a, b}
  Paged = {2}
  Faults = {"lost", "bad", "space", "full", "failed"}
  MaxFaults = 2
  MaxChans = 3
  MaxOffers = 2
  MaxLines = 3
SPECIFICATION FairSpec
INVARIANTS OffersAreHeld ServedWasAccepted
PROPERTY EndIsSeen
CHECK_DEADLOCK FALSE
