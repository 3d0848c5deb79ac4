CONSTANTS
  Peers = {p}
  Trusted = {p}
  None = None
  MaxSessions = 4
  Acts = {"pair","disconnect","dial","leave","reject","cut","stop"}
  MaxActs = 4
SPECIFICATION FairSpec
INVARIANTS GraceIsTimed RedialYields
PROPERTY LostComesBack
CHECK_DEADLOCK FALSE
