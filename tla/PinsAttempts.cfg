CONSTANTS
  PINs = {p1}
  Conns = {c1, c2, c3}
  Attempts = 2
  MaxSeries = 2
  None = None
  Timer = Timer
SPECIFICATION FairSpec
INVARIANTS GuessesBounded AttemptsAreOnThisCode
PROPERTIES DelayEnds
CHECK_DEADLOCK FALSE
