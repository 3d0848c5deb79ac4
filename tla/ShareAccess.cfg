CONSTANTS
  Pages = {p}
  Guessers = {g}
  Overlap <- TwoEach
  LockAt = 2
  PanicAt = 4
  MaxGen = 2
  MaxActs = 1
  MaxClicks = 2
SPECIFICATION MCFairSpec
INVARIANTS ApiGuessesBounded UserFailsByRotation
PROPERTY RightCodeOpens
CHECK_DEADLOCK FALSE
