CONSTANTS
  w1 = w1
  w2 = w2
  InRoot = TRUE
  BatchFiles = 2
  MaxAttempts = 2
  DigestIndex = 9
  Plans <- FileOrBatch
SPECIFICATION FairSpec
INVARIANTS NamedIsVerified NoItemForgotten DoneFrameIsTrue
PROPERTIES KeptForResume RunEnds
CHECK_DEADLOCK FALSE
