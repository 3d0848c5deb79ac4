CONSTANTS
  Items = {1,2}
  ChunksOf <- TwoAndOne
  Had <- OneOfEach
  MaxOpen = 1
  Conns = {1,2}
  Room = 1
  Plans <- Runs
SPECIFICATION FairSendSpec
INVARIANT DigestIsOffered ReadFilesAreOpen
PROPERTY ServeEnds
CHECK_DEADLOCK FALSE
