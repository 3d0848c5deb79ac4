CONSTANTS
  Chunks = {c1, c2}
  Inodes = {f1, f2, f3}
  Writers = 2
  CommitChunks = 2
  VerifyTail = 1
  Owned = FALSE
  Overwrite = FALSE
  Batching = FALSE
  Faults <- AllFaults
  SyncDrops = FALSE
  Crashes = {"kill","power"}
  UserActs = {"create","delete"}
  None = None
  User = User
  Header = Header
SPECIFICATION MCSpec
SYMMETRY ChunkAndInodeSymmetry
INVARIANTS InvariantJ NamedIsComplete
PROPERTIES NothingKeptIsLost KeepsItsPromise
CHECK_DEADLOCK FALSE
