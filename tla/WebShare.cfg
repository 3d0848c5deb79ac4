CONSTANTS
  Uploads = {u}
  Forms = {f}
  Downloads = {d}
  Files = 1
  Chunks = 2
  Names <- AllNames
  NameOf <- NamesOfTheirOwn
  Existing <- HostHasOne
  Slots = {s1, s2}
  HostActs = {"pause","cancel","reject","auto","shared","full"}
  PageActs = {"pause","stop","leave"}
  MaxActs = 1
  None = None
SPECIFICATION MCFairSpec
INVARIANTS WholeWhenTold WaiterCanBeResumed
PROPERTY RequestsEnd
CHECK_DEADLOCK FALSE
