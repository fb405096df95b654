SPECIFICATION FairSpec
CONSTANTS
  Histories <- AnyHistory
  CallIds = {a, b}
  UniqueIds = TRUE
  MaxCalls = 1
  MaxIter = 2
  Parallel = 1
  Budget = 3
  PanicPoints = {"before", "retry", "after"}
INVARIANTS
  TranscriptIsHistoryPlusNew
  CancelNotSwallowed
PROPERTIES
  TurnReturns
