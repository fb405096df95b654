SPECIFICATION Spec
CONSTANTS
  Histories <- ShortHistory
  CallIds = {a, b}
  UniqueIds = TRUE
  MaxCalls = 2
  MaxIter = 2
  Parallel = 1
  Budget = 2
  PanicPoints = {"before", "retry", "after"}
SYMMETRY Symmetry
INVARIANTS
  TranscriptAnswered
  SessionLoads
  ToolsJoined
  DeniedNeverRun
