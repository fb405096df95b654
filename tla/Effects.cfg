SPECIFICATION EffectsSpec
CONSTANTS
  KeepReasoning = 1
  KeepToolArgs = 1
  ReasoningCap = 2
  ArgsCap = 2
  Marker = 1
  Window = 18
  Reserved = 4
  Overhead = 1
  KeepRecent = 2
  Preserve = 6
  SummarySize = 1
  RealUsage = TRUE
  Automatic = TRUE
  UserSizes = {1}
  Thinks = {3}
  CallsMade <- Work
  ReplySize = 2
  TrimCap = 6
  PromptSize = 1
  Under = 0
  MaxTs = 8
  MaxRetries = 2
  MaxResponse = 3
  MaxBytes = 2
  ExitCodes = {0, 1}
  Recycles = TRUE
  Calls = {e1, e2, w1}
  e1 = e1  e2 = e2  w1 = w1  x = x  y = y
  Op <- MCOp
  Initial <- MCInitial
  MaxFileSize = 4
  NoOne = NoOne
  Refused = Refused
INVARIANTS
  RequestFits LatestSeen SummaryKeepsAll FoldedIsSuperseded
  ShownOnce NoSilentPartial
  NoGroupSurvivor CodeIsTrustworthy
  NoLostEdit AnswerIsTrue
PROPERTIES
  NoStaleCompaction
  CallReturns ShellReturns
CHECK_DEADLOCK FALSE
