SPECIFICATION CompactionSpec
CONSTANTS
  KeepReasoning = 1
  KeepToolArgs = 1
  ReasoningCap = 2
  ArgsCap = 2
  Marker = 1
  Window = 18
  Reserved = 4
  Overhead = 1
  KeepRecent = 2
  Preserve = 6
  SummarySize = 1
  RealUsage = TRUE
  Automatic = TRUE
  UserSizes = {1}
  Thinks = {3}
  CallsMade <- Work
  ReplySize = 2
  TrimCap = 6
  PromptSize = 1
  Under = 0
  MaxTs = 9
INVARIANTS FirstRoundRetained
CHECK_DEADLOCK FALSE
