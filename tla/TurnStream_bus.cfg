SPECIFICATION FairSpec
CONSTANTS
  Poster = p
  Watchers = {w1}
  MaxLines = 4
  BufCap = 2
  ChanCap = 1
INVARIANTS NoGapNoDuplicate SubscribersWhole BufferIsTail
PROPERTIES ImplementsFeed EngineNeverHeldUp ResponsesEnd
CHECK_DEADLOCK FALSE
