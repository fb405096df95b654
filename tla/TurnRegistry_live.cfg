SPECIFICATION FairSpec
CONSTANTS
  Sessions = {s1}
  Turns = {t1, t2}
  Deletes = {d1}
  Stops = {x1}
  MaxConcurrent = 1
  NoEntry = NoEntry
  NoSession = NoSession
PROPERTIES
  StopEndsTurn
  SlotsDrain
CHECK_DEADLOCK FALSE
