SPECIFICATION Spec
CONSTANTS
  Sessions = {s1}
  Turns = {t1, t2, t3}
  Deletes = {d1}
  Stops = {x1}
  MaxConcurrent = 2
  NoEntry = NoEntry
  NoSession = NoSession
SYMMETRY Symmetry
INVARIANTS ExclusiveSession TokensConserved
PROPERTIES HistoryGrows
CHECK_DEADLOCK FALSE
