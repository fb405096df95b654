SPECIFICATION RemoteSpec
CONSTANTS
  Machines = {m1, m2}
  MaxTurns = 1
  MaxLosses = 0
  PageSize = 2
  Guarded = TRUE
  Late = FALSE
  Stops = TRUE
  Absent = Absent
SYMMETRY Symmetry
INVARIANTS ExecutedPartIsSaved
CHECK_DEADLOCK FALSE
