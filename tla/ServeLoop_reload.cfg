SPECIFICATION FairSpec
CONSTANTS
  Turns = {t1, t2}
  Reloads = {r1, r2}
  MaxGen = 2
INVARIANTS
  AttendedTurnsFinish
PROPERTIES
  SignalStopsServer
  AcceptedReloadDrains
CHECK_DEADLOCK FALSE
