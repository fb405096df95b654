SPECIFICATION StoresSpec
CONSTANTS
  p1 = p1
  p2 = p2
  Procs = {p1, p2}
  Inodes = {i1, i2, i3}
  MaxBytes = 4
  MaxFaults = 1
  MaxSaves = 2
  Appends = TRUE
  None = None
  Machines = {m1, m2}
  MaxTurns = 5
  MaxLosses = 2
  PageSize = 2
  Guarded = TRUE
  Late = FALSE
  Stops = TRUE
  Absent = Absent
  Browsers = {b1, b2}
  n1 = n1  n2 = n2  n3 = n3  web = web  k1 = k1  k2 = k2
  Names = {n1, n2, n3}
  Web = web
  Keys = {k1, k2}
  NoKey = NoKey
  Mask = Mask
  NoConfig = NoConfig
  FirstConfig <- MCFirst
  OthersEdit = TRUE
  MaxChanges = 2
INVARIANTS
  NoGluedLine PathLoads SavedIsDurable AckedTurnsStay KeysBelong
PROPERTIES
  SavesReturn
CHECK_DEADLOCK FALSE
