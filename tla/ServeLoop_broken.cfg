SPECIFICATION Spec
CONSTANTS
  Turns = {t1}
  Reloads = {r1, r2}
  MaxGen = 2
INVARIANTS KeepsCurrentConfig
CHECK_DEADLOCK FALSE
