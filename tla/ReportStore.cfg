SPECIFICATION Spec
CONSTANTS
  r1 = r1
  r2 = r2
  r3 = r3
  Runs <- ThreeRuns
  None = None
  MaxSecond = 1
SYMMETRY RunSymmetry
CHECK_DEADLOCK FALSE
INVARIANTS
  ReportsAreWhole
  AnsweredIsStored
  NothingLeftBehind
