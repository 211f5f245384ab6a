SPECIFICATION Spec
CONSTANTS
  MaxThreads = 12
  MaxLines = 40
  SUBTHREAD_LINES_HEURISTIC = 4
INVARIANTS RegionsFit
CHECK_DEADLOCK FALSE
