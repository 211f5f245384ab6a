SPECIFICATION FairSpec
CONSTANTS
  N = 12
  MaxTemps = 13
  Scenarios <- AllScenarios
INVARIANTS StableOrder InputNotTrashed SubprocessBound FailureSeen Survives
PROPERTIES Terminates
CHECK_DEADLOCK FALSE
