SPECIFICATION FairSpec
CONSTANTS
  N = 2
  MaxTemps = 3
  Scenarios <- SharedCopy
PROPERTIES Terminates
CHECK_DEADLOCK FALSE
