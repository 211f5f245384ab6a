SPECIFICATION Spec
CONSTANTS
  N = 4
  MaxTemps = 6
  Scenarios <- ShedInput
INVARIANTS Survives
CHECK_DEADLOCK FALSE
