SPECIFICATION Spec
CONSTANTS
  Eol = "eol"
  Inputs <- SomeInputs
  Bounds = {7, 20, 1000}
  LineSize = 2
  LineBytes = {3, 6}
  SIZE_MAX = 65535
INVARIANTS EachLineOnce
PROPERTIES Terminates
CHECK_DEADLOCK FALSE
