SPECIFICATION Spec
CONSTANTS
  Files = {f1, f2, f3}
  Workers = {w}
INVARIANTS NothingLeft ListIsDisk
CHECK_DEADLOCK FALSE
