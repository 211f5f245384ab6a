SPECIFICATION Spec
CONSTANTS
  Tree <- ThreeTree
  NLines = 7
  TableLines <- ThreeRoom
  Inputs <- ThreeInputs
  Unique = FALSE
  SUBTHREAD_LINES_HEURISTIC = 4
  SIZE_MAX = 65535
INVARIANTS QueuedOnce NeverStranded EndMeansDone
PROPERTIES Implements
