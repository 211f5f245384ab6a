SPECIFICATION FairSpec
CONSTANTS
  Tree <- LongTree
  NLines = 16
  TableLines <- LongRoom
  Inputs <- LongInputs
  Unique = TRUE
  SUBTHREAD_LINES_HEURISTIC = 4
  SIZE_MAX = 65535
INVARIANTS TypeOK CountsExact LinesKept
PROPERTIES StoresOncePerHold ImplementsFairly Terminates
