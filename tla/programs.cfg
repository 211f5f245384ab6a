SPECIFICATION Spec
CONSTANTS
  Jobs <- AllJobs
  blanks = {1}
  line_end = 0
  Garbage = 99
  BUFSIZ = 2
  THRESHOLD = 4
  SIZE_MAX = 63
  UINTMAX_MAX = 23
  COUNT_MAX = 4
  MAXWORDS = 6
  MAXCHARS = 12
  max_width = 6
  goal_width = 5
  ENC_BLOCKSIZE = 2
  DEC_BLOCKSIZE = 2
  Eol = 97
  Pad = 98
INVARIANTS SortedInPlace MergedStably KeysOrder HeadKeeps GroupsOnce PairsRight WordsKept SizesAddUp DecodesBack WordsCounted LinesFolded FilesApart TablesShown RelocsApplied ListingsShown SourceShown JumpsDrawn
CHECK_DEADLOCK FALSE
