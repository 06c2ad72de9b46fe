SPECIFICATION TextSpec
CONSTANTS
  Stages = {"stitch"}
  MaxPages = 7
  MaxWindow = 4
  MaxMarks = 3
  Shelves <- AllShelves
  Books <- AllBooks
  AbsoluteMax = 8
  ChopWindow = 3
  DefaultOverlap = 9
  TinyChunk = 1
  MinTarget = 2
  MinHeuristic = 1
  ParentSize = 4
  ChildSize = 2
  BookOverlap = 2
  TokenCounts <- AllCounts
  CtxBudget = 3
  BatchSize = 2
  EmRetries = 5
  EmThreshold = 5
  CvRetries = 5
  CvThreshold = 5
  CvRefuseProbe = FALSE
INVARIANTS OnlyHeadingDropped
CHECK_DEADLOCK FALSE
