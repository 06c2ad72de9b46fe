SPECIFICATION CatSpec
CONSTANTS
  Requests = {r1, r2}
  Collections = {"c1", "cx"}
  Known = {"c1"}
  Bodies <- TwoBooks
  Feeds <- OneFeed
  ClientCases = {"lower"}
  LatePut = FALSE
  MaxIds = 2
  MaxBacklog = 0
  MaxPages = 1
  MaxPdfSize = 1
  MaxNonPdfSize = 1
  MaxFaults = 1
  RgReqs = {r1, r2}
  ModelIds = {1, 2}
  ColIds = {1}
  ModelBodies <- FourBodies
  SeedDim = 1
  SeedReranker = TRUE
  BootAttempts = 5
  DdlAttempts = 3
  MaxOps = 3
  MaxDdlFaults = 1
  Sessions = {r1, r2}
  NShards = 2
  Attempts = 3
  MaxTxFaults = 1
  SeCols = {1, 2, 3}
  SeModels = {1, 2}
  SeCorpus <- Corpus
  SeBindings <- Bindings
  SeRequests <- Searches
  Candidates = 3
  MaxSeChanges = 1
SYMMETRY Symmetry
INVARIANTS
  RowsMatchContents AcceptedOnce AnswerHolds BoundedOvershoot
  BindingsServed NoDuplicateIndex LockOrder CommittedOnce
  WhereAsked FullPage
CHECK_DEADLOCK FALSE
