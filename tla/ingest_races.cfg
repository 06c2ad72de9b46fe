SPECIFICATION Spec
CONSTANTS
  Splitters = {s1, s2}
  Parsers = {p1, p2}
  Embedders = {}
  NoOwner = NoOwner
  Pages = 2
  PlanLen = 1
  Plan <- PlanOne
  IsPDF = TRUE
  ShardPages = 2
  MaxShardAttempts = 2
  EmbedMaxAttempts = 2
  FaultKinds = {"overrun", "splitter", "parser", "janitor", "raw", "api", "delete"}
  MaxFaults = 1
  LeaseExceedsIdle = FALSE
SYMMETRY Symmetry
INVARIANTS PagesCovered CountersNeverUndercount
