SPECIFICATION Spec
CONSTANTS
  Splitters = {s1}
  Parsers = {p1, p2}
  Embedders = {e1}
  NoOwner = NoOwner
  Pages = 2
  PlanLen = 2
  Plan <- PlanSingles
  IsPDF = TRUE
  ShardPages = 2
  MaxShardAttempts = 1
  EmbedMaxAttempts = 2
  FaultKinds = {"parser", "embedder", "backend", "redis", "delete"}
  MaxFaults = 1
  LeaseExceedsIdle = FALSE
SYMMETRY Symmetry
INVARIANTS NoRowsWithoutDocument ReadyIsComplete SettledWhenParsed CountersNeverUndercount
