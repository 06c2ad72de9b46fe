SPECIFICATION Spec
CONSTANTS
  Splitters = {s1}
  Parsers = {p1, p2}
  Embedders = {e1}
  NoOwner = NoOwner
  Pages = 2
  PlanLen = 1
  Plan <- PlanOne
  IsPDF = TRUE
  ShardPages = 2
  MaxShardAttempts = 2
  EmbedMaxAttempts = 2
  FaultKinds = {"api", "splitter", "parser", "embedder", "backend", "janitor", "raw"}
  MaxFaults = 1
  LeaseExceedsIdle = FALSE
SYMMETRY Symmetry
INVARIANTS SettledWhenParsed
