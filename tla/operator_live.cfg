SPECIFICATION OpFairSpec
CONSTANTS
  Splitters = {s1}
  Parsers = {p1}
  Embedders = {e1}
  NoOwner = NoOwner
  Pages = 1
  PlanLen = 1
  Plan <- PlanPage
  IsPDF = FALSE
  ShardPages = 2
  MaxShardAttempts = 2
  EmbedMaxAttempts = 2
  FaultKinds = {"api", "splitter", "parser", "embedder", "backend", "janitor", "raw", "operator", "delete"}
  MaxFaults = 1
  LeaseExceedsIdle = FALSE
  Ops = {"shards"}
  MaxOps = 1
PROPERTIES Finishes DeletedDrains
