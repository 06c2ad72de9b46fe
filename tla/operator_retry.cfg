SPECIFICATION OpSpec
CONSTANTS
  Splitters = {s1}
  Parsers = {p1}
  Embedders = {e1}
  NoOwner = NoOwner
  Pages = 1
  PlanLen = 1
  Plan <- PlanPage
  IsPDF = TRUE
  ShardPages = 2
  MaxShardAttempts = 1
  EmbedMaxAttempts = 2
  FaultKinds = {"operator", "raw"}
  MaxFaults = 1
  LeaseExceedsIdle = FALSE
  Ops = {"shards", "embed", "rechunk", "full", "repair"}
  MaxOps = 1
INVARIANTS RetryKeepsCounters
