SPECIFICATION Spec
CONSTANTS
  Splitters = {s1}
  Parsers = {p1, p2}
  Embedders = {e1}
  NoOwner = NoOwner
  Pages = 2
  PlanLen = 1
  Plan <- PlanOne
  IsPDF = TRUE
  ShardPages = 2
  MaxShardAttempts = 3
  EmbedMaxAttempts = 2
  FaultKinds = {"parser", "janitor"}
  MaxFaults = 2
  LeaseExceedsIdle = FALSE
SYMMETRY Symmetry
INVARIANTS TypeOK ClaimExclusive DoneCountsRows NoOrphanShard
PROPERTIES DoneIsFinal
