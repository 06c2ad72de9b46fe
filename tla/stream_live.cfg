SPECIFICATION FairSpec
CONSTANTS
  Jobs = {j1, j2}
  NoJob = NoJob
  Poison = {}
  Workers = {w1}
  Ids = {1, 2, 3, 4}
  Prefetch = 2
  ClaimBatch = 2
  ScanPage = 4
  DeliveryCap = 5
  Faults = {"worker", "handler", "janitor", "redis", "slow"}
  MaxFaults = 1
INVARIANTS ScanComplete
PROPERTIES AtLeastOnce Dispatched
