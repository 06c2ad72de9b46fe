SPECIFICATION Spec
CONSTANTS
  Jobs = {j1}
  NoJob = NoJob
  Poison = {j1}
  Workers = {w1, w2}
  Ids = {1, 2, 3}
  Prefetch = 2
  ClaimBatch = 2
  ScanPage = 4
  DeliveryCap = 5
  Faults = {"worker", "janitor", "redis", "slow"}
  MaxFaults = 5
SYMMETRY Symmetry
INVARIANTS NoJobLost
