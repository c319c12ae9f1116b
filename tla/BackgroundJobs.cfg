SPECIFICATION FairSpec
CONSTANTS
  Jobs = {j1}
  Workers = {w1, w2}
  NoJob = NoJob
  NoWorker = NoWorker
  MaxAttempts = 2
  LeaseTicks = 2
  RetryTicks = 1
  MaxMessages = 2
  MaxFaults = 2
CHECK_DEADLOCK FALSE
INVARIANTS
  TypeOK
  ChainAgreesWithRow
PROPERTIES
  OnlyLatestClaimCommits
  CancelStopsAttempts
  KeepsPromise
  JobsSettle
