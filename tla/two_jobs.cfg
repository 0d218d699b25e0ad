SPECIFICATION FairSpec
CONSTANTS
  JobIds = {j1, j2}
  Workers = {w1}
  Concurrency = 1
  NoSlot = NoSlot
  NoJob = NoJob
  MaxAttempts = 2
  MaxStalledCount = 1
  Sweeps = {m1}
  FailedWindow = 1
  Ageing = {}
  Kind <- OneUnknown
  MaxFaults <- MixedErrors
INVARIANTS
  CompletedWasExecuted
PROPERTIES
  FinishedUnlessStranded
  TransientIsRetried
