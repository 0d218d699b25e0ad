SPECIFICATION Spec
CONSTANTS
  JobIds = {j1}
  Workers = {w1}
  Concurrency = 1
  NoSlot = NoSlot
  NoJob = NoJob
  MaxAttempts = 2
  MaxStalledCount = 1
  Sweeps = {m1, m2}
  FailedWindow = 2
  Ageing = {"createdAt", "processingStartedAt"}
  Kind <- AllFlaky
  MaxFaults <- MixedErrors
INVARIANTS
  FailedIsExhausted
