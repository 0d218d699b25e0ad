SPECIFICATION Spec
CONSTANTS
  JobIds = {j1}
  Workers = {w1, w2}
  Concurrency = 1
  NoSlot = NoSlot
  NoJob = NoJob
  MaxAttempts = 2
  MaxStalledCount = 1
  Sweeps = {m1}
  FailedWindow = 2
  Ageing = {"createdAt", "processingStartedAt"}
  Kind <- AllFlaky
  MaxFaults <- LockLossOnly
INVARIANTS
  OneWorkerPerJob
