SPECIFICATION Spec
CONSTANTS
  JobIds = {j1}
  Workers = {w1}
  Concurrency = 2
  NoSlot = NoSlot
  NoJob = NoJob
  MaxAttempts = 2
  MaxStalledCount = 1
  Sweeps = {m1}
  FailedWindow = 2
  Ageing = {"createdAt", "finishedAt", "cancelledAt"}
  Kind <- AllFlaky
  MaxFaults <- DeletionFaults
INVARIANTS
  TypeOK
  TimestampsMatchStatus
  ExhaustedIsFailed
PROPERTIES
  FinishedStaysFinished
  ImplementsLifecycle
