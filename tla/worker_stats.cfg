SPECIFICATION StatsFairSpec
CONSTANTS
  JobIds = {j1}
  Workers = {w1}
  Concurrency = 2
  NoSlot = NoSlot
  NoJob = NoJob
  MaxAttempts = 1
  MaxStalledCount = 1
  Sweeps = {m1}
  FailedWindow = 2
  Ageing = {}
  Kind <- AllFlaky
  MaxFaults <- StatsFaults
INVARIANTS
  ActiveIsInFlight
  
PROPERTIES
  FiguresCatchUp
