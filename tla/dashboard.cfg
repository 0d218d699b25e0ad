SPECIFICATION DashSpec
CONSTANTS
  Endpoints = {p1, p2}
  Envs = {e1, e2}
  NoEnv = NoEnv
  MaxRounds = 2
  MaxTimers = 2
INVARIANTS
  DashTypeOK
  SpinnerIsFetching
PROPERTIES
  ShowsSelected
  TestEnds
  VerdictLeaves
