SPECIFICATION ClientsSpec
CONSTANTS
  t1 = t1
  t2 = t2
  t3 = t3
  t4 = t4
  u1 = u1
  u2 = u2
  JobIds <- TestsAndOthers
  TestIds <- FourTests
  Class <- TwoClasses
  MaxAttempts = 1
  MaxPolls = 2
INVARIANTS
  ClientsTypeOK
  PassedIsCompleted
  FailedIsReal
  FiguresFitTogether
PROPERTIES
  TestAnswers
CHECK_DEADLOCK FALSE
