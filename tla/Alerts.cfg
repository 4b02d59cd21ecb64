SPECIFICATION Spec
CONSTANTS
  t1 = t1
  t2 = t2
  budget = budget
  egress = egress
  Threads <- MCThreads
  Clauses <- MCClauses
  Windows <- MCWindows
  MaxBuffer = 2
  Throttle = 2
  MaxViolations = 2
  MaxTime = 3
INVARIANTS
  TypeOK
  NoneUncounted
  EndLeavesNone
  ThrottleExact
SYMMETRY Symmetry
CHECK_DEADLOCK FALSE
