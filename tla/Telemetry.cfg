SPECIFICATION Spec
CONSTANTS
  t1 = t1
  t2 = t2
  outer = outer
  inner = inner
  Tasks <- MCTasks
  Sessions <- MCSessions
  Settings <- MCSettings
  MaxEvents = 2
SYMMETRY Symmetry
INVARIANTS ViolationsPlaced SpansClosed
PROPERTY CallsCounted
CHECK_DEADLOCK FALSE
