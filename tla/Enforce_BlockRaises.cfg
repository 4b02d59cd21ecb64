SPECIFICATION Spec
CONSTANTS
  OnFails = {"block", "retry"}
  Retries = {1}
  MaxClauses = 2
  MaxEvents = 1
INVARIANT BlockRaises
CHECK_DEADLOCK FALSE
