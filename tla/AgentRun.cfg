SPECIFICATION Spec
CONSTANTS
  Rules <- AllRules
  Guarded = TRUE
  MaxEvents = 4
  MaxTime = 2
  MaxDeaths = 1
INVARIANTS
  HarmPrevented
PROPERTIES
  RatesExact
  ProgressExact
CHECK_DEADLOCK FALSE
