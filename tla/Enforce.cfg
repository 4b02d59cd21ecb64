SPECIFICATION FairSpec
CONSTANTS
  OnFails = {"block", "approve", "retry", "fallback"}
  Retries = {1}
  MaxClauses = 2
  MaxEvents = 2
INVARIANTS OutcomeExplained SignalsContained RetriesUsedUp MonitorOnlyWatches
PROPERTY CallEnds
CHECK_DEADLOCK FALSE
