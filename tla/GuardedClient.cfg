SPECIFICATION FairSpec
CONSTANTS
  c1 = c1
  c2 = c2
  Kind = "anthropic"
  Calls = {c1, c2}
  Amounts = {1, 2}
  Budget = 3
  OnViolation = "block"
  Tools = {"search", "delete"}
  Forbidden = {"delete"}
INVARIANTS TypeOK SettledOnce ForbiddenBlocked WithinBudget
PROPERTIES UnknownKeepsEstimate RefinesLedger EventuallySettled
CHECK_DEADLOCK FALSE
