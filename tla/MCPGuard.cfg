SPECIFICATION FairSpec
CONSTANTS
  c1 = c1
  c2 = c2
  Calls = {c1, c2}
  Tools = {"read"}
  BlockDestructive = TRUE
  Policies = {"hint", "strict"}
  Expires = TRUE
  MaxPages = 2
  Endless = TRUE
  MaxChanges = 1
INVARIANT OnlySafeSent
PROPERTIES FailureBlocks CallSettles
CHECK_DEADLOCK FALSE
