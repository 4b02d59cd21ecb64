SPECIFICATION Spec
CONSTANTS
  t1 = t1
  t2 = t2
  outer = outer
  inner = inner
  Tasks <- MCTasks
  Adapters <- MCAdapters
  SDKs = {"openai", "anthropic", "gemini", "litellm"}
  PricesMove = TRUE
  MaxParts = 2
  MaxBlocks = 3
  MaxCalls = 1
INVARIANTS
  StackKept
  CallsRecorded
SYMMETRY Symmetry
CHECK_DEADLOCK FALSE
