SPECIFICATION Spec
CONSTANTS
  Amounts = {"one", "invalid"}
  MaxEvents = 2
  MaxProcesses = 3
  MaxFaults = 1
  MaxForeign = 1
INVARIANTS ChainExact CarriedOver WrittenOnce JudgedUnlessFault
CHECK_DEADLOCK FALSE
