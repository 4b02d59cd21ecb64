SPECIFICATION ClockSpec
CONSTANTS
  Stamps = {1, 2}
  MaxNow = 5
  MaxRecorded = 3
  MaxSetBacks = 1
  MaxRestarts = 1
PROPERTIES NeverOvercounts NothingHidden
CHECK_DEADLOCK FALSE
