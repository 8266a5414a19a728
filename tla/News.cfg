CONSTANTS
  Article = {a1, a2, a3}
  Signal = {a1, a2}
  PageLimit = 1
  Pages = 2
  Overlap = 1
  FirstSpan = 1
  MaxLag = 2
  MaxNow = 5
  MaxFaults = 1
  MaxBackfills = 1
SPECIFICATION LiveSpec
INVARIANTS TypeOK NoGap
PROPERTIES CatchesUp
CHECK_DEADLOCK FALSE
