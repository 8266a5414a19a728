CONSTANTS
  Tickers = {a}
  Lot = 2
  MaxOrders = 2
  MaxDay = 2
  MaxTick = 3
  MaxGap = 1
  MaxFaults = 1
SPECIFICATION LiveSpec
INVARIANTS TypeOK BookIsAccount OneEntryPerDay
PROPERTIES EveryPositionEnds
CHECK_DEADLOCK FALSE
