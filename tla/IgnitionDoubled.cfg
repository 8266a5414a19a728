CONSTANTS
  Tickers = {a}
  Buckets = {1, 2}
  Lot = 2
  MaxOrders = 2
  MaxDay = 1
  MaxPositions = 2
  MaxEntriesPerDay = 2
  MaxHoldDays = 1
  StopTrades = 2
  MaxFaults = 0
SPECIFICATION Spec
INVARIANTS OneEntryPerTitle
CHECK_DEADLOCK FALSE
