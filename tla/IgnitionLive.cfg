CONSTANTS
  Tickers = {a}
  Buckets = {1}
  Lot = 2
  MaxOrders = 2
  MaxDay = 2
  MaxPositions = 1
  MaxEntriesPerDay = 1
  MaxHoldDays = 1
  StopTrades = 1
  MaxFaults = 1
SPECIFICATION FairSpec
PROPERTIES TimeStopWhileRunning DivergenceTracked
CHECK_DEADLOCK FALSE
