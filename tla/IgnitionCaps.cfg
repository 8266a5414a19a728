CONSTANTS
  Tickers = {a, b}
  Buckets = {1}
  Lot = 2
  MaxOrders = 2
  MaxDay = 2
  MaxPositions = 1
  MaxEntriesPerDay = 1
  MaxHoldDays = 1
  StopTrades = 3
  MaxFaults = 1
SPECIFICATION Spec
SYMMETRY Symmetry
INVARIANTS TypeOK BookWithinCaps BookIsAccount
PROPERTY ImplementsLedger
CHECK_DEADLOCK FALSE
