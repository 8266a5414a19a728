CONSTANTS
  Tickers = {a}
  Lot = 1
  MaxOrders = 2
  MaxDay = 2
  MaxTick = 2
  MaxGap = 1
  MaxFaults = 0
SPECIFICATION Spec
INVARIANTS BookFlatWithBroker
CHECK_DEADLOCK FALSE
