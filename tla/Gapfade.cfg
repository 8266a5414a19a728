CONSTANTS
  Tickers = {a, b}
  Lot = 2
  MaxPositions = 1
  MaxOrders = 5
  MaxDay = 3
  MaxFaults = 1
SPECIFICATION Spec
SYMMETRY Symmetry
INVARIANTS TypeOK OneEntryPerDay HeldHasExit AccountKnown OneRestingSell
CHECK_DEADLOCK FALSE
