CONSTANTS
  Ticker = {a, b}
  Decisions = {"buy", "pass"}
  MaxOffers = 2
  MaxDay = 3
  MaxRuns = 3
  MaxCrashes = 1
SPECIFICATION Spec
SYMMETRY Symmetry
INVARIANTS TypeOK ApprovedOnce AuditTrail FairSpan NoRoundTrip
CHECK_DEADLOCK FALSE
