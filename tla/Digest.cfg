CONSTANTS
  MaxDay = 2
  MaxRuns = 5
  MaxFaults = 2
  MaxKills = 2
SPECIFICATION Spec
INVARIANTS TypeOK RepeatsExplained PlanShown NeverStale
CHECK_DEADLOCK FALSE
