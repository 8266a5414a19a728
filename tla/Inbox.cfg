CONSTANTS
  Ticker = {a}
  Decisions = {"buy", "pass"}
  Cooldown = 1
  MaxDay = 1
  MaxPitches = 2
  MaxPresses = 2
  MaxCrashes = 1
SPECIFICATION LiveSpec
INVARIANTS TypeOK OutcomeShown RepeatNeedsOverlap
PROPERTIES SingleTransition PressHandled
CHECK_DEADLOCK FALSE
