CONSTANTS
  Tickers = {a}
  Raws <- LongShort
  Soft = 10
  Hard = 20
  RecoverSoft = 8
  RecoverHard = 15
  CooldownDays = 2
  Start = 10
  MaxPrice = 3
  Equities = {0, 8, 9, 10, 11}
  Payers = {}
  Leavers = {a}
SPECIFICATION Spec
INVARIANTS TypeOK EveryMoveOnce
PROPERTIES BookFollowsStage OneStageBack
CHECK_DEADLOCK FALSE
