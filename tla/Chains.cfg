CONSTANTS
  Week = 2
  Workdays = 1
  MaxDay = 3
  MaxTriggers = 2
  MaxKills = 1
SPECIFICATION Spec
INVARIANTS TypeOK OnceASlot SlotServed QuietStart
CHECK_DEADLOCK FALSE
