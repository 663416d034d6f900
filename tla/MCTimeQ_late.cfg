SPECIFICATION WheelSpec
CONSTANTS
  Msgs = {m1}
  NoMsg = NoMsg
  Ids = {e1, e2}
  NoEntry = NoEntry
  Resolution = 2
  Size = 2
  Tiers = 2
  MaxDiff = 4
  MaxTime = 16
  MaxDelay = 10
  MaxLag = 0
CHECK_DEADLOCK FALSE
INVARIANT PopsAllDue
