SPECIFICATION WheelSpec
CONSTANTS
  Msgs = {m1}
  NoMsg = NoMsg
  Ids = {e1, e2}
  NoEntry = NoEntry
  Resolution = 2
  Size = 2
  Tiers = 3
  MaxDiff = 20
  MaxTime = 40
  MaxDelay = 24
  MaxLag = 2
PROPERTY ImplementsTimer
CHECK_DEADLOCK FALSE
