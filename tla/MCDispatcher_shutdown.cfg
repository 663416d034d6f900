CONSTANTS
  d1 = d1
  d2 = d2
  Dispatchers = {d1, d2}
  m1 = m1
  Msgs = {m1}
  r1 = r1
  Rcpts = {r1}
  Capacity = 1
  Conditions = {"unhealthy"}
  MaxSends = 0
  MaxMoving = 1
  NoMsg = NoMsg
SPECIFICATION Spec
PROPERTY ShutdownDrains
CHECK_DEADLOCK FALSE
