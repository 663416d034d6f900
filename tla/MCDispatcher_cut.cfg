CONSTANTS
  d1 = d1
  d2 = d2
  Dispatchers = {d1, d2}
  m1 = m1
  Msgs = {m1}
  r1 = r1
  r2 = r2
  Rcpts = {r1, r2}
  Capacity = 1
  Conditions = {"suspend_ready", "suspend", "bounce"}
  MaxSends = 2
  MaxMoving = 1
  NoMsg = NoMsg
SPECIFICATION Spec
SYMMETRY Symmetry
PROPERTY FinalIsNeverRetried
CHECK_DEADLOCK FALSE
