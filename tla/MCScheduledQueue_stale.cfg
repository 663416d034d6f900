SPECIFICATION Spec
CONSTANTS
  Strategies = {"SingletonTimerWheel"}
  Msgs = {m1, m2}
  Queues = {s1}
  Batches = {b1}
  MaxTime = 4
  MaxEntries = 3
PROPERTY DueNotHeldBack
CHECK_DEADLOCK FALSE
