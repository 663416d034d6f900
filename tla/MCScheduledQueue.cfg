SPECIFICATION FairSpec
CONSTANTS
  Strategies = {"SingletonTimerWheel", "SingletonTimerWheelV2", "TimerWheel"}
  Msgs = {m1, m2}
  Queues = {s1, s2}
  Batches = {b1}
  MaxTime = 2
  MaxEntries = 2
INVARIANTS OneOwner NotStranded NotEarly
PROPERTIES NothingLost LeavesQueue ShutdownEmpties
CHECK_DEADLOCK FALSE
