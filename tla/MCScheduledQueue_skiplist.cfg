SPECIFICATION Spec
CONSTANTS
  Strategies = {"SkipList"}
  Msgs = {m1, m2}
  Queues = {s1}
  Batches = {b1}
  MaxTime = 2
  MaxEntries = 2
PROPERTY NothingLost
CHECK_DEADLOCK FALSE
