CONSTANTS
  MaxQueues = 2
  p1 = p1
  Producers = {p1}
  m1 = m1
  m2 = m2
  Msgs = {m1, m2}
  Watched = {m1}
  Capacity = 1
  NoMsg = NoMsg
SPECIFICATION FairSpec
PROPERTIES ReplacedEnds
CHECK_DEADLOCK FALSE
