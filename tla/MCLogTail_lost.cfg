SPECIFICATION TailSpec
CONSTANTS
  c1 = c1
  c2 = c2
  Consumers <- MCConsumers
  BatchSize <- MCBatchSize
  Filtered = {c2}
  MaxLines = 2
  Kinds = {"rec", "junk"}
  MaxOpen = 2
  MaxSegments = 2
  MaxWritten = 3
  MaxCrashes = 1
  NoCheckpoint = NoCheckpoint
INVARIANT AtLeastOnce
CHECK_DEADLOCK FALSE
