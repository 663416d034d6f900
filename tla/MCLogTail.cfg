SPECIFICATION TailFairSpec
CONSTANTS
  c1 = c1
  c2 = c2
  Consumers <- MCConsumers
  BatchSize <- MCBatchSize
  Filtered = {c1}
  MaxLines = 2
  Kinds = {"rec", "junk"}
  MaxOpen = 2
  MaxSegments = 2
  MaxWritten = 3
  MaxCrashes = 1
  NoCheckpoint = NoCheckpoint
INVARIANTS Accounted NoRepeat
PROPERTY Delivered
CHECK_DEADLOCK FALSE
