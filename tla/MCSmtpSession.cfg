SPECIFICATION FairSpec
CONSTANTS
  r1 = r1
  r2 = r2
  Rcpts = {r1, r2}
  Domain <- MCDomain
  MaxPerMessage = 2
  MaxPerConnection = 2
  MaxLines = 2
  MaxTxns = 2
  MaxBatches = 2
  MaxCrashes = 1
INVARIANTS AckedIsKept EnvelopeExact RefusedIsUnwound ReceptionAccounted
PROPERTIES SessionEnds
CHECK_DEADLOCK FALSE
