------------------------------ MODULE MCLogTail ------------------------------
EXTENDS LogTail, TLC
CONSTANTS c1, c2
MCConsumers == {c1, c2}
MCBatchSize == c1 :> 1 @@ c2 :> 2
==============================================================================
