SPECIFICATION FairSpec
CONSTANTS
  Names = {n1}
  Tasks = {t1, t2, t3}
  Deadlined = {t2}
  Msgs = {m1, m2}
  Queues = {q1, q2, q3, q4, q5}
  Semas = {s1, s2, s3, s4}
  NoId = NoId
  CanFail = TRUE
  Reaping = TRUE
INVARIANTS SoleBuilder
PROPERTIES HandleStays ResolveReturns MetaCompletes
CHECK_DEADLOCK FALSE
