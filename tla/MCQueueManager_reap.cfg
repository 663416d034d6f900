SPECIFICATION Spec
CONSTANTS
  Names = {n1}
  Tasks = {t1, t2}
  Deadlined = {}
  Msgs = {m1}
  Queues = {q1, q2, q3, q4}
  Semas = {s1, s2, s3}
  NoId = NoId
  CanFail = FALSE
  Reaping = TRUE
INVARIANT Tracked
CHECK_DEADLOCK FALSE
