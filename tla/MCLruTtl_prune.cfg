SPECIFICATION CacheSpec
CONSTANTS
  Keys = {k1}
  Tasks = {t1, t2}
  Semas = {1, 2, 3, 4}
  Capacities = {0, 1}
  LruSamples = 2
  Ttls = {0, 1}
  FailTtl = 1
  Timeout = 1
  MaxAttempts = 2
  MaxTime = 1
  MaxPurges = 1
  None = None

PROPERTY NeverEvictsPending
