SPECIFICATION CacheSpec
CONSTANTS
  Workers = {w1}
  memcached = memcached
  Caches <- OneCache
  cacheOf <- Shared
  Queries = {q1, q2}
  MaxWrites = 5
  Failing = TRUE
  None = None
INVARIANTS
  SeesAcknowledged
  CacheCurrent
