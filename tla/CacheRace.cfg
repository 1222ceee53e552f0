SPECIFICATION CacheSpec
CONSTANTS
  Workers = {w1, w2}
  memcached = memcached
  Caches <- OneCache
  cacheOf <- Shared
  Queries = {q1, q2}
  MaxWrites = 2
  Failing = FALSE
  None = None
INVARIANT SeesAcknowledged
