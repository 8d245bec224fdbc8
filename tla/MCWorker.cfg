\* Three calls share, repeat and mismatch jobs through a queue that fills and a
\* cache that expires and evicts, while the clock, timeouts, cancellations and close
\* interleave and the plugin may hang.
SPECIFICATION MCSpec
CONSTANTS
  NoJob = NoJob
  Calls = {1, 2, 3}
  Keys = {1, 2, 3}
  Inputs = {1, 2}
  QueueLimit = 2
  CacheEntries = 2
  CacheTTL = 1
  MaxTTL = 1
  MaxTime = 2
CHECK_DEADLOCK FALSE
INVARIANTS WorkAccounted NoLostWaiter OwnResult
PROPERTIES NoRerun CacheKeepsTime EveryCallEnds CapacityReturns
