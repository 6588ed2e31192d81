CONSTANTS
  t1 = t1  t2 = t2
  c1 = c1  c2 = c2
  Threads <- MCThreads
  NoThread = NoThread
  Caches <- MCCaches
  NoCache = NoCache
  PoolCap = 1
  MaxRounds = 2
SPECIFICATION LiveSpec
INVARIANTS OneOwner OwnedIsMapped BlocksFlushed CachesAccounted
PROPERTY CallsReturn
CHECK_DEADLOCK FALSE
