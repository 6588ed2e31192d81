SPECIFICATION Spec
CONSTANTS
  s1 = s1
  l1 = l1
  t1 = t1
  t2 = t2
  Threads <- MCThreads
  Small <- MCSmall
  Large <- MCLarge
  LargeBytes <- MCLargeBytes
  SmallBytes = 1
  MaxCalls = 5
  FlushOps = 2
  CounterMod = 8
SYMMETRY Symmetry
INVARIANTS
  LiveConserved
  PeakCovers
CHECK_DEADLOCK FALSE
