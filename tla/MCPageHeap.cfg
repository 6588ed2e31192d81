CONSTANTS
  t1 = t1  t2 = t2
  Threads <- MCThreads
  NoThread = NoThread
  NumPages = 6
  MaxCached = 3
  MaxRequest = 4
  WordBits = 3
  PerBinPages = 1
  TotalLimit = 3
  CounterMod = 16
SPECIFICATION Spec
SYMMETRY MCSymmetry
INVARIANTS PagesPartitioned BinsExact TotalAccounted CapOvershoot SplitsUnblocked
