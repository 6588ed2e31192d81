CONSTANTS
  t1 = t1  t2 = t2  s1 = s1  s2 = s2  c1 = c1  c2 = c2
  Threads <- MCThreads
  Spans <- MCSpans1
  Classes <- MCClasses1
  TotalBlocks <- MCTotal2
  CacheLimit <- MCLimit2
  NumArenas = 2
  EagerWiring = FALSE
  NoThread = NoThread
  NoSpan = NoSpan
  NoClass = NoClass
  FeedMaxList = 1
  InitialRefill = 1
  DeferMaxBin = 0
SPECIFICATION Spec
SYMMETRY MCSymmetry
INVARIANTS OnePlace Anchored NoBlockLost ListsExact NothingRetained
