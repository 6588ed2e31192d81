CONSTANTS
  t1 = t1  t2 = t2  s1 = s1  s2 = s2  c1 = c1  c2 = c2
  Threads <- MCThreads
  Spans <- MCSpans2
  Classes <- MCClasses2
  TotalBlocks <- MCTotal1
  CacheLimit <- MCLimit42
  NumArenas = 1
  EagerWiring = TRUE
  NoThread = NoThread
  NoSpan = NoSpan
  NoClass = NoClass
  FeedMaxList = 1
  InitialRefill = 1
  DeferMaxBin = 1
SPECIFICATION Spec
SYMMETRY MCSymmetry2
INVARIANT CountsExact
PROPERTY ImplementsHeap
