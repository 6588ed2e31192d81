CONSTANTS
  t1 = t1  t2 = t2
  Threads <- MCThreads
  SmallBlocks <- MCSmallBlocks
  ClassIndex <- MCClassIndex
  LargeBlocks <- MCLargeBlocks
  Spans <- MCSpans
  Requests <- MCRequests
  ALIGNMENT = 4
  USER_OFFSET = 4
  RED_ZONE_RESERVE = 2
  MAX_SLAB_SIZE = 16
  Page = 8
  Header = 4
  Alignment = 4
  STASH = 4
  NoPtr = NoPtr
  NoInfo = NoInfo
SPECIFICATION Spec
SYMMETRY MCSymmetry
INVARIANTS RecordsExact ReportsExplained
