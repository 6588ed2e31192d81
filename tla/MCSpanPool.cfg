CONSTANTS
  t1 = t1  t2 = t2
  Threads <- MCThreads
  NoThread = NoThread
  NumPages = 6
  ChunkSize = 2
  MaxPooled = 2
  MaxChunks = 2
  MaxRequest = 3
SPECIFICATION Spec
SYMMETRY MCSymmetry
INVARIANTS SpansDisjoint ChunksWhole NothingLeaked
