CONSTANTS
  NumPointers = 5
  Pointers <- MCPointers
  Sizes <- MCSizes
  Hash <- MCHash
  InitialCapacity = 4
  MaxCapacity = 16
  Null = Null  Tombstone = Tombstone  NoReply = NoReply
SPECIFICATION Spec
INVARIANTS ChainsIntact CountersExact GrownProbesEnd
PROPERTY ImplementsRegistry
