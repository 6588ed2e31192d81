CONSTANTS
  t1 = t1  t2 = t2
  Threads <- MCThreads
  NoThread = NoThread
  NumPages = 5
  MaxRequest = 3
SPECIFICATION LiveSpec
INVARIANTS SpansCommitted SpansKnown LiveExact
PROPERTY ReservationsReleased
