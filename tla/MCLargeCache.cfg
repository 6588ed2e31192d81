CONSTANTS
  t1 = t1  t2 = t2
  s1 = s1  s2 = s2  s3 = s3
  Threads <- MCThreads
  Spans <- MCSpans
  Requests <- MCRequests
  Page = 4
  Header = 1
  MaxSmall = 3
  SizeMod = 32
  NumClasses = 3
  CacheBudget = 24
  MinEntries = 1
  MaxEntries = 2
SPECIFICATION Spec
SYMMETRY MCSymmetry
INVARIANTS LengthsTrue SpansAccounted BinsExact AcceptedFit
