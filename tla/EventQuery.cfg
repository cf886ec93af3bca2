SPECIFICATION QSpec
CONSTANTS
  DayLen = 2
  DaysPerMonth = 2
  Retention = 1
  HotWindow = 1
  MaxLag = 1
  MaxBatch = 1
  MaxTime = 6
  MaxSeq = 2
  MaxFaults = 1
  Readers = {r1}
  Froms = {0, 1}
  Span = 2
INVARIANTS
  CountedOnce
  CompleteUnlessRaced
  EarliestWhenDated
