SPECIFICATION FairSpec
CONSTANTS
  DayLen = 2
  DaysPerMonth = 2
  Retention = 1
  HotWindow = 1
  MaxLag = 1
  MaxBatch = 2
  MaxTime = 5
  MaxSeq = 3
  MaxFaults = 2
INVARIANTS
  IInv
  NumbersUnique
  NoLoss
  CleanAfterRun
PROPERTIES ImplementsLog SealedEventually
