SPECIFICATION FairSpec
CONSTANTS
  Failures = {"f1", "f2"}
  Long = {"f2"}
  MaxBuild = 2
  MaxEvents = 1
  MaxEdits = 1
  MaxFiles = 2
  MaxFaults = 1
INVARIANTS SettledUnlessInterrupted RegroupedUnlessRolledBack
PROPERTY ServesEventually
