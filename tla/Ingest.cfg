SPECIFICATION FairSpec
CONSTANTS
  Sources = {a, b, c}
  QueueCapacity = 2
  BatchSize = 2
  MaxSources = 2
  MaxEvents = 3
  MaxFaults = 1
INVARIANTS
  OrderedOnce
  CapUnlessMissed
PROPERTIES AcceptedIsSettled RegisterNeverClobbers
