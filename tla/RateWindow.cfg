SPECIFICATION WFairSpec
CONSTANTS
  Keys = {"k1"}
  Workers = {"w1", "w2"}
  Cost = 2
  Burst = 2
  MaxTime = 4
  MaxRequests = 4
INVARIANTS Tracks AdmittedWithinBound RuleUnlessOvertaken
PROPERTIES IdleForgotten
