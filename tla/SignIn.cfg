SPECIFICATION Spec
CONSTANTS
  Tabs = {t1, t2}
  CacheTTL = 2
  StateTTL = 2
  MaxTime = 4
  MaxKeys = 2
  MaxSignIns = 2
  MaxFaults = 1
  None = None
INVARIANT SignInLands
PROPERTY KeysFollowProvider
CHECK_DEADLOCK FALSE
SYMMETRY Symmetry
