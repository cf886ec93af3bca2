SPECIFICATION FairSpec
CONSTANTS
  Tabs = {t1, t2}
  PerTab = 2
  MaxCalls = 2
  MaxLapses = 2
  MaxFaults = 1
  None = None
INVARIANTS SurvivesLapse OutcomeTrue LogoutSticks
CHECK_DEADLOCK FALSE
PROPERTY EveryCallEnds
