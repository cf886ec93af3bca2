SPECIFICATION Spec
CONSTANTS
  Null = Null
  Fold <- MCFold
  Found <- MCFound
  Bare <- MCBare
  HostOf <- MCHostOf
  Projects <- MCProjects
  DAY = 16
  Buckets <- MCBuckets
  MAX_BUCKETS = 40
  SERIES_LIMIT = 50
  MAX_INSTANT_MS = 500
  BREAKDOWN_LIMIT = 3
  GROUP_LIMIT = 5
  TRACE_SAMPLE = 2
  BOUNCE_MIN = 1
  BOUNCE_MAX = 5
  MIN_BOUNCE_SAMPLES = 2
  TREND_BUCKETS = 4
  Shapes <- MCShapes
  Retention = 100
  Typed <- MCTyped
  Added <- MCAdded
  Picked <- MCPicked
  Asks <- MCAsks
  Clicked <- MCClicked
  Watched <- MCWatched
  MaxParts = 2
  MaxNesting = 6
  VARIANT_LIMIT = 5
  TRACE_LIMIT = 3
INVARIANTS SeriesSumsToSummary DrillDownAgrees InboxRowsOpen TracesCover
PROPERTY EditsKeepMeaning
CHECK_DEADLOCK FALSE
