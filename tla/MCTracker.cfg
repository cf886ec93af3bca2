SPECIFICATION TSpec
CONSTANTS
  Tabs = {t1, t2}
  Paths = {home, about}
  MaxViews = 3
  MaxDays = 2
  MaxExtras = 1
  NoPath = NoPath
INVARIANTS Attributed OneLoadPerView CountedOnceADay
CHECK_DEADLOCK FALSE
SYMMETRY Symmetry
