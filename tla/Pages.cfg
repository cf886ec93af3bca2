SPECIFICATION Spec
CONSTANTS
  Null = Null
  Projects = {"p1", "p2", "p3"}
  Names = {"A", "B", "C"}
  First <- MCFirst
  Places <- MCPlaces
  MaxMoves = 4
  MaxOpen = 1
  Typed = {"C"}
INVARIANTS AnswersItsUrl EditsShow DrawerManages
CHECK_DEADLOCK FALSE
