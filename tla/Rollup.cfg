SPECIFICATION RSpec
CONSTANTS
  Projects = {p1, p2}
  Pixels = {x1}
  Sources = {s1}
  Strays = {z}
  Words = {"a"}
  Tasks = {t1, t2}
  None = None
INVARIANTS NamesUniqueUnlessRaced DeletedWholeUnlessRaced MissingOnlyWithoutProject
SYMMETRY Symmetry
CHECK_DEADLOCK FALSE
