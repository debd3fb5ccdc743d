CONSTANTS
  g1 = g1
  g2 = g2
  g3 = g3
  p1 = p1
  p2 = p2
  Getters = {g1, g2, g3}
  Putters = {p1, p2}
  Amounts = {1, 2}
  Capacity = 2
SPECIFICATION Spec
SYMMETRY Symmetry
CHECK_DEADLOCK FALSE
INVARIANTS
  TypeOK
  LevelConserved
  QueuesMatchFutures
  FrontIsBlocked
  ServedAreWoken
PROPERTIES
  HeadOfLine
  CascadeServesOneQueue
