CONSTANTS
  g1 = g1
  g2 = g2
  p1 = p1
  Getters = {g1, g2}
  Putters = {p1}
  Amounts = {1, 2}
  Capacity = 2
SPECIFICATION Spec
CHECK_DEADLOCK FALSE
INVARIANTS
  AbandonedTookNothing
