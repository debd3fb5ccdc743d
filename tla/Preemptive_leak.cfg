CONSTANTS
  r1 = r1
  r2 = r2
  r3 = r3
  Req = {r1, r2, r3}
  Keys = {1, 2}
  Capacity = 1
  RepolledKeys = {1}
SPECIFICATION PreemptSpec
CHECK_DEADLOCK FALSE
INVARIANTS
  AllGoneAllFree
