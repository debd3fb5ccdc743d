CONSTANTS
  r1 = r1
  r2 = r2
  r3 = r3
  r4 = r4
  Req = {r1, r2, r3, r4}
  Keys = {1, 2}
  Capacity = 2
SPECIFICATION PriorityFairSpec
CHECK_DEADLOCK FALSE
INVARIANTS
  TypeOK
  UnitsAccounted
  NoFreeUnitWhileWaiting
  QueueMatchesRequests
PROPERTIES
  NoOvertaking
  ImplementsUnitPool
  ParkedIsServed
