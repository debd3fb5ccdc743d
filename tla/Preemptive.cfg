CONSTANTS
  r1 = r1
  r2 = r2
  r3 = r3
  r4 = r4
  Req = {r1, r2, r3, r4}
  Keys = {1, 2}
  Capacity = 2
  RepolledKeys = {2}
SPECIFICATION PreemptFairSpec
CHECK_DEADLOCK FALSE
INVARIANTS
  PreemptTypeOK
  PreemptUnitsAccounted
  HoldersAreLiveGuards
  HoldersWithinCapacity
PROPERTIES
  ImplementsPreemptivePool
  PreemptParkedIsServed
