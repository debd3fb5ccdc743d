CONSTANTS
  MaxProcs = 3
  Event = {e1}
  e1 = e1
  Delays = {1}
  MaxTime = 2
  MaxWidth = 2
  MaxAwaits = 2
  KeepTimeouts = TRUE
  LateAwaits = FALSE
SPECIFICATION FairSpec
INVARIANTS
  TypeOK
  NoLostWakeup
  SpawnsAdmitted
  NothingOverdue
PROPERTIES
  TimeIsMonotonic
  RunUntilExact
  TimeoutBoundsWait
  RunReturns
