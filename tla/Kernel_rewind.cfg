CONSTANTS
  MaxProcs = 2
  Event = {e1}
  e1 = e1
  Delays = {0, 1, 2}
  MaxTime = 3
  MaxWidth = 1
  MaxAwaits = 3
  KeepTimeouts = TRUE
  LateAwaits = TRUE
SPECIFICATION Spec
PROPERTIES
  TimeIsMonotonic
