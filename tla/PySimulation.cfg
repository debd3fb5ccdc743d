CONSTANTS
  Req <- MCReq
  Keys = {1, 2}
  Capacity = 2
  RepolledKeys = {2}
  Proc = {1, 2, 3}
  MaxYields <- MCMaxYields
  Urgency <- MCUrgency
  Menu <- MCMenu
SPECIFICATION PyFairSpec
CHECK_DEADLOCK FALSE
INVARIANTS
  PyTypeOK
  NothingAdrift
  UnitsReachable
  ResumedAsAwaited
  TeardownReleasesAll
PROPERTIES
  OnlyWinnerAcquires
  NoSilentFailure
  EvictedIsTold
