CONSTANTS
  Req <- MCReq
  Keys = {1, 2}
  Capacity = 2
  RepolledKeys = {2}
  Proc = {1, 2, 3}
  MaxYields <- MCMaxYields
  Urgency <- MCUrgency
  Menu <- MCMenu
SPECIFICATION PySpec
CHECK_DEADLOCK FALSE
PROPERTIES
  FirstErrorRaised
