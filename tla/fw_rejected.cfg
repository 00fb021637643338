SPECIFICATION Spec
CONSTANTS
  BreakAt = 3
  CounterMax = 100
  LamportMax = 100
  Jump = 1
  MaxPresses = 3
  MaxFaults = 1
PROPERTY RejectedComeBack
CHECK_DEADLOCK FALSE
