SPECIFICATION Spec
CONSTANTS
  Debounce = 10
  PollPeriod = 4
  BeepTime = 5
  MaxPresses = 3
  MaxFaults = 2
INVARIANTS EveryPressCounts BeepsWhole
PROPERTY BuzzerStops
CHECK_DEADLOCK FALSE
