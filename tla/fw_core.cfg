SPECIFICATION FairSpec
CONSTANTS
  BreakAt = 2
  CounterMax = 2
  LamportMax = 100
  Jump = 2
  MaxPresses = 3
  MaxFaults = 3
INVARIANTS TypeOK ClicksConserved RegisteredIsOnline SyncingShown
PROPERTIES StampsGrow AllSettled DeliversAtLeastOnce
CHECK_DEADLOCK FALSE
