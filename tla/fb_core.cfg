SPECIFICATION Spec
CONSTANTS
  TurboTime = 1
  GlowTicks = 2
  MaxPresses = 3
  MaxChanges = 1
INVARIANTS TypeOK MilestoneKept
PROPERTIES TurboCutOnlyInFlight TurboEnds MilestoneShown DisplayCatchesUp
CHECK_DEADLOCK FALSE
