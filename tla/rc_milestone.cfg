SPECIFICATION Spec
CONSTANTS
  Announcements <- Announced
  FallbackAddr = "s0"
  FallbackPort = 8765
  Attempts = 2
  MaxCalls = 1
INVARIANT MilestoneHeard
CHECK_DEADLOCK FALSE
