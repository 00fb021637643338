SPECIFICATION Spec
CONSTANTS
  Announcements <- Announced
  FallbackAddr = "s0"
  FallbackPort = 8765
  Attempts = 2
  MaxCalls = 2
INVARIANTS TypeOK SocketsAccounted TargetIsAnnounced 
PROPERTIES Promised CallEnds
CHECK_DEADLOCK FALSE
