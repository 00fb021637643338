SPECIFICATION FairSpec
CONSTANTS
  n1 = n1
  n2 = n2
  h1 = h1
  h2 = h2
  Nodes = {n1, n2}
  Handlers = {h1, h2}
  Idle = 1
  Syncs = {n1}
  Failing = {h1, "sweep"}
  MaxTime = 5
  MaxCalls = 3
  MaxRestarts = 1
INVARIANTS TypeOK LiveIsActive NoStuckSync
PROPERTY SilentIsMarked
CHECK_DEADLOCK FALSE
