SPECIFICATION Spec
CONSTANTS
  n1 = n1
  n2 = n2
  h1 = h1
  h2 = h2
  Nodes = {n1}
  Handlers = {h1, h2}
  Idle = 1
  Syncs = {}
  Failing = {}
  MaxTime = 6
  MaxCalls = 2
  MaxRestarts = 0
SYMMETRY Symmetry
INVARIANTS ShownInactiveIsSilent
CHECK_DEADLOCK FALSE
