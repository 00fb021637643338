SPECIFICATION Spec
CONSTANTS
  Nodes = {n1}
  Handlers = {h1, h2}
  NoHandler = NoHandler
  Rate = 1
  Second = 1
  LongIdle = 2
  Boost = 2
  TTL = 2
  Milestones = {2}
  Faults = {}
  Batches = {1, 2}
  MaxTs = 2
  MaxTime = 1
  MaxArrivals = 4
  MaxRestarts = 1
SYMMETRY Symmetry
PROPERTY ScoresSurviveRestart
CHECK_DEADLOCK FALSE
