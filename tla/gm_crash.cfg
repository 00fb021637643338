SPECIFICATION FairSpec
CONSTANTS
  Nodes = {n1}
  Handlers = {h1, h2}
  NoHandler = NoHandler
  Rate = 1
  Second = 1
  LongIdle = 2
  Boost = 2
  TTL = 2
  Milestones = {2}
  Faults = {"upsert", "violation", "load", "syncing", "read", "event", "activate", "beat", "ranking"}
  Batches = {1, 2}
  MaxTs = 2
  MaxTime = 2
  MaxArrivals = 3
  MaxRestarts = 1
INVARIANT DbMatchesMemory
PROPERTY Served
CHECK_DEADLOCK FALSE
