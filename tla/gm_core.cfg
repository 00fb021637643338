SPECIFICATION Spec
CONSTANTS
  Nodes = {n1, n2}
  Handlers = {h1, h2}
  NoHandler = NoHandler
  Rate = 1
  Second = 2
  LongIdle = 2
  Boost = 2
  TTL = 1
  Milestones = {2, 3}
  Faults = {}
  Batches = {1, 3}
  MaxTs = 2
  MaxTime = 2
  MaxArrivals = 4
  MaxRestarts = 0
SYMMETRY Symmetry
INVARIANTS TypeOK GlobalIsSum SameAnswer UniqueStamps MilestonesExact WindowStartsAtLastBatch BoostInForce
PROPERTIES AddAppliedOnce SyncAppliedOnce CausalDelivery
CHECK_DEADLOCK FALSE
