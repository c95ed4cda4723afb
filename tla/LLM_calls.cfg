SPECIFICATION FairSpec
CONSTANTS
  ann = ann
  bob = bob
  cid = cid
  dan = dan
  hall = hall
  attic = attic
  Batch = Batch
  Nobody = Nobody
  Agents = {ann}
  Entries <- People
  RoomOf <- Whereabouts
  MaxRetries = 1
  MaxIterations = 2
  MaxBatchSize = 2
  MaxMutations = 1
  RetryOnTimeout = TRUE
  WithTools = TRUE
  MaxBusy = 1
INVARIANTS
  RequestsBounded
  EndsTruly
  PlannedOnce
PROPERTIES
  EveryCallEnds
