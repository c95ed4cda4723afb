SPECIFICATION FairSpec
CONSTANTS
  Owners <- MCOwners
  Unit = 1000
  Recency <- MCRecency
  Wear <- MCWear
  Decay <- MCDecay
  Threshold = 2000
  Delta = 3
  ann = ann
  Llm = Llm
  Agents = {ann}
  NodeThreshold = 2
  IdleThreshold = 2
  Importances = {8}
  Slots = {1, 2}
  MaxClock = 2
  MaxWall = 1
  MaxWrites = 2
  MaxListed = 2
  AutoSaveEvery = 1
  MaxRestarts = 1
INVARIANTS
  OnePassEach
  FreshIds
PROPERTIES
  PassesWork
CHECK_DEADLOCK FALSE
