SPECIFICATION FairSpec
CONSTANTS
  ann = ann
  hall = hall
  attic = attic
  Agents = {ann}
  Rooms = {hall, attic}
  MaxQueue = 1
  MaxLog = 1
  MidSessionThreshold = 1
  SalienceNormalization = 1
  MaxDeltasPerSession = 1
  MaxDeltasPerUpdate = 2
  MaxPasses = 1
  MinApplyInterval = 0
  MaxProposed = 2
  MaxSalience = 1
  MaxFlights = 2
INVARIANTS
  BudgetsHold
PROPERTIES
  GateLetsThrough
CHECK_DEADLOCK FALSE
