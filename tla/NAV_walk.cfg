SPECIFICATION FairSpec
CONSTANTS
  ann = ann
  hall = hall
  attic = attic
  loft = loft
  chest = chest
  Nowhere = Nowhere
  Agents = {ann}
  Rooms = {hall, attic, loft}
  Things = {chest}
  Corridors <- Line
  Anchors <- ChestInAttic
  Start = hall
  Fixtures = {hall}
  MaxSent = 2
  MaxMoved = 1
INVARIANTS
  OnRoute
  OffersWalkable
PROPERTIES
  StepAnswered
CHECK_DEADLOCK FALSE
