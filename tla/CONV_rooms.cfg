SPECIFICATION FairSpec
CONSTANTS
  ann = ann
  bob = bob
  kitchen = kitchen
  garden = garden
  nowhere = nowhere
  Agents <- Two
  Population <- Two
  Rooms <- TwoRooms
  Nowhere = nowhere
  Cap = 1
  Window = 1
  Floor = 1
  ReplyWindows = {0, 2}
  WritesFail = FALSE
  LoadWays = {"restart"}
  MaxOpened = 1
  MaxChurn = 1
  MaxSaves = 0
  MaxLoads = 0
INVARIANTS
  StrayersSwept
  FairBonus
PROPERTIES
  ImplementsLife
  AbandonedIsNoted
