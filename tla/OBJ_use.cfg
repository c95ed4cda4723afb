SPECIFICATION Spec
CONSTANTS
  Whole = 2
  WithGarden = TRUE
  Agents = {ann, bob}
  Rooms = {"garden", "workshop"}
  Home <- MCHome
  Scene <- MCScene
  Targets = {"brew_coffee_sequence", "plant_seeds", "harvest", "eat", "fill_watering_can", "carry", "open_gate", "go_to_workshop", "dance"}
  Slow = {"add_water", "eat"}
  StartDrives <- MCDrives
  Loss = 2
  Interval = 1
  Orders <- MCOrders
  MaxSteps = 2
  MaxTicks = 1
  MaxOrders = 1

SYMMETRY Symmetry
CHECK_DEADLOCK FALSE
INVARIANTS
  BooksBalance
  OffersHold
PROPERTIES
  HandsOn
  RelocationSticks
  AllOrNothing
