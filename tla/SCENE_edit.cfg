SPECIFICATION Spec
CONSTANTS
  hall = hall
  kitchen = kitchen
  garden = garden
  door = door
  lamp = lamp
  ann = ann
  bob = bob
  Nowhere = nowhere
  Rooms <- House
  Things <- Inventory
  Agents <- People
  Corridors <- Ring
  Depot <- Place
  Unlisted = {door}
  Leads <- Ways
  Cast = {ann}
  Wirings = {TRUE, FALSE}
  LoadWays = {"restart", "inPlace"}
  Proposable <- Everything
  MaxLog = 4
  MaxSaves = 1
  MaxLoads = 1
INVARIANTS
  TwoSided
  NobodyLost
  StoresAgree
VIEW LoadableView
CHECK_DEADLOCK FALSE
