SPECIFICATION Spec
CONSTANTS
  ann = ann
  bob = bob
  kitchen = kitchen
  garden = garden
  nowhere = nowhere
  Agents <- Two
  Population <- Two
  Rooms <- OneRoom
  Nowhere = nowhere
  Cap = 1
  Window = 1
  Floor = 0
  ReplyWindows = {0}
  WritesFail = TRUE
  LoadWays = {"restart", "inPlace"}
  MaxOpened = 1
  MaxChurn = 2
  MaxSaves = 1
  MaxLoads = 1
INVARIANTS
  MirrorsExact
  NoMutualSilence
SYMMETRY AgentSymmetry
VIEW LoadableView
