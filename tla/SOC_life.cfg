SPECIFICATION Spec
CONSTANTS
  TalkCap = 1
  Chars <- MCChars
  MaxChars = 102
  SystemChars = 10
  ToolChars = 3
  Agents = {"ann", "bob"}
  DisplayName <- MCName
  Rooms = {"kitchen", "garden"}
  Home <- MCHome
  Talkativeness <- MCSeed
  StartDrives <- MCDrives
  Circumstances <- MCCircumstances
  Ages = {0}
  MaxCalls = 2
  Areas = {"garden", "attic"}
  Movements = {"go_to_garden"}
  MaxSteps = 2
  FloorAfter = 2
  MaxProposals = 1
  MaxChurn = 1

CHECK_DEADLOCK FALSE
INVARIANTS
  LedgerAgrees
  OfferStands
PROPERTIES
  NamesOffered
  NothingDangles
