SPECIFICATION ToolSpec
CONSTANTS
  UidSets <- MCUidSets
  MaxNormalizedIds = 3
  NumCalls = 10
  ForkLimit = 8
  MaxFiles = 8
  ProcessSlots = {7, 8, 12}
INVARIANTS
  ToolTypeOK
  RenamedIsExplored
  IdsAreTableIds
  GraphIsReversible
  AdjacencyAgrees
  RowsAreWalks
  JumpsAreStops
  ZombiesBounded
  NeedsItsSlots
PROPERTIES
  VerifierFinishes
