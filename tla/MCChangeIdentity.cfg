CONSTANTS
  MaxNormalizedIds = 4
  Threads = {t1}
  UIDs <- MCUIDs
  GIDs <- MCGIDs
  Gid0s <- MCGid0s
  SupLists <- MCSupLists
  DontChange = DontChange
  FileCaps <- NoCaps
SPECIFICATION Spec
INVARIANTS TypeOK AssertionsHold ParamsMapped PermanentLeavesNothing TemporaryKeepsOld TemporaryCanBeUndone RefusalIsHonest Priv2SanityReports
PROPERTY PermanentIsForever
CHECK_DEADLOCK FALSE
