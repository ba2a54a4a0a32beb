CONSTANTS
  MaxNormalizedIds = 4
  Threads = {t1, t2}
  Nobody = Nobody
  UIDs <- MCUIDs
  GIDs <- MCGIDs
  Gid0s <- MCGid0s
  SupLists <- MCSupLists
  DontChange = DontChange
  FileCaps <- NoCaps
SPECIFICATION USpec
INVARIANTS UTypeOK AssertionsHold UcredStillHolds PromiseKept
PROPERTIES LockReleased
CHECK_DEADLOCK FALSE
