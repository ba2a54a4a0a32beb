CONSTANTS
  MaxNormalizedIds = 4
  Threads = {t1}
  UIDs <- FewUIDs
  GIDs <- MCGIDs
  Gid0s <- MCGid0s
  SupLists <- MCSupLists
  DontChange = DontChange
  FileCaps <- NoCaps
SPECIFICATION Spec
INVARIANTS DontChangeRespected
CHECK_DEADLOCK FALSE
