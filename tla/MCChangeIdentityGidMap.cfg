CONSTANTS
  MaxNormalizedIds = 4
  Threads = {t1}
  UIDs <- FewUIDs
  GIDs <- ThreeGIDs
  Gid0s <- ThreeGid0s
  SupLists <- MCSupLists
  DontChange = DontChange
  FileCaps <- NoCaps
SPECIFICATION Spec
INVARIANTS GidMapFits
CHECK_DEADLOCK FALSE
