CONSTANTS
  MaxNormalizedIds = 4
  Threads = {t1}
  UIDs <- FewUIDs
  GIDs <- MCGIDs
  Gid0s <- MCGid0s
  SupLists <- MCSupLists
  DontChange = DontChange
  FileCaps <- AnyCaps
SPECIFICATION Spec
INVARIANTS PermanentSetsUids
CHECK_DEADLOCK FALSE
