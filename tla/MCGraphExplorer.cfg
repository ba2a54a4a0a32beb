CONSTANTS
  States <- MCStates
  Calls <- MCCalls
  Start <- MCStart
  Step <- MCStep
  NoJump <- MCNoJump
  StateForkLimit = 3
  MaxFaults = 2
SPECIFICATION FairSpec
INVARIANTS TypeOK EachStateOnce ForkBound PathsExist Complete
PROPERTIES Termination Implements
CHECK_DEADLOCK FALSE
