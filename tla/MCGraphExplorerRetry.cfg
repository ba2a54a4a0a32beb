CONSTANTS
  States <- MCStates
  Calls <- MCCalls
  Start <- MCStart
  Step <- MCStep
  NoJump <- MCNoJump
  StateForkLimit = 2
  MaxFaults = 1
SPECIFICATION FairSpec

PROPERTY Retried
CHECK_DEADLOCK FALSE
