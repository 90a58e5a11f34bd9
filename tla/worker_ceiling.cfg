SPECIFICATION FairSpec
CONSTANTS
  k1 = k1
  k2 = k2
  k3 = k3
  Other = Other
  CallIds <- MCThreeCalls
  Topics <- MCCeilingTopics
  Stride = 1
  MaxTracked = 1
  MaxRebalances = 0
  LateFeed = TRUE
  MayMisanswer = FALSE
  MayBreakDown = FALSE
  SendMayFail = FALSE
  MayStop = FALSE
CHECK_DEADLOCK FALSE
INVARIANT LateWorkIsBounded
PROPERTY QuietCallsAreFinalised
