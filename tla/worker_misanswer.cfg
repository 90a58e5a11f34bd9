SPECIFICATION FairSpec
CONSTANTS
  k1 = k1
  k2 = k2
  k3 = k3
  Other = Other
  CallIds <- MCCallIds
  Topics <- MCTopics
  Stride = 2
  MaxTracked = 2
  MaxRebalances = 0
  LateFeed = FALSE
  MayMisanswer = TRUE
  MayBreakDown = FALSE
  SendMayFail = FALSE
  MayStop = FALSE
CHECK_DEADLOCK FALSE
PROPERTY QuietCallsAreFinalised
