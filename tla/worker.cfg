SPECIFICATION Spec
CONSTANTS
  k1 = k1
  k2 = k2
  k3 = k3
  Other = Other
  CallIds <- MCCallIds
  Topics <- MCTopics
  Stride = 2
  MaxTracked = 2
  MaxRebalances = 1
  LateFeed = TRUE
  MayMisanswer = TRUE
  MayBreakDown = TRUE
  SendMayFail = TRUE
  MayStop = TRUE
CHECK_DEADLOCK FALSE
INVARIANT TypeOK
INVARIANT BooksBalance
INVARIANT SummaryMissesOneTurnAtMost
