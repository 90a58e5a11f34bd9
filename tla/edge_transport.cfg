CONSTANTS
  NSegs = 5
  Finals = {1, 3, 5}
  MaxQueue = 2
  OnFull = "drop_partials"
  MaxConnects = 3
  MayAbandon = TRUE
SPECIFICATION FairSpec
INVARIANTS
  TypeOK
  OnlyBreaksHarm
PROPERTIES
  CloseReturns
CHECK_DEADLOCK FALSE
