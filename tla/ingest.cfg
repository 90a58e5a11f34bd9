CONSTANTS
  old = old
  new = new
  a = a
  b = b
  NoJob = NoJob
  NoFrame = NoFrame
  Conns <- MCConns
  CallOf <- MCCallOf
  Scenarios <- MCScenarios
  Workers = {w1}
  QueueSize = 1
  MaxAttempts = 1
SPECIFICATION FairSpec
INVARIANTS
  TypeOK
  ClaimedOnce
  SessionAgrees
PROPERTIES
  EverySegmentIsAnswered
CHECK_DEADLOCK FALSE
