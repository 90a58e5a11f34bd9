CONSTANTS
  c1 = c1
  c2 = c2
  f1 = f1
  p1 = p1
  g1 = g1
  NoJob = NoJob
  Callers <- MCCallers
  Workers = {w1, w2}
  Jobs <- MCJobs
  FinalJobs <- MCFinalJobs
  CallerOf <- MCCallerOf
  QueueSize = 2
  MaxAttempts = 2
SPECIFICATION FairSpec
INVARIANTS
  TypeOK
  AcceptedIsAccountedFor
  OvertakesOnlyHeld
  CloseDrains
PROPERTIES
  ImplementsFairChannel
CHECK_DEADLOCK FALSE
