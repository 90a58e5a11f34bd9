CONSTANTS
  a = a
  b = b
  Calls <- MCCalls
  Catalogue <- MCCatalogue
  Intents <- MCIntents
  Spelled <- MCSpelled
  MaxSteps <- MCMaxSteps
  MaxRepairs = 1
  MaxRetries = 1
  MaxSpans = 8
  Answers <- MCAnswers
  WindowSize = 4
  Stride = 2
  MinConfidence = 35
  Climb = 15
  BaseRequired = {"REC"}
  Scenarios <- MCScenarios
SPECIFICATION FairSpec
INVARIANTS
  TypeOK
  NoViolationMissed
  FlaggedIsReported
  SignalsAreNews
  FastVerdictStands
  SummaryCoversLive
PROPERTIES
  EveryPassEnds
CHECK_DEADLOCK FALSE
