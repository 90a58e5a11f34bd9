SPECIFICATION AnalyticsSpec
CONSTANTS
  Insights <- MCInsights
  Today = "monday"
  MinCalls = 1
  Tables <- MCTables
  Envelopes <- MCEnvelopes
  BatchSize = 2
  MaxBuffer = 2
  MaxRetries = 2
  Courses <- MCCourses
CHECK_DEADLOCK FALSE
INVARIANT TypeOK
INVARIANT RowsAreAccountedFor
INVARIANT CloseFlushes
INVARIANT DashboardCountsCalls
PROPERTY DetailSurvivesMerges
PROPERTY RowsGoOut
