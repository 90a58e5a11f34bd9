CONSTANTS
  t1 = t1
  t2 = t2
  t3 = t3
  Tabs <- MCTabs
  Feed <- MCFeed
  ReplayBuffer = 2
  MaxShown = 2
  MaxSockets = 3
  Courses <- MCCourses
  Viewer = t1
  Completed <- MCCompleted
SPECIFICATION FairSpec
INVARIANTS
  TypeOK
  HubServesClients
  RepeatsHaveACause
  NoLateAnswer
PROPERTIES
  OpenTabCatchesUp
CHECK_DEADLOCK FALSE
