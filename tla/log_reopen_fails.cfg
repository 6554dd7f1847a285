CONSTANTS
  t1 = t1
  t2 = t2
  NoTask = NoTask
  Tasks <- TwoTasks
  Fds <- ThreePipes
  MaxSourceId = 2
  MaxJobs = 2
  Hangups = TRUE
  OpenFails = TRUE
  Forced = FALSE
CHECK_DEADLOCK FALSE
SPECIFICATION FairSpec
PROPERTY LogShutsDown
