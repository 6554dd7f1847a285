CONSTANTS
  t1 = t1
  t2 = t2
  NoTask = NoTask
  Tasks <- TwoTasks
  Fds <- ThreePipes
  MaxSourceId = 2
  MaxJobs = 3
  Hangups = TRUE
  OpenFails = FALSE
  Forced = FALSE
SPECIFICATION FairSpec
PROPERTY RemovesOwnSource
