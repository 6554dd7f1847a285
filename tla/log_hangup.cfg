CONSTANTS
  t1 = t1
  t2 = t2
  a1 = a1
  a2 = a2
  a3 = a3
  NoTask = NoTask
  Tasks <- TwoTasks
  Fds <- ThreePipes
  Nodes <- ThreeNodes
  NULL = NULL
  MaxSourceId = 0
  MaxJobs = 2
  Hangups = TRUE
  OpenFails = TRUE
  Forced = TRUE
CHECK_DEADLOCK FALSE
SPECIFICATION LinkedFairSpec
INVARIANT LeakIsFinal
INVARIANT IInv
INVARIANT LinksInv
PROPERTY OnlyLeaksBlock
PROPERTY ImplementsLog
