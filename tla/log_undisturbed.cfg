CONSTANTS
  t1 = t1
  t2 = t2
  a1 = a1
  a2 = a2
  a3 = a3
  NoTask = NoTask
  Tasks <- TwoTasks
  Fds <- ThreePipes
  Nodes <- ThreeNodes
  NULL = NULL
  MaxSourceId = 2
  MaxJobs = 3
  Hangups = FALSE
  OpenFails = FALSE
  Forced = FALSE
SPECIFICATION LinkedFairSpec
INVARIANT SourcesOpen
INVARIANT ListInv
INVARIANT IdInv
PROPERTY NoOutputLost
PROPERTY ImplementsPipes
PROPERTY ImplementsFairPipes
PROPERTY RemovesOwnSource
PROPERTY LogShutsDown
