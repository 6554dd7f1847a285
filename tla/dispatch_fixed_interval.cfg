CONSTANTS
  Threads = 1
  ThreadModel = "FIXED_INTERVAL"
  RunTimeMax = TRUE
  RunOnce = {FALSE, TRUE}
  Signals <- TwoStops
  JobResults <- AnyResult
  MaxLinger = 1
SPECIFICATION FairSpec
PROPERTY ShutdownCompletes
PROPERTY OverrunJobEnds
PROPERTY StopSignalIsActedOn
PROPERTY ImplementsFairLifecycle
