CONSTANTS
  Threads = 1
  ThreadModel = "INDEPENDENT"
  RunTimeMax = TRUE
  RunOnce = {FALSE}
  Signals <- StopAndHangup
  JobResults <- MoreToDo
  MaxLinger = 1
SPECIFICATION FairSpec
PROPERTY StopSignalIsActedOn
