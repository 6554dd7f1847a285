CONSTANTS
  Threads = 2
  ThreadModel = "INDEPENDENT"
  RunTimeMax = FALSE
  RunOnce = {FALSE}
  Signals <- OneStop
  JobResults <- MoreToDo
  MaxLinger = 1
SPECIFICATION Spec
INVARIANT TypeOK
INVARIANT SlotOwnership
INVARIANT NoBroadcastKill
INVARIANT CleanExit
INVARIANT IInv
PROPERTY ImplementsLifecycle
