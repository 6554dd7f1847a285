CONSTANTS
  Threads = 2
  Settings <- AllModels
  ForkFailsIn = {"INDEPENDENT"}
SPECIFICATION FairSpec
INVARIANT TypeOK
INVARIANT IInv
INVARIANT WaitInv
INVARIANT OldestInv
PROPERTY IntervalKept
PROPERTY ErrorPauseKept
PROPERTY WaitComesFirst
PROPERTY OldestIsTerminated
PROPERTY SleepersWake
PROPERTY DueJobStarts
PROPERTY FirstSlotStarts
