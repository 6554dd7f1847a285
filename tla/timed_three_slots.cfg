CONSTANTS
  Threads = 3
  Settings <- OnlyNoWait
  ForkFailsIn = {}
SPECIFICATION Spec
PROPERTY OldestIsTerminated
