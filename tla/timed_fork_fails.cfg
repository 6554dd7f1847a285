CONSTANTS
  Threads = 2
  Settings <- OnlyBackOff
  ForkFailsIn = {"DEPENDENT"}
SPECIFICATION FairSpec
PROPERTY SleepersWake
