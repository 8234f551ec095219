SPECIFICATION FairSpec
CONSTANTS
  t1 = t1
  t2 = t2
  t3 = t3
  Threads <- TwoThreads
  NoThread = NoThread
  Forever = Forever
  TicksPerSec = 2
  KernelHz = 1
  Timeouts <- ZeroOrThree
  MaxDepth = 2
  Ports <- AllPorts
  MaxMeddled = 1
  LastCall = 1
  MaxClock = 7
INVARIANTS
  TypeOK
  DepthMatches
  HolderKeepsMutex
  AbortMeansMisuse
PROPERTIES
  TimedLockReturns
