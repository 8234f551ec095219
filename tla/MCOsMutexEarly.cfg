SPECIFICATION Spec
CONSTANTS
  t1 = t1
  t2 = t2
  t3 = t3
  Threads <- ThreeThreads
  NoThread = NoThread
  Forever = Forever
  TicksPerSec = 2
  KernelHz = 1
  Timeouts <- WholeSeconds
  MaxDepth = 2
  Ports <- PosixOnly
  MaxMeddled = 0
  LastCall = 1
  MaxClock = 4
INVARIANTS
  TimeoutNotEarly
