SPECIFICATION Spec
CONSTANTS
  t1 = t1
  t2 = t2
  g1 = g1
  Takers <- TwoTakers
  Givers <- MCGivers
  Forever = Forever
  TicksPerSec = 2
  KernelHz = 4
  Timeouts <- ZeroOrThree
  InitialTokens = 1
  SemValueMax = 2
  Ports <- TickPorts
  MaxLost = 1
  LastCall = 1
  MaxClock = 6
INVARIANTS
  TakeTimeoutNotEarly
