SPECIFICATION FairSpec
CONSTANTS
  s1 = s1
  s2 = s2
  Starters <- TwoTasks
  Stoppers <- TwoTasks
  Restarting = TRUE
  Systems <- AllSystems
  QueueLength = 4
  MaxStarts = 3
INVARIANTS
  DaemonNeverBlocks
  AtMostTwice
PROPERTIES
  StartFires
CHECK_DEADLOCK FALSE
