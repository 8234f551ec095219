SPECIFICATION FairSpec
CONSTANTS
  s1 = s1
  s2 = s2
  Starters <- TwoTasks
  Stoppers <- TwoTasks
  Restarting = FALSE
  Systems <- WithInterrupts
  QueueLength = 4
  MaxStarts = 3
PROPERTIES
  EveryStartFires
CHECK_DEADLOCK FALSE
