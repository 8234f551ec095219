SPECIFICATION Spec
CONSTANTS
  c1 = c1
  c2 = c2
  t1 = t1
  t2 = t2
  t3 = t3
  t4 = t4
  Callers <- TwoCallers
  Tasks <- ThreeTasks
  MaxTasks = 2
INVARIANTS
  StackExclusive
