SPECIFICATION TaskFairSpec
CONSTANTS
  a = a
  p1 = p1
  c1 = c1
  c2 = c2
  m1 = m1
  Items <- OneItem
  ItemCount = 2
  IndexRange = 4
  Producers <- OneProducer
  Consumers <- MCConsumers
  Pollers <- Nobody
  Configurators <- Nobody
  Tasks <- MCTasks
  Managers <- OneManager
  Timeouts <- WaitOrNot
  NoThread = NoThread
  NoItem = NoItem
INVARIANTS
  OrphanedOnlyByWaiter
  CountCoversRunning
PROPERTIES
  WaiterServedUnlessOrphaned
  CallsReturnUnlessOrphaned
CHECK_DEADLOCK FALSE
