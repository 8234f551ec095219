SPECIFICATION Spec
CONSTANTS
  t1 = t1
  t2 = t2
  isr = isr
  m1 = m1
  m2 = m2
  NoItem = NoItem
  Ports <- FreeRtos
  Tasks <- TwoTasks
  Isrs <- OneIsr
  Producers <- MCProducers
  Consumers <- TwoTasks
  Pollers <- OneIsr
  Items <- TwoItems
  Capacity = 2
INVARIANTS
  GetOkHasMessage
