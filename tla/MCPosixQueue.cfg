SPECIFICATION Spec
CONSTANTS
  a = a
  b = b
  p1 = p1
  c1 = c1
  c2 = c2
  Items <- MCItems
  ItemCount = 2
  IndexRange = 4
  Producers <- MCProducers
  Consumers <- MCConsumers
  Pollers <- OneProducer
  Configurators <- SecondConsumer
  Timeouts <- WaitOrNot
  NoThread = NoThread
  NoItem = NoItem
INVARIANTS
  CopyIsFront
  NoLostWakeup
  SignalFollowsPush
PROPERTIES
  RingImplementsFifo
  QueueImplementsMessageQueue
