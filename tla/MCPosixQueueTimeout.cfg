SPECIFICATION FairSpec
CONSTANTS
  a = a
  b = b
  p1 = p1
  c1 = c1
  c2 = c2
  Items <- OneItem
  ItemCount = 2
  IndexRange = 4
  Producers <- OneProducer
  Consumers <- OneConsumer
  Pollers <- Nobody
  Configurators <- Nobody
  Timeouts <- Finite
  NoThread = NoThread
  NoItem = NoItem
PROPERTIES
  TimedGetReturns
