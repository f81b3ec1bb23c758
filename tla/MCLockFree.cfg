\* Two producers and two consumers where there may be two, two laps of two nodes.
SPECIFICATION MCSpec
CONSTANTS
  Producers = {p1, p2}
  Consumers = {c1, c2}
  producer = p1
  consumer = c1
  MultiProducer = TRUE
  MultiConsumer = TRUE
  Capacity = 2
  Values = {1, 2}
  NoValue = 0
  Blank = 9
  MaxPushes = 3
INVARIANTS
  NodesSafe
PROPERTIES
  RefusalsHaveReason
  FifoOrder
  PushedIsPopped
  SpscFifoOrder
CHECK_DEADLOCK FALSE
