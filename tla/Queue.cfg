\* Two producers and two consumers on two slots: notify_one has to choose
\* between sleepers, and three items pass through a queue of two.
CONSTANTS
  p1 = p1
  p2 = p2
  c1 = c1
  c2 = c2
  k1 = k1
  Producers = {p1, p2}
  Consumers = {c1, c2}
  Closers = {k1}
  Values = {1, 2}
  Capacity = 2
  MaxPushes = 3
SPECIFICATION FairSpec
INVARIANTS TypeOK Fifo EndMeansDrained NoLostWakeup
PROPERTIES ShutdownIsFinal EveryItemDelivered ImplementsAtomicQueue
CHECK_DEADLOCK FALSE
