CONSTANTS
  Producers = {p1, p2}
  Consumers = {c1, c2}
  MaxPushes = 3
SPECIFICATION FairSpec
INVARIANTS
  NoLostWakeup
PROPERTIES
  AtomicSpec
  PushedIsPopped
CHECK_DEADLOCK FALSE
