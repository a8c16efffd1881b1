CONSTANTS
  Items = {i1, i2, i3}
  Consumers = {c1, c2, c3}
SPECIFICATION Spec
INVARIANTS
  TypeOK
  NoDuplicates
  NoLostWakeup
  NobodyWaitsAfterShutdown
PROPERTY ImplementsDedupQueue
