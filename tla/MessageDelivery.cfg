SPECIFICATION FairSpec
CONSTANTS
  order = order
  plain = plain
  twice = twice
  Messages = {order, plain, twice}
  Headers <- MCHeaders
  Dispatchers = {A}
  Processors = {P, Q}
  Invalid = {}
  BatchSize <- MCBatchSize
  MaxAttempts = 2
  MaxRows = 1
  MaxFailures = 1
  MaxFaults = 2
INVARIANTS
  InboxInv
  EffectOnce
PROPERTIES
  EndToEnd
  QueueDrains
