SPECIFICATION FairOutboxSpec
CONSTANTS
  A = A
  B = B
  Messages = {order, poison}
  Dispatchers = {A, B}
  Invalid = {poison}
  BatchSize <- MCBatchSize
  MaxAttempts = 2
  MaxRows = 2
  MaxFailures = 3
INVARIANTS
  OutboxInv
PROPERTIES
  SettlesItsClaim
  Settled
  StopDrains
