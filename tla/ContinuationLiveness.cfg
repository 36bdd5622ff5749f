SPECIFICATION FairSpec
CONSTANTS
  A = A
  B = B
  a1 = a1
  a2 = a2
  b1 = b1
  Commands = {cmd}
  Payloads = {none}
  NoPayload = none
  MaxUint64 = 12
  CallIDs = {1}
  Owners = {A, B}
  NoOwner = nobody
  Transitions <- MCTransitions
  LeaseDuration = 1
  Retention = 1
  MaxTime = 2
  Limits = {}
  Threads = {a1, b1}
  Owner <- MCLoops
  Inline = {}
  Moves <- MCMoves
  Registered <- AllRegistered
  Floors = {}
  BatchSize = 1
  MaxTransitions = 2
  MaxDetours = 1
  MaxFailures = 1
PROPERTIES
  CallsSettle
  CancelTakesEffect
CHECK_DEADLOCK FALSE
