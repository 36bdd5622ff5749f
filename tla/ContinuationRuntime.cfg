SPECIFICATION RuntimeSpec
CONSTANTS
  A = A
  B = B
  a1 = a1
  a2 = a2
  b1 = b1
  Commands = {cmd}
  Payloads = {none, p1}
  NoPayload = none
  MaxUint64 = 5
  CallIDs = {1}
  Owners = {A, B}
  NoOwner = nobody
  Transitions <- MCTransitions
  LeaseDuration = 1
  Retention = 1
  MaxTime = 1
  Limits = {1}
  Threads = {a1, a2}
  Owner <- MCOwner
  Inline = {a2}
  Moves <- FewMoves
  Registered <- AllRegistered
  Floors = {2}
  BatchSize = 1
  MaxTransitions = 2
  MaxDetours = 1
  MaxFailures = 1
INVARIANTS
  RuntimeInv
PROPERTIES
  ImplementsStore
  CommandsKept
CHECK_DEADLOCK FALSE
