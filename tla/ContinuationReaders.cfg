SPECIFICATION ReadersSpec
CONSTANTS
  p1 = p1
  Commands = {cmd}
  Payloads = {none, p1}
  NoPayload = none
  MaxUint64 = 5
  CallIDs = {1}
  Owners = {A}
  NoOwner = nobody
  Transitions <- MCTransitions
  LeaseDuration = 1
  Retention = 1
  MaxTime = 1
  Limits = {1}
  Target = 1
  PageSize = 2
  MaxWire = 2
  MaxBreaks = 1
INVARIANTS
  StreamInv
  GrpcInv
PROPERTIES
  CallReturns
  StreamEnds
CHECK_DEADLOCK FALSE
