SPECIFICATION Spec
CONSTANTS
  Commands = {cmd1, cmd2}
  Payloads = {none, p1}
  NoPayload = none
  MaxUint64 = 6
  CallIDs = {1}
  Owners = {A, B}
  NoOwner = nobody
  Transitions <- MCTransitions
  LeaseDuration = 1
  Retention = 1
  MaxTime = 2
  Limits = {1}
INVARIANTS
  IInv
  StoredValid
PROPERTIES
  LeaseExcludes
  CancelIsSticky
  ImplementsDurableCall
