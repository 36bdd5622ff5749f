SPECIFICATION Spec
CONSTANTS
  IDs = {1, 2, 3}
  Unknown = 9
  Stoppers = {S, T}
  Calls = {c1, c2, c3}
  Stubborn = {c3}
  Keys = {"job"}
  Key = "job"
  Replicas = {A, B}
  MaxFence = 4
  MaxIncidents = 3
CHECK_DEADLOCK FALSE
INVARIANTS
  DefinitionInv
  Canonical
  WorkerInv
  CleanStop
  OwnedInv
  AckedHeldLease
  OverlapNeedsLoss
PROPERTIES
  StopReturnsAtLast
