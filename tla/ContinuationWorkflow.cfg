SPECIFICATION Spec
CONSTANTS
  A = A
  B = B
  Size = 4
  Executors = {A, B}
  Deployments <- MCDeployments
  NoOwner = nobody
  LeaseDuration = 1
  PollInterval = 1
  MaxNodeActions = 3
  Horizon = 3
  ChildEvents = {"prune", "collect"}
  MaxFailures = 1
CHECK_DEADLOCK FALSE
INVARIANTS
  WorkflowInv
  FailureIsGenuine
  ExecutedNotDisowned
  SuccessorsAccepted
PROPERTIES
  NodesAreFinal
