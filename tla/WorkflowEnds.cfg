SPECIFICATION FairSpec
CONSTANTS
  A = A
  B = B
  Size = 3
  Executors = {A, B}
  Deployments <- EndsDeployments
  NoOwner = nobody
  LeaseDuration = 1
  PollInterval = 1
  MaxNodeActions = 2
  Horizon = 2
  ChildEvents = {}
  MaxFailures = 1
CHECK_DEADLOCK FALSE
PROPERTIES
  WorkflowEnds
