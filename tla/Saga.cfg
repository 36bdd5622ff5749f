SPECIFICATION FairSpec
CONSTANTS
  Keys = {"saga"}
  Key = "saga"
  Engines = {A, B}
  N = 4
  Compensable = {1, 3}
  MaxCompensationAttempts = 2
  MaxFailures = 1
  MaxReruns = 2
CHECK_DEADLOCK FALSE
INVARIANTS
  SagaInv
PROPERTIES
  EffectAtRecord
  RecordAdvances
  SagaEnds
