SPECIFICATION Spec
CONSTANTS
  Workers = {w1, w2}
  Nobody = Nobody
  StepCount = 3
  Required = {1}
  Guarded = {1, 2}
  Inputs <- Synthesis
  Deployments = {FALSE}
  LeaseTicks = 1
  MaxMessages = 2
  MaxEvidence = 3
  MaxFaults = 1
  MaxStalls = 0
CHECK_DEADLOCK FALSE
INVARIANTS
  CompletedIsComplete
