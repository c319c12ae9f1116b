SPECIFICATION Spec
CONSTANTS
  Workers = {w1, w2}
  Nobody = Nobody
  StepCount = 3
  Required = {1}
  Guarded = {1, 2}
  Inputs <- Synthesis
  Deployments = {TRUE, FALSE}
  LeaseTicks = 1
  MaxMessages = 1
  MaxEvidence = 3
  MaxFaults = 2
  MaxStalls = 1
SYMMETRY Symmetry
CHECK_DEADLOCK FALSE
INVARIANTS
  TypeOK
  ResultIsBacked
PROPERTIES
  TerminalIsFinal
  EvidenceIsReused
