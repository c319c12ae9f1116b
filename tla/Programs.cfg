SPECIFICATION MCSpec
CONSTANTS
  TargetCount = 2
  Daily = {1, 2}
  Workers = {w1, w2}
  MaxAttempts = 2
  LeaseTicks = 1
  CoolTicks = 1
  MaxMessages = 1
  MaxFaults = 2
  Executors = {x1, x2}
  Nobody = Nobody
  Callers = {c1, c2}
  Settlers = {s1, s2}
  MaxRuns = 2
  MaxDays = 1
  MaxChanges = 1
  AlphaFaults = 1
  None = None
  Cycles = {c}
  Reconcilers = {p1, p2}
  CycleFaults = 2
  StepCount = 2
  Required = {2}
  Guarded = {1}
  Deployments = {TRUE, FALSE}
  RunLease = 1
  RunMessages = 1
  MaxEvidence = 2
  RunFaults = 2
  MaxStalls = 0
CHECK_DEADLOCK FALSE
INVARIANTS
  TypesOK
  ResultsAreBacked
PROPERTIES
  LateResponsesAreRefused
  FactsStand
  RunsAreSettled
  ProgramsGoOn
