SPECIFICATION MCSpec
CONSTANTS
  Workers = {w1, w2}
  TwoWorkers = {w1, w2}
  Nobody = Nobody
  Never = Never
  Intervals = {2, 3}
  RetryTicks = 1
  MaxRetries = 2
  LeaseTicks = 2
  Horizon = 3
  MaxFaults = 2
  Visitors = {v}
  Keys = {k}
  Fingerprints = {f, g}
  Absent = Absent
  Interval = 1
  InboxRetries = 1
  InboxLease = 1
  SnoozeTicks = 1
  MaxChanges = 1
  MaxDecisions = 2
  InboxFaults = 1
  Signals = {s1, s2}
  NoSignal = NoSignal
  LastBaseline = 2
  Window = 1
  MaxLag = 1
  Estimate = 2
  ShadowRetries = 1
  ShadowFaults = 1
CHECK_DEADLOCK FALSE
INVARIANT SamplesDoNotOverlap
