SPECIFICATION MCSpec
CONSTANTS
  Assets = {s1, s2}
  LastDate = 16
  Ahead = 2
  MinTrain = 6
  MaxFolds = 5
  MinRows = 1
  MinSymbols = 1
  MinOos = 4
  MinEvaluated = 2
  Symbols = {1, 2}
  LastDay = 4
  Every = 2
  Capital = 4
  Minimum = 2
  MaxAge = 3
  Capacity = 3
  FeeParts = 3
  Length = 11
  Warmup = 1
  Horizon = 2
  MaxSignals = 4
  Components = {k1}
  Probers = {w1, w2}
  FailureThreshold = 2
  RecoveryThreshold = 2
  StaleAfter = 2
  MaxTime = 5
  Interval = 2
  Admins = {a1, a2}
  Callers = {c1}
  ChecksPassed = TRUE
  MaxAudit = 6
  Stocks = {1, 2, 3}
  LastSession = 7
  Lookback = 2
  Skip = 1
  Step = 2
  MaxStale = 1
  MaxStaleRow = 3
  MinScore = 40
  MaxPositions = 2
  Target = 9000
  Cap = 5000
  MinLoaded = 2
  MinSegments = 2
  SegmentDays = 2
  Funds = {f, g}
  Limited = {c, d}
  Budget = 20
  Weights = {1, 2}
  Capacities = {5, 30}
  Ratios = {20, 90}
  Currents = {5, 12, 16}
  Limit = 40
  Base = 40
  Spends = {0, 5, 14, 22}
  Fees = {0, 1}
  Tolerance = 2
  Runs = {r}
  Requests = {q1, q2}
  Results = {x, y}
  Ready = {x}
  None = None
  MaxDay = 1
  Navs = {1, 2}
  MaxToday = 3
  MaxTrades = 3
  MaxRows = 3
  MaxSnapshots = 2
CHECK_DEADLOCK FALSE
INVARIANTS
  TypesOK
  PastAndFutureAreSeparate
  BooksBalance
  GatesAreTrue
PROPERTIES
  AllowedIsReleased
