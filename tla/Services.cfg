SPECIFICATION MCSpec
CONSTANTS
  Threads = {t1, t2}
  Keys = {k1}
  Vendor = vendor
  Public = public
  Unconfigured = {}
  Threshold = 2
  CircuitTicks = 2
  PageTTL = 1
  BundleTTL = 2
  CallTicks = 1
  MaxRuns = 2
  MaxVersions = 2
  MaxDay = 2
  Horizon = 1
  Spacing = 1
  SweepWindow = 2
  BasketWindow = 2
  ObservationWindow = 9
  Plans = {p1, p2}
  Horizons = {1}
  Limit = 1
  ScopeWindow = 2
  OutcomeWindow = 2
  MaxEvents = 2
  MaxRefreshes = 1
  MaxFaults = 1
  MaxScopes = 3
  Purchases = {l1}
  Openings = {o1}
  Requests = {h1, h2}
  Prices = {2, 3}
  Fees = {0, 1}
  Amounts = {0, 3, 6}
  Caps = {30, 40}
  EntryRates = {0}
  DayLength = 2
  Validity = 1
  NavDays = 1
  Tolerance = 1
  MaxHour = 2
  MaxReviews = 1
  MaxQuotes = 2
  MaxVerdicts = 1
  MaxChanges = 4
CHECK_DEADLOCK FALSE
INVARIANTS
  TypesOK
  ShownIsCurrent
PROPERTIES
  CountedStands
  EveryoneIsServed
