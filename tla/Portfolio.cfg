SPECIFICATION MCSpec
CONSTANTS
  First = b1
  Second = b2
  Requests = {q1, q2}
  MaxPlans = 2
  MaxMonths = 1
  MaxWorlds = 1
  Portfolios = {h1, h2}
  MaxProfiles = 2
  MaxSnapshots = 2
  MaxRuns = 1
  Users = {u1}
  Planners = {p1}
  Holdings = {w1, w2}
  MaxVersions = 1
  RouteRuns = 1
  MaxDay = 0
  StaleAfter = 0
  MaxShown = 2
  Assets = {a1, a2, a3}
  Scores = {0, 1, 2}
  Wishes = {0, 3}
  Rooms = {2, 5}
  RouteBudget = 7
  RouteCap = 3
  Whole = 4
  Desks = {q1, q2}
  MinMature = 6
  MaxSources = 2
  MaxSelected = 2
  LastDay = 1
  MaxScans = 2
  MaxCohorts = 10
SYMMETRY Symmetry
CHECK_DEADLOCK FALSE
INVARIANTS
  TypesOK
  ReadsAgree
  JobSuccessIsBacked
  AmountsAreRight
PROPERTIES
  PurchasesAreCountedOnce
