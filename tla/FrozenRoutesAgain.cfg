SPECIFICATION MCSpec
CONSTANTS
  First = b1
  Second = b2
  Requests = {q1}
  MaxPlans = 1
  MaxMonths = 1
  MaxWorlds = 1
  Portfolios = {h1}
  MaxProfiles = 1
  MaxSnapshots = 1
  MaxRuns = 1
  Users = {u1}
  Planners = {p1}
  Holdings = {w1, w2}
  MaxVersions = 1
  RouteRuns = 1
  MaxDay = 1
  StaleAfter = 1
  MaxShown = 2
  Assets = {a1, a2, a3}
  Scores = {0}
  Wishes = {0}
  Rooms = {2}
  RouteBudget = 7
  RouteCap = 3
  Whole = 2
  Desks = {d1}
  MinMature = 6
  MaxSources = 2
  MaxSelected = 2
  LastDay = 0
  MaxScans = 1
  MaxCohorts = 9
CHECK_DEADLOCK FALSE
PROPERTIES
  FreezeTakesEffect
