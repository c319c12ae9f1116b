SPECIFICATION MCSpec
CONSTANTS
  Sales = {s1, s2}
  Rebuys = {o}
  Buys = {b1, b2}
  Cases = {c1, c2}
  Batches = {k1, k2}
  Reviews = {r1, r2}
  Requests = {q1, q2}
  Replicas = {x1, x2}
  None = None
  MaxQuotes = 1
  MaxPreflights = 2
  MaxDeletions = 1
  Payloads = {p, q}
  Invalid = {q}
  Tabs = {t1, t2}
  Readers = {r}
  MaxVersions = 4
  ResearchBatches = {k3}
  Funds = {1, 2}
  Singles = {j1, j2, j3}
  Reruns = {j4}
  Clients = {q1, q2}
  Trades = {t}
  Quotes = {r1, r2}
  MaxActive = 2
  MaxVersion = 1
  MaxReviews = 2
  MaxBuys = 3
  MaxResults = 1
SYMMETRY Symmetry
CHECK_DEADLOCK FALSE
INVARIANTS
  TransactionBoundOnce
