------------------------ MODULE OpportunityCommittee ------------------------
(***************************************************************************)
(* The committee that shares out a user's research money among his         *)
(* opportunity strategies, and the hub that tells it what kind of market   *)
(* it is (opportunity_committee_service.py, opportunity_regime_service.py, *)
(* their repositories, and the scorecards of opportunity_profit_service.py *)
(* in src/backend).                                                        *)
(*                                                                         *)
(* The strategies' cohorts mature and their scans report on the markets.   *)
(* A request freezes what the hub or the committee makes of that: it reads *)
(* the strategies, then the scans, then the latest rows, composes, takes   *)
(* the time and inserts a row, unless there is one of the same evidence.   *)
(* Shares are in hundredths of a percent, other ratios in percent, both    *)
(* rounded down.  The cohorts of the strategies mature month by month.     *)
(***************************************************************************)
EXTENDS Integers, Sequences, FiniteSets, FiniteSetsExt, Sums

CONSTANTS
  Strategies,     \* numbers: where all else is equal, their ids decide
  Markets, Symbols,
  MarketOf,       \* the market of a symbol
  Holds,          \* of every strategy, what its basket holds of each symbol, in percent
  Histories,      \* cohorts that may have matured already
  Cohorts,        \* the cohorts that may mature
  Reports,        \* what a scan may say about the markets
  Desks,          \* requests
  MinMature,      \* minimum_mature_baskets
  FamilyCritical, \* critical values for so many cohorts, in percent, for all strategies together
  MaxSources,     \* MAX_SOURCES_PER_MARKET
  MaxSelected,    \* MAX_SELECTED_STRATEGIES
  FirstScans,     \* scans there may have been already
  LastDay, MaxScans, MaxCohorts \* bounds

VARIABLES
  day,
  scans,     \* completed runs, in their order
  cohorts,   \* of each strategy, its independent mature cohorts
  card,      \* of each strategy, how many cohorts its latest frozen scorecard is of
  ready,     \* strategies with a fresh basket, for a user who may invest
  clock,
  snapshots, \* opportunity_regime_snapshots
  mandates,  \* opportunity_committee_mandates
  desk       \* what each request is at, and has read

world == <<day, scans, cohorts, card, ready>>
vars == <<world, clock, snapshots, mandates, desk>>

MAX_RUN_AGE_DAYS == 14
MIN_REGIME_FIT_COHORTS == 4
FULL_RELIABILITY_COHORTS == 8
RECENT_DECAY_COHORTS == 3
MAX_STRATEGY_WEIGHT == 5000
MAX_CANDIDATE_MODEL_WEIGHT == 2500
REBALANCE_DRIFT_THRESHOLD == 1000

Regimes == {"risk_on", "mixed", "defensive"}

Regime_Score(status) ==
  CASE status = "risk_on" -> 1 [] status = "defensive" -> -1 [] OTHER -> 0

Base_Risk(status) ==
  CASE status = "risk_on" -> 100 [] status = "mixed" -> 85
    [] status = "defensive" -> 60 [] OTHER -> 50

\* Excess returns are a function from the numbers of cohorts.
Excess(cs) == [i \in DOMAIN cs |-> cs[i].excess]
Count(xs) == Cardinality(DOMAIN xs)
Total(xs) == Sum(xs, DOMAIN xs)
Average(xs) == IF DOMAIN xs = {} THEN 0 ELSE Total(xs) \div Count(xs)
Wins(xs) == Cardinality({i \in DOMAIN xs : xs[i] > 0})
Last(xs, n) ==
  LET late == {i \in DOMAIN xs : Cardinality({j \in DOMAIN xs : j > i}) < n}
  IN [i \in late |-> xs[i]]

\* The square root, rounded down.
Root(x) ==
  LET bits[k \in 0 .. 12] ==
        IF k = 12 THEN 0
        ELSE LET high == bits[k + 1]
                 more == high + 2 ^ k
             IN IF more * more <= x THEN more ELSE high
  IN bits[0]

-----------------------------------------------------------------------------
(* What a strategy has shown.                                              *)

\* Student's t for 95 %, in percent, for 2 cohorts and more
Critical == [n \in 2 .. 11 |->
  <<1270, 430, 318, 277, 257, 244, 236, 230, 226, 222>>[n - 1]]

\* The lower bound of the mean, in percent
Lower(xs, critical) ==
  LET n == Count(xs)
      spread == n * Total([i \in DOMAIN xs |-> xs[i] * xs[i]]) - Total(xs) * Total(xs)
  IN (100 * Total(xs) - Root((critical[n] * critical[n] * spread) \div (n - 1))) \div n

Capital_Gate(cs) ==
  LET xs == Excess(cs)
  IN IF Count(xs) < MinMature THEN "collecting"
     ELSE IF (\E i \in DOMAIN cs : cs[i].deep) \/ Total(xs) < 0 \/ 2 * Wins(xs) < Count(xs)
     THEN "suspended"
     ELSE IF Lower(xs, Critical) > 0 /\ Lower(xs, FamilyCritical) > 0
     THEN "limited_manual_pilot"
     ELSE "watch"

\* One strategy as the committee reads it
Evidence_Row(s) ==
  [cohorts |-> cohorts[s],
   gate |-> Capital_Gate(cohorts[s]),
   plan |-> Capital_Gate(cohorts[s]) = "limited_manual_pilot" /\ s \in ready,
   current |-> card[s] # 0 /\ card[s] = Len(cohorts[s])]

Evidence_Rows == [s \in Strategies |-> Evidence_Row(s)]

-----------------------------------------------------------------------------
(* The hub.                                                                *)

Age(scan, today) == today - scan.day

\* The latest fresh word of each strategy on a market, and of these the newest
Spoken(m, sc, today) ==
  LET speaks == {i \in DOMAIN sc : sc[i].report[m].status \in Regimes
                                   /\ Age(sc[i], today) <= MAX_RUN_AGE_DAYS}
  IN {i \in speaks : ~ \E j \in speaks : j > i /\ sc[j].of = sc[i].of}

Sources(m, sc, today) ==
  LET spoken == Spoken(m, sc, today)
  IN {i \in spoken : Cardinality({j \in spoken : j > i}) < MaxSources}

\* Fresh scans of many candidates weigh most: 11200 stands for 1.
Weight(m, scan, today) ==
  LET fresh == Max({15 * MAX_RUN_AGE_DAYS, 100 * (MAX_RUN_AGE_DAYS - Age(scan, today))})
  IN Max({40 * MAX_RUN_AGE_DAYS, fresh * Min({8, scan.report[m].samples})})

\* The status of a score, which is the sum of scores that have a total weight
Status_From(sum, weight) ==
  IF 100 * sum >= 35 * weight THEN "risk_on"
  ELSE IF 100 * sum <= -35 * weight THEN "defensive"
  ELSE "mixed"

Volatility_Multiplier(sum, weight) ==
  IF sum <= 25 * weight THEN 100
  ELSE IF sum <= 35 * weight THEN 90
  ELSE IF sum <= 50 * weight THEN 75
  ELSE 60

Market_State(m, sc, today) ==
  LET sources == Sources(m, sc, today)
      weights == [i \in sources |-> Weight(m, sc[i], today)]
      weight == Total(weights)
      sum == Total([i \in sources |-> weights[i] * Regime_Score(sc[i].report[m].status)])
      vol == Total([i \in sources |-> weights[i] * sc[i].report[m].vol])
      status == Status_From(sum, weight)
  IN IF sources = {} THEN [status |-> "insufficient", score |-> 0, risk |-> 50]
     ELSE [status |-> status, score |-> (100 * sum) \div weight,
           risk |-> Min({Base_Risk(status), Volatility_Multiplier(vol, weight),
                         IF Cardinality(sources) = 1 THEN 85 ELSE 100})]

\* What the markets of some positions come to.  Less than half of them known
\* is too little, and less than four fifths is a risk.
Position_Regime(weights, states) ==
  LET all == Sum(weights, Markets)
      known == {m \in Markets : states[m].status \in Regimes}
      covered == Sum(weights, known)
      sum == Total([m \in known |-> weights[m] * Regime_Score(states[m].status)])
      risk == Total([m \in Markets |-> weights[m] * states[m].risk]) \div all
  IN IF all = 0 THEN [status |-> "insufficient", coverage |-> 0, risk |-> 50]
     ELSE [status |-> IF 2 * covered < all THEN "insufficient" ELSE Status_From(sum, covered),
           coverage |-> (100 * covered) \div all,
           risk |-> IF 5 * covered < 4 * all THEN Min({risk, 75}) ELSE risk]

Exposure ==
  [s \in Strategies |->
    [m \in Markets |-> Sum(Holds[s], {y \in Symbols : MarketOf[y] = m})]]

\* What the market was when a cohort was frozen
Frozen_Regime(s, cohort) ==
  Position_Regime(Exposure[s],
                  [m \in Markets |-> [status |-> cohort.markets[m],
                                      risk |-> Base_Risk(cohort.markets[m])]])

\* The cohorts that were frozen in markets like the present one
Alike(s, row, status) ==
  {i \in DOMAIN row.cohorts :
    LET then == Frozen_Regime(s, row.cohorts[i])
    IN status \in Regimes /\ then.status = status /\ then.coverage >= 70}

Fit_Status(status, xs) ==
  IF status = "insufficient" THEN "unavailable"
  ELSE IF Count(xs) < MIN_REGIME_FIT_COHORTS THEN "collecting"
  ELSE IF Wins(Last(xs, 3)) = 0 THEN "avoid"
  ELSE IF Total(xs) <= 0 \/ 2 * Wins(xs) < Count(xs) THEN "underweight"
  ELSE IF 10 * Wins(xs) >= 6 * Count(xs) /\ Lower(xs, Critical) > 0 THEN "preferred"
  ELSE "neutral"

Allocation_Tilt(fit, n) ==
  LET raw == CASE fit = "underweight" -> 75 [] fit = "preferred" -> 110 [] OTHER -> 100
      reliability == Min({n, FULL_RELIABILITY_COHORTS})
  IN IF fit = "avoid" THEN 0
     ELSE 100 + ((raw - 100) * reliability) \div FULL_RELIABILITY_COHORTS

\* How a strategy fared in markets like the present one.
Regime_Fit(s, row, states) ==
  LET now == Position_Regime(IF row.plan \/ row.cohorts # <<>> THEN Exposure[s]
                             ELSE [m \in Markets |-> 0], states)
      xs == [i \in Alike(s, row, now.status) |-> row.cohorts[i].excess]
      fit == Fit_Status(now.status, xs)
  IN [fit |-> fit, risk |-> now.risk, status |-> now.status,
      tilt |-> Allocation_Tilt(fit, Count(xs))]

\* All the hub says
Hub(rows, sc, today) ==
  LET states == [m \in Markets |-> Market_State(m, sc, today)]
      known == {m \in Markets : states[m].status \in Regimes}
      fits == [s \in Strategies |-> Regime_Fit(s, rows[s], states)]
      exposed == {s \in Strategies : rows[s].plan \/ rows[s].cohorts # <<>>}
  IN [states |-> states, fits |-> fits,
      status |-> IF known = {} THEN "insufficient"
                 ELSE Status_From(Total([m \in known |-> states[m].score]), 100 * Cardinality(known)),
      budget |-> IF exposed # {}
                 THEN Average([s \in exposed |-> fits[s].risk])
                 ELSE Average([m \in Markets |-> states[m].risk]),
      sources |-> [m \in Markets |->
                    {<<i, Weight(m, sc[i], today)>> : i \in Sources(m, sc, today)}]]

Regime_Evidence(rows, hub) ==
  [sources |-> hub.sources, fits |-> hub.fits,
   strategies |-> [s \in Strategies |-> [cohorts |-> rows[s].cohorts, plan |-> rows[s].plan]]]

\* Whether a snapshot says something else than the one before
Transition(hub, previous) ==
  CASE previous = {} -> "initial"
    [] \E p \in previous : p.states = [m \in Markets |-> hub.states[m].status]
                           /\ hub.budget - p.budget \in -4 .. 4 -> "stable"
    [] OTHER -> "changed"

-----------------------------------------------------------------------------
(* The committee.                                                          *)

Normalised ==
  [s \in Strategies |-> LET held == Sum(Holds[s], Symbols)
                        IN [y \in Symbols |-> (100 * Holds[s][y]) \div held]]

Position_Overlap ==
  [s \in Strategies |-> [t \in Strategies |->
    Total([y \in Symbols |-> Min({Normalised[s][y], Normalised[t][y]})])]]

\* Of the months both have cohorts for, four at least; 0 when they do not go together
Cohort_Correlation(xs, ys) ==
  LET n == Min({Count(xs), Count(ys)})
      Co(us, vs) == n * Total([i \in 1 .. n |-> us[i] * vs[i]])
                    - Sum(us, 1 .. n) * Sum(vs, 1 .. n)
  IN IF n < 4 \/ Co(xs, xs) <= 0 \/ Co(ys, ys) <= 0 \/ Co(xs, ys) <= 0 THEN 0
     ELSE (100 * Co(xs, ys)) \div Root(Co(xs, xs) * Co(ys, ys))

Redundancy(rows, s, t) ==
  Max({Position_Overlap[s][t],
       Cohort_Correlation(Excess(rows[s].cohorts), Excess(rows[t].cohorts))})

Recent(row) == Last(Excess(row.cohorts), RECENT_DECAY_COHORTS)

\* Mutant: a strategy that lost three times goes on.
FailingNever(row) == FALSE

Failing(row) == Count(Recent(row)) = RECENT_DECAY_COHORTS /\ Wins(Recent(row)) = 0

Decaying(row) ==
  /\ Count(Recent(row)) = RECENT_DECAY_COHORTS /\ ~ Failing(row)
  /\ Total(Recent(row)) <= 0 \/ 2 * Wins(Recent(row)) < RECENT_DECAY_COHORTS

Base_State(row) ==
  IF Failing(row) \/ row.gate = "suspended" THEN "suspended"
  ELSE IF row.gate = "limited_manual_pilot" /\ row.plan /\ row.current THEN "approved"
  ELSE "collecting"

Committee_State(row, fit) ==
  IF Base_State(row) = "approved" /\ fit.fit = "avoid" THEN "suspended" ELSE Base_State(row)

\* s has the weaker evidence.  A bound of exactly 0 counts as none.
Weaker(rows, s, t) ==
  LET xs(u) == Excess(rows[u].cohorts)
      bound(u) == LET l == Lower(xs(u), FamilyCritical) IN IF l = 0 THEN -1000000 ELSE l
      rate(u) == Wins(xs(u)) * Count(xs(IF u = s THEN t ELSE s))
      key(u) == <<bound(u), rate(u), Count(xs(u)), u>>
  IN \E k \in 1 .. 4 : key(s)[k] < key(t)[k] /\ \A j \in 1 .. k - 1 : key(s)[j] = key(t)[j]

Allocation_Utility(rows, fits, approved, s) ==
  LET others == approved \ {s}
      rank == Cardinality({t \in others : Weaker(rows, t, s)})
      evidence == IF others = {} THEN 100 ELSE 90 + (20 * rank) \div Cardinality(others)
      unique == Max({0, 100 - Average([t \in others |-> Redundancy(rows, s, t)])})
      uniqueness == 70 + (30 * unique) \div 100
      decay == IF Decaying(rows[s]) THEN 55 ELSE 100
  IN (((evidence * uniqueness * decay) \div 100) * Min({110, fits[s].tilt})) \div 10000

\* One after the other, the best of those that are least like the ones before
Selected(rows, approved, utility) ==
  LET Score(s, sofar) ==
        utility[s] * (200 - Max({0} \cup {Redundancy(rows, s, t) : t \in sofar}))
      Best(S, sofar) == {s \in S : \A t \in S :
        Score(s, sofar) > Score(t, sofar) \/ (Score(s, sofar) = Score(t, sofar) /\ s >= t)}
      first[n \in 0 .. MaxSelected] ==
        IF n = 0 THEN {}
        ELSE LET sofar == first[n - 1] IN sofar \cup Best(approved \ sofar, sofar)
  IN first[MaxSelected]

\* How like each other the selected are
Average_Redundancy(rows, selected) ==
  LET pairs == {p \in selected \X selected : p[1] < p[2]}
  IN Average([p \in pairs |-> Redundancy(rows, p[1], p[2])])

Base_Investable(selected, redundancy) ==
  IF selected = {} THEN 0
  ELSE IF Cardinality(selected) = 1 THEN 50
  ELSE IF redundancy >= 80 THEN 70
  ELSE IF redundancy >= 65 THEN 85
  ELSE 100

Regime_Multiplier(fits, budget, selected, utility) ==
  LET all == Sum(utility, selected)
  IN IF selected = {} \/ all = 0 THEN Min({100, budget})
     ELSE Total([s \in selected |-> utility[s] * Min({100, fits[s].risk})]) \div all

\* In proportion, except that nobody gets more than the cap
Capped_Weights(raw, target, cap) ==
  LET some == {s \in DOMAIN raw : raw[s] > 0}
      share[S \in SUBSET some] ==
        LET left == target - cap * Cardinality(some \ S)
            all == Sum(raw, S)
            over == {s \in S : left * raw[s] > cap * all}
        IN IF over # {} THEN share[S \ over]
           ELSE [s \in DOMAIN raw |-> CASE s \in S -> (left * raw[s]) \div all
                                        [] s \in some \ S -> cap
                                        [] OTHER -> 0]
  IN share[some]

Candidate_Cap(raw) == Min({raw, MAX_CANDIDATE_MODEL_WEIGHT})

Approved(rows, fits) ==
  {s \in Strategies : Committee_State(rows[s], fits[s]) = "approved"}

Utilities(rows, fits, approved) ==
  [s \in approved |-> Allocation_Utility(rows, fits, approved, s)]

\* What each strategy gets
Shares(selected, utility, investable) ==
  LET weights == Capped_Weights([s \in selected |-> utility[s]], investable, MAX_STRATEGY_WEIGHT)
  IN [s \in Strategies |-> IF s \in selected THEN weights[s] ELSE 0]

\* What that comes to for each symbol
Targets(weight) ==
  [y \in Symbols |-> Candidate_Cap(Total(
    [s \in Strategies |-> (weight[s] * Normalised[s][y]) \div 100]))]

\* What the selected strategies are given, and what is said of them all
Result(rows, fits, budget, approved, utility, selected) ==
  LET redundancy == Average_Redundancy(rows, selected)
      base == Base_Investable(selected, redundancy)
      investable == base * Regime_Multiplier(fits, budget, selected, utility)
      weight == Shares(selected, utility, investable)
      target == Targets(weight)
      state == [s \in Strategies |-> Committee_State(rows[s], fits[s])]
  IN [state |-> [s \in Strategies |-> IF s \in approved \ selected THEN "reserve" ELSE state[s]],
      weight |-> weight, target |-> target, base |-> base, investable |-> investable,
      cash |-> Max({0, 10000 - Total(target)}),
      status |-> IF \E s \in Strategies : state[s] = "suspended" THEN "degraded"
                 ELSE IF selected = {} THEN "collecting"
                 ELSE IF Cardinality(selected) = 1 \/ redundancy >= 65 THEN "concentrated"
                 ELSE "active"]

Compose(rows, fits, budget) ==
  LET approved == Approved(rows, fits)
      utility == Utilities(rows, fits, approved)
  IN Result(rows, fits, budget, approved, utility, Selected(rows, approved, utility))

\* Half of what changes hands, cash included
Turnover(now, before) ==
  LET cash == Max({0, 10000 - Total(now)}) - Max({0, 10000 - Total(before)})
      size(n) == IF n < 0 THEN -n ELSE n
  IN (Total([k \in DOMAIN now |-> size(now[k] - before[k])]) + size(cash)) \div 2

Drift(result, previous) ==
  LET in(r) == {s \in Strategies : r.weight[s] > 0}
  IN CASE previous = {} -> "initial_mandate"
       [] \E p \in previous : in(p.result) = in(result)
            /\ Turnover(result.target, p.result.target) < REBALANCE_DRIFT_THRESHOLD -> "within_band"
       [] OTHER -> "rebalance_required"

\* Mutant: what the hub says is no part of the evidence.
EvidenceOfRows(rows, hub, snapshot) == [rows |-> rows]

Evidence(rows, hub, snapshot) ==
  [rows |-> rows, fits |-> hub.fits, budget |-> hub.budget, states |-> hub.states,
   status |-> hub.status, regime |-> Regime_Evidence(rows, hub), snapshot |-> snapshot]

-----------------------------------------------------------------------------
(* The world.                                                              *)

Idle == [at |-> "idle", kind |-> "hub", rows |-> <<>>, hub |-> <<>>, snapshot |-> 0, prior |-> 0,
         stamp |-> 0]

Init ==
  /\ day = 0 /\ clock = 0
  /\ scans \in FirstScans
  /\ cohorts \in [Strategies -> Histories]
  /\ card = [s \in Strategies |-> Len(cohorts[s])]
  /\ ready = Strategies
  /\ snapshots = {} /\ mandates = {}
  /\ desk = [d \in Desks |-> Idle]

NewDay ==
  /\ day < LastDay /\ day' = day + 1
  /\ UNCHANGED <<scans, cohorts, card, ready, clock, snapshots, mandates, desk>>

Scan(s) ==
  /\ Len(scans) < MaxScans
  /\ \E r \in Reports : scans' = Append(scans, [of |-> s, day |-> day, report |-> r])
  /\ UNCHANGED <<day, cohorts, card, ready, clock, snapshots, mandates, desk>>

Mature(s) ==
  /\ Len(cohorts[s]) < MaxCohorts
  /\ \E c \in Cohorts : cohorts' = [cohorts EXCEPT ![s] = Append(@, c)]
  /\ UNCHANGED <<day, scans, card, ready, clock, snapshots, mandates, desk>>

Persist_Scorecard(s) ==
  /\ card[s] # Len(cohorts[s])
  /\ card' = [card EXCEPT ![s] = Len(cohorts[s])]
  /\ UNCHANGED <<day, scans, cohorts, ready, clock, snapshots, mandates, desk>>

\* A basket is frozen, or becomes too old; the portfolio is valued, or not.
Plan(s) ==
  /\ ready' = IF s \in ready THEN ready \ {s} ELSE ready \cup {s}
  /\ UNCHANGED <<day, scans, cohorts, card, clock, snapshots, mandates, desk>>

-----------------------------------------------------------------------------
(* The requests.                                                           *)

Latest(rows) == {r \in rows : \A o \in rows : o.stamp <= r.stamp}
LatestStamp(rows) == Max({0} \cup {r.stamp : r \in rows})

Goes(d, new) ==
  /\ desk' = [desk EXCEPT ![d] = new]
  /\ UNCHANGED <<world, clock, snapshots, mandates>>

Read_Rows(d, kind) ==
  /\ desk[d].at = "idle"
  /\ Goes(d, [Idle EXCEPT !.at = "inputs", !.kind = kind, !.rows = Evidence_Rows])

Load_Current_Inputs(d) ==
  /\ desk[d].at = "inputs"
  /\ Goes(d, [desk[d] EXCEPT !.at = "snapshot", !.hub = Hub(desk[d].rows, scans, day)])

Latest_Snapshot(d) ==
  /\ desk[d].at = "snapshot"
  /\ Goes(d, [desk[d] EXCEPT !.at = IF desk[d].kind = "hub" THEN "compose" ELSE "mandate",
                             !.snapshot = LatestStamp(snapshots)])

Latest_Mandate(d) ==
  /\ desk[d].at = "mandate"
  /\ Goes(d, [desk[d] EXCEPT !.at = "compose", !.prior = LatestStamp(mandates)])

\* created_at is taken before the transaction.
Take_Time(d) ==
  /\ desk[d].at = "compose" /\ clock' = clock + 1
  /\ desk' = [desk EXCEPT ![d].at = "insert", ![d].stamp = clock + 1]
  /\ UNCHANGED <<world, snapshots, mandates>>

SnapshotOf(r) ==
  LET previous == {p \in snapshots : p.stamp = r.snapshot}
  IN [stamp |-> r.stamp, evidence |-> Regime_Evidence(r.rows, r.hub),
      states |-> [m \in Markets |-> r.hub.states[m].status], budget |-> r.hub.budget,
      transition |-> Transition(r.hub, previous)]

MandateOf(r) ==
  LET previous == {p \in mandates : p.stamp = r.prior}
      result == Compose(r.rows, r.hub.fits, r.hub.budget)
  IN [stamp |-> r.stamp, evidence |-> Evidence(r.rows, r.hub, r.snapshot), result |-> result,
      prior |-> r.prior, drift |-> Drift(result, previous)]

\* ON CONFLICT DO NOTHING
Inserted(rows, new) ==
  IF \E r \in rows : r.evidence = new.evidence THEN rows ELSE rows \cup {new}

Create_Snapshot(d) ==
  /\ desk[d].at = "insert" /\ desk[d].kind = "hub"
  /\ snapshots' = Inserted(snapshots, SnapshotOf(desk[d]))
  /\ desk' = [desk EXCEPT ![d] = Idle]
  /\ UNCHANGED <<world, clock, mandates>>

Create_Mandate(d) ==
  /\ desk[d].at = "insert" /\ desk[d].kind = "committee"
  /\ mandates' = Inserted(mandates, MandateOf(desk[d]))
  /\ desk' = [desk EXCEPT ![d] = Idle]
  /\ UNCHANGED <<world, clock, snapshots>>

Request(d) ==
  \/ \E kind \in {"hub", "committee"} : Read_Rows(d, kind)
  \/ Load_Current_Inputs(d) \/ Latest_Snapshot(d) \/ Latest_Mandate(d)
  \/ Take_Time(d) \/ Create_Snapshot(d) \/ Create_Mandate(d)

World(s) == Scan(s) \/ Mature(s) \/ Persist_Scorecard(s) \/ Plan(s)

Next == NewDay \/ (\E s \in Strategies : World(s)) \/ \E d \in Desks : Request(d)

Spec == Init /\ [][Next]_vars

-----------------------------------------------------------------------------
(* What holds.                                                             *)

\* Every variable keeps its type.
TypeOK ==
  /\ day \in 0 .. LastDay /\ clock \in Nat
  /\ \A i \in DOMAIN scans : scans[i].of \in Strategies /\ scans[i].day <= day
  /\ \A s \in Strategies : card[s] \in 0 .. Len(cohorts[s])
  /\ ready \subseteq Strategies
  /\ \A r \in snapshots \cup mandates : r.stamp \in 1 .. clock
  /\ \A d \in Desks :
       /\ desk[d].at \in {"idle", "inputs", "snapshot", "mandate", "compose", "insert"}
       /\ desk[d].stamp \in 0 .. clock

\* A strategy's basket and scorecard are frozen, of its last three cohorts one
\* has won, and it has not lost in markets like the present one.
HasEarned(row, fit) ==
  /\ row.plan /\ row.current /\ fit.fit # "avoid"
  /\ \E i \in Len(row.cohorts) - 2 .. Len(row.cohorts) : row.cohorts[i].excess > 0

KeepsLimits(rows, fits, result) ==
  LET some == {s \in Strategies : result.weight[s] > 0}
  IN /\ Cardinality(some) <= MaxSelected
     /\ \A s \in some : result.weight[s] <= MAX_STRATEGY_WEIGHT /\ HasEarned(rows[s], fits[s])
     /\ \A y \in Symbols : result.target[y] <= MAX_CANDIDATE_MODEL_WEIGHT
     /\ Total(result.weight) <= result.investable
     /\ result.investable <= 100 * result.base
     /\ result.cash >= 10000 - result.investable

\* A mandate gives nothing to a strategy that has lost three times running, be
\* it altogether or in markets like the present one, or whose scorecard is not
\* frozen; no strategy and no symbol has more than its cap, and what is given
\* is within what the hub allows (compose_committee).
MandatesKeepTheirLimits ==
  \A m \in mandates : KeepsLimits(m.evidence.rows, m.evidence.fits, m.result)

\* A mandate bound to the evidence of some rows and a hub gives what they give.
GivesOf(m, rows, hub) ==
  m.evidence = Evidence(rows, hub, LatestStamp(snapshots)) =>
    m.result = Compose(rows, hub.fits, hub.budget)

\* The mandate shown as current gives what would be given now: nothing that
\* decides the shares is left out of the evidence (current_committee).
CurrentMandateIsOfNow ==
  LET rows == Evidence_Rows
  IN \A m \in {n \in Latest(mandates) : n.evidence.rows = rows} :
       GivesOf(m, rows, Hub(rows, scans, day))

\* Drift is measured against a mandate that is older, and still as it was:
\* no two requests measure theirs against each other (freeze_committee).
DriftIsFromAnOlderMandate ==
  \A m \in mandates :
    IF m.prior = 0 THEN m.drift = "initial_mandate"
    ELSE \E p \in mandates : /\ p.stamp = m.prior /\ p.stamp < m.stamp
                             /\ m.drift = Drift(m.result, {p})
=============================================================================
