----------------------------- MODULE MCPortfolio -----------------------------
(***************************************************************************)
(* What becomes of a user's money, for TLC: the plans and their execution  *)
(* (CapitalPlans), the experiments on his portfolio (PortfolioQuant), the  *)
(* routes he freezes (FrozenRoutes), the amounts of a plan (CapitalSizing) *)
(* and the committee that shares money out among his strategies            *)
(* (OpportunityCommittee).  A behaviour is one of a single component, the  *)
(* one in focus, and the variables of the others are 0.                    *)
(***************************************************************************)
EXTENDS Integers, Sequences, FiniteSets, FiniteSetsExt, TLC

CONSTANTS
  First, Second, Requests, MaxPlans, MaxMonths, MaxWorlds,
  Portfolios, MaxProfiles, MaxSnapshots, MaxRuns,
  Users, Planners, Holdings, MaxVersions, RouteRuns, MaxDay, StaleAfter, MaxShown,
  Assets, Scores, Wishes, Rooms, RouteBudget, RouteCap, Whole,
  Desks, MinMature, MaxSources, MaxSelected, LastDay, MaxScans, MaxCohorts

\* What the theorems about this module rest on; those about types and amounts
\* also rest on the other two.
ASSUME PortfolioAssumption ==
  /\ {MaxPlans, MaxMonths, MaxProfiles, MaxSnapshots, MaxRuns} \subseteq Nat
  /\ First # Second

ASSUME BoundsAssumption ==
  /\ {MaxWorlds, MaxVersions, RouteRuns, MaxDay, LastDay} \subseteq Nat
  /\ 0 \notin {MaxMonths, MaxProfiles}

ASSUME SizingAssumption ==
  /\ IsFiniteSet(Assets) /\ Scores \cup Wishes \cup Rooms \subseteq Nat
  /\ {RouteBudget, RouteCap} \subseteq Nat /\ Whole \in Nat \ {0}

ASSUME CommitteeAssumption ==
  {MinMature, MaxSelected} \subseteq Nat /\ MinMature >= 3

VARIABLES
  focus,
  month, world, ledger, spent, plan, events, binding, request,
  held, profile, dated, snapshot, was, run, job, executor, mandate, experiment,
  holdings, policy, runs, today, rows, shown, ask, reader,
  step, score, wish, vetoed, room, single, passing, closed, left, open, weight, given, low, high,
  day, scans, cohorts, card, ready, clock, snapshots, mandates, desk

\* The first purchase takes most of what a plan allots, the second the rest.
Amount == [t \in {First, Second} |-> IF t = First THEN 80 ELSE 20]

Capital == INSTANCE CapitalPlans WITH Purchases <- {First, Second}, OffPlan <- {}

Quant == INSTANCE PortfolioQuant WITH holdings <- held, request <- experiment

Routes == INSTANCE FrozenRoutes WITH
  Requests <- Users, Plans <- Planners, MaxRuns <- RouteRuns, request <- ask, plan <- reader

Sizing == INSTANCE CapitalSizing WITH stage <- step

\* Three strategies on two markets: the second holds what the first and the
\* third hold.
Strategies == 1 .. 3
Markets == {"home", "abroad"}
Symbols == {"a", "b", "c"}
MarketOf == [y \in Symbols |-> IF y = "c" THEN "abroad" ELSE "home"]
Holds == <<[a |-> 60, b |-> 40, c |-> 0], [a |-> 50, b |-> 0, c |-> 50],
           [a |-> 0, b |-> 0, c |-> 100]>>

Rising == [m \in Markets |-> "risk_on"]
Falling == [m \in Markets |-> IF m = "home" THEN "defensive" ELSE "risk_on"]
Cohort(markets, excess) == [excess |-> excess, markets |-> markets, deep |-> FALSE]

\* One has always won, one has begun to lose where the markets rise, and one
\* has lost there for months.
Good ==
  <<Cohort(Rising, 3), Cohort(Rising, 4), Cohort(Falling, 3), Cohort(Rising, 4),
    Cohort(Falling, 3), Cohort(Rising, 4)>>
Faded ==
  <<Cohort(Falling, 6), Cohort(Rising, 5), Cohort(Falling, 6), Cohort(Falling, 5),
    Cohort(Falling, 6), Cohort(Falling, 5), Cohort(Rising, -1), Cohort(Rising, -1)>>
Spoilt ==
  <<Cohort(Rising, 4), Cohort(Rising, 3), Cohort(Rising, 4), Cohort(Rising, 3),
    Cohort(Falling, 4), Cohort(Rising, -1), Cohort(Rising, -1), Cohort(Rising, -1),
    Cohort(Falling, 4)>>
Past == <<Good, Faded, Spoilt>>

Word(status, samples, vol) == [status |-> status, samples |-> samples, vol |-> vol]
Calm == [m \in Markets |-> Word("risk_on", 8, 20)]
Alarm == [m \in Markets |-> IF m = "home" THEN Word("defensive", 8, 40)
                            ELSE Word("insufficient", 0, 0)]

\* Student's t for 95 % shared by 22 strategies, in percent
FamilyCritical == [n \in 2 .. 11 |->
  <<2500, 760, 486, 396, 352, 300, 290, 280, 275, 270>>[n - 1]]

Committee == INSTANCE OpportunityCommittee WITH
  Histories <- {Good, Faded, Spoilt}, Cohorts <- {Cohort(Falling, -1)}, Reports <- {Calm, Alarm},
  FirstScans <- {<<[of |-> 1, day |-> -14, report |-> Calm]>>}

plansVars == <<month, world, ledger, spent, plan, events, binding, request>>
quantVars == <<held, profile, dated, snapshot, was, run, job, executor, mandate, experiment>>
routesVars == <<holdings, policy, runs, today, rows, shown, ask, reader>>
sizingVars == <<step, score, wish, vetoed, room, single, passing, closed, left, open, weight, given,
                low, high>>
worldVars == <<day, scans, cohorts, card, ready>>
committeeVars == <<day, scans, cohorts, card, ready, clock, snapshots, mandates, desk>>

all == <<focus, plansVars, quantVars, routesVars, sizingVars, committeeVars>>

\* A closed gate is tried with one wish only; one asset at most is vetoed, and
\* an asset has either as much room as the portfolio or the least.
SizingInit ==
  /\ Sizing!Init
  /\ closed => passing = {0} /\ \A a \in Assets : wish[a] = Min(Wishes)
  /\ Cardinality(vetoed) <= 1
  /\ \A a \in Assets : single[a] \in {room, Min(Rooms)}

MCInit ==
  /\ focus \in {"plans", "quant", "routes", "sizing", "committee"}
  /\ IF focus = "plans" THEN Capital!Init
     ELSE /\ month = 0 /\ world = 0 /\ ledger = 0 /\ spent = 0 /\ plan = 0 /\ events = 0
          /\ binding = 0 /\ request = 0
  /\ IF focus = "quant" THEN Quant!Init
     ELSE /\ held = 0 /\ profile = 0 /\ dated = 0 /\ snapshot = 0 /\ was = 0 /\ run = 0
          /\ job = 0 /\ executor = 0 /\ mandate = 0 /\ experiment = 0
  /\ IF focus = "routes" THEN Routes!Init
     ELSE /\ holdings = 0 /\ policy = 0 /\ runs = 0 /\ today = 0 /\ rows = 0 /\ shown = 0
          /\ ask = 0 /\ reader = 0
  /\ IF focus = "sizing" THEN SizingInit
     ELSE /\ step = 0 /\ score = 0 /\ wish = 0 /\ vetoed = 0 /\ room = 0 /\ single = 0
          /\ passing = 0 /\ closed = 0 /\ left = 0 /\ open = 0 /\ weight = 0 /\ given = 0
          /\ low = 0 /\ high = 0
  /\ IF focus = "committee" THEN Committee!Init /\ \A s \in Strategies : cohorts[s] = Past[s]
     ELSE /\ day = 0 /\ scans = 0 /\ cohorts = 0 /\ card = 0 /\ ready = 0 /\ clock = 0
          /\ snapshots = 0 /\ mandates = 0 /\ desk = 0

\* An execution reads nothing but its run, so the world stands still meanwhile;
\* one request is being answered and one is waiting for its valuation.
QuantNext ==
  /\ Quant!Next
  /\ Cardinality(was') <= 3
  /\ (\E r \in 1..MaxRuns : executor[r] # {}) => UNCHANGED <<held, profile, dated, snapshot, was>>
  /\ Cardinality({q \in Requests : experiment'[q].at \notin {"none", "valuing"}}) <= 1
  /\ Cardinality({q \in Requests : experiment'[q].at = "valuing"}) <= 1

RoutesNext == Routes!Next /\ Cardinality(shown') <= MaxShown

\* What has happened since the beginning
Changes ==
  Len(scans) + day + Cardinality(Strategies \ ready)
  + Cardinality({s \in Strategies : cohorts[s] # Past[s]})

At(places) == {d \in Desks : desk[d].at \in places}

\* The first strategy gains and loses its basket, and the second is scanned and
\* matures; two things happen, two requests are answered, and one snapshot is
\* frozen.  Between its inputs and its time, and when it inserts, a request
\* reads nothing of the world, so that stands still, and another waits.
CommitteeNext ==
  /\ Committee!Next
  /\ {2, 3} \subseteq ready'
  /\ \A s \in {1, 3} : cohorts'[s] = cohorts[s]
  /\ Len(scans') > Len(scans) => scans'[Len(scans')].of = 2
  /\ Changes' <= 2
  /\ clock' + Cardinality(At({"inputs", "snapshot", "mandate", "compose"})') <= 2
  /\ Cardinality(snapshots') <= 1
  /\ At({"snapshot", "mandate", "insert"}) # {} =>
       /\ UNCHANGED worldVars
       /\ \A d \in At({"inputs", "snapshot"})' : desk'[d] = desk[d]

MCNext ==
  /\ UNCHANGED focus
  /\ \/ focus = "plans" /\ Capital!Next
        /\ UNCHANGED <<quantVars, routesVars, sizingVars, committeeVars>>
     \/ focus = "quant" /\ QuantNext
        /\ UNCHANGED <<plansVars, routesVars, sizingVars, committeeVars>>
     \/ focus = "routes" /\ RoutesNext
        /\ UNCHANGED <<plansVars, quantVars, sizingVars, committeeVars>>
     \/ focus = "sizing" /\ Sizing!Next
        /\ UNCHANGED <<plansVars, quantVars, routesVars, committeeVars>>
     \/ focus = "committee" /\ CommitteeNext
        /\ UNCHANGED <<plansVars, quantVars, routesVars, sizingVars>>

MCSpec == MCInit /\ [][MCNext]_all

Symmetry ==
  Permutations(Requests) \cup Permutations(Portfolios) \cup Permutations(Assets)
  \cup Permutations(Desks)

-----------------------------------------------------------------------------
\* Every variable of every component keeps its type.
TypesOK ==
  /\ focus = "plans" => Capital!TypeOK
  /\ focus = "quant" => Quant!TypeOK
  /\ focus = "routes" => Routes!TypeOK
  /\ focus = "sizing" => Sizing!TypeOK
  /\ focus = "committee" => Committee!TypeOK

\* A purchase serves one plan, a review is of what stands, and what was spent
\* of a budget stays spent (CapitalPlans).
PurchasesAreCountedOnce ==
  [][focus = "plans" =>
       Capital!StaysTaken /\ Capital!ServesOnePlan' /\ Capital!ReviewIsOfWhatStands']_all

\* A mandate is of holdings, valuation and policy of one moment
\* (PortfolioQuant), a plan follows a route of what it was computed from
\* (FrozenRoutes), and a committee's mandate that is shown as current gives
\* what it would give now, and has drifted from an older one
\* (OpportunityCommittee).
ReadsAgree ==
  /\ focus = "quant" => Quant!MandateWasTrue
  /\ focus = "routes" => Routes!PlanFollowsItsOwnRoute
  /\ focus = "committee" =>
       Committee!CurrentMandateIsOfNow /\ Committee!DriftIsFromAnOlderMandate

\* A job that succeeded has its run (PortfolioQuant).
JobSuccessIsBacked == focus = "quant" => Quant!JobSuccessIsBacked

\* A route shares out fairly, and a plan keeps its limits (CapitalSizing); so
\* does a committee's mandate (OpportunityCommittee).
AmountsAreRight ==
  /\ focus = "sizing" => Sizing!RouteIsFair /\ Sizing!PlanKeepsItsLimits
  /\ focus = "committee" => Committee!MandatesKeepTheirLimits

\* A route that was just frozen is the latest (FrozenRoutes).
FreezeTakesEffect == [][focus = "routes" => Routes!TakesEffect]_all
=============================================================================
