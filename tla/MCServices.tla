------------------------------ MODULE MCServices ------------------------------
(***************************************************************************)
(* What the application keeps doing for its users, for TLC: the lists of   *)
(* HotStocks, the paper baskets of PaperBaskets, the lessons of            *)
(* CapitalOutcomes and the reviews of SwitchReviews.  They share no state: *)
(* a behaviour is one of a single component, the one in focus, and the     *)
(* variables of the others are 0.                                          *)
(***************************************************************************)
EXTENDS Integers, Sequences, FiniteSets, TLC

CONSTANTS
  Threads, Keys, Vendor, Public, Unconfigured, Threshold, CircuitTicks, PageTTL, BundleTTL,
  CallTicks,
  MaxRuns, MaxVersions, MaxDay, Horizon, Spacing, SweepWindow, BasketWindow, ObservationWindow,
  Plans, Horizons, Limit, ScopeWindow, OutcomeWindow, MaxEvents, MaxRefreshes, MaxFaults, MaxScopes,
  Purchases, Openings, Requests, Prices, Fees, Amounts, Caps, EntryRates, DayLength, Validity,
  NavDays, Tolerance, MaxHour, MaxReviews, MaxQuotes, MaxVerdicts, MaxChanges

\* What the theorems about this module rest on.
ASSUME ServiceAssumption ==
  /\ {PageTTL, BundleTTL, Threshold, MaxVersions} \subseteq Nat \ {0}
  /\ {CircuitTicks, CallTicks, MaxRuns, MaxDay, Horizon, OutcomeWindow, MaxEvents, MaxRefreshes,
      MaxFaults} \subseteq Nat
  /\ Keys # {} /\ IsFiniteSet(Horizons) /\ Horizons \subseteq Nat /\ Horizons # {}
  /\ {DayLength, MaxChanges} \subseteq Nat \ {0} /\ {Tolerance, Validity, MaxHour} \subseteq Nat
  /\ Prices \cup Fees \cup Amounts \cup Caps \subseteq Nat /\ IsFiniteSet(Purchases \cup Openings)

VARIABLES
  focus,
  up, failures, open, bundle, page, thread,
  day, strategy, run, basket, observed, today, keyed, jobs, viewer,
  events, learnt, newer, asked, recorded, pending, refreshes, faults,
  hour, ledger, holding, policy, thesis, review, quote, verdict, case, order, gain, request

Stocks == INSTANCE HotStocks WITH Professional <- <<Vendor>>

Baskets == INSTANCE PaperBaskets WITH open <- jobs

Lessons == INSTANCE CapitalOutcomes WITH keyed <- asked, observed <- recorded

\* In the first schedule the fee is higher on the first day, the second has none
\* for it.
Switch == INSTANCE SwitchReviews WITH Schedules <-
  {{[from |-> 0, to |-> 1, rate |-> 50], [from |-> 1, to |-> 99, rate |-> 0]},
   {[from |-> 1, to |-> 99, rate |-> 0]}}

stocksVars == <<up, failures, open, bundle, page, thread>>
basketsVars == <<day, strategy, run, basket, observed, today, keyed, jobs, viewer>>
lessonsVars == <<events, learnt, newer, asked, recorded, pending, refreshes, faults>>
switchVars ==
  <<hour, ledger, holding, policy, thesis, review, quote, verdict, case, order, gain, request>>

all == <<focus, stocksVars, basketsVars, lessonsVars, switchVars>>

MCInit ==
  /\ focus \in {"stocks", "baskets", "lessons", "switch"}
  /\ IF focus = "stocks" THEN Stocks!Init
     ELSE up = 0 /\ failures = 0 /\ open = 0 /\ bundle = 0 /\ page = 0 /\ thread = 0
  /\ IF focus = "baskets" THEN Baskets!Init
     ELSE /\ day = 0 /\ strategy = 0 /\ run = 0 /\ basket = 0 /\ observed = 0 /\ today = 0
          /\ keyed = 0 /\ jobs = 0 /\ viewer = 0
  /\ IF focus = "lessons" THEN Lessons!Init
     ELSE /\ events = 0 /\ learnt = 0 /\ newer = 0 /\ asked = 0 /\ recorded = 0
          /\ pending = 0 /\ refreshes = 0 /\ faults = 0
  /\ IF focus = "switch" THEN Switch!Init
     ELSE /\ hour = 0 /\ ledger = 0 /\ holding = 0 /\ policy = 0 /\ thesis = 0 /\ review = 0
          /\ quote = 0 /\ verdict = 0 /\ case = 0 /\ order = 0 /\ gain = 0 /\ request = 0

OfStocks(A) == focus = "stocks" /\ A /\ UNCHANGED <<focus, basketsVars, lessonsVars, switchVars>>

\* A scan that has begun ends before anything else happens, scans come while
\* nothing is being observed, a version when every basket is complete; the user
\* looks while there is a single basket, and asks for jobs of the other on the
\* last day.
OfBaskets(A) ==
  /\ focus = "baskets" /\ A /\ UNCHANGED <<focus, stocksVars, lessonsVars, switchVars>>
  /\ (\E r \in 1..MaxRuns : run[r].status \in {"queued", "running"}) => run' # run /\ basket' = basket
  /\ (\E r \in 1..MaxRuns : run'[r].status = "queued") =>
       run' = run \/ (jobs = {} /\ viewer.basket = 0)
  /\ (\E r \in 1..MaxRuns : run'[r] # run[r] /\ run'[r].status = "failed") => basket = <<>>
  /\ strategy.active # strategy'.active => basket = <<>>
  /\ strategy'.version # strategy.version =>
       /\ basket # <<>> /\ jobs = {} /\ viewer.basket = 0
       /\ \A b \in DOMAIN basket : Baskets!Complete(b)
  /\ \/ keyed' # keyed \/ jobs' \subseteq jobs
     \/ 2 \in jobs' /\ today = {} /\ day = MaxDay
  /\ viewer' # viewer /\ viewer'.basket # 0 =>
       viewer'.elapsed <= Horizon /\ Len(basket) = 1 /\ viewer'.covered # "none"
  /\ basket' # basket => viewer.basket = 0
  /\ \A b \in DOMAIN observed : observed'[b] # observed[b] =>
       LET o == observed'[b][Len(observed'[b])] IN
       \/ o.covered = "complete"
       \/ /\ o.elapsed <= Horizon /\ ~Baskets!Mature(b)
          /\ b = 2 => o.covered # "policy"

OfLessons(A) ==
  /\ focus = "lessons" /\ A /\ UNCHANGED <<focus, stocksVars, basketsVars, switchVars>>
  /\ Len(events') <= MaxScopes

\* First a lot, its share, the policy and the thesis are entered, in this order;
\* then the user changes something, or a second quote comes, while a request is
\* served or an offer stands, and he updates his holdings after the case.
SettledIn == holding.rev > 1 /\ policy.version > 0 /\ thesis > 0

InService == \E q \in Requests : request[q].op # "none"

FirstRequest == CHOOSE q \in Requests : TRUE

Unchanged ==
  /\ holding.rev = 2 /\ policy.version = 1 /\ policy.configured /\ thesis = 1
  /\ Cardinality({l \in DOMAIN ledger.day : ledger.day[l] # Switch!New}) = 1

SettingIn ==
  /\ request' = request /\ hour' = hour /\ ledger'.sale = ledger.sale
  /\ ledger' # ledger => holding.rev = 1 /\ Switch!Left = {}
  /\ holding' # holding => Switch!Left # {} /\ holding' = Switch!Position(2, holding'.shares, 6, 0)
  /\ policy' # policy => holding.rev = 2 /\ policy.version = 0
  /\ thesis' # thesis => policy.version = 1

UserChanges ==
  \/ /\ quote # <<>> /\ (InService \/ order.ready)
     /\ Unchanged \/ \E l \in DOMAIN ledger.day : ledger'.day[l] # ledger.day[l]
     /\ Cardinality({l \in DOMAIN ledger.day : ledger.day[l] = Switch!Gone}) = 0
     /\ holding' # holding => holding' = Switch!Position(3, 1, 3, 0)
  \/ case.stage = "bought" /\ holding'.shares = 0 /\ holding'.candidate = 3 /\ holding' # holding

RequestComes(q) ==
  /\ SettledIn
  /\ \/ q = FirstRequest
     \/ request'[q].op = "quote" /\ request[FirstRequest].op \in {"quoted", "thesis", "verdict"}
  /\ CASE request'[q].op = "cost" -> Len(review) < MaxReviews /\ q = FirstRequest
       [] request'[q].op = "quote" -> Len(quote) < MaxQuotes
       [] request'[q].op = "review" -> Len(verdict) < MaxVerdicts /\ quote # <<>>
       [] OTHER -> ~order.ready

OfSwitch(A) ==
  /\ focus = "switch" /\ A /\ UNCHANGED <<focus, stocksVars, basketsVars, lessonsVars>>
  /\ ~SettledIn => SettingIn
  /\ SettledIn /\ <<ledger.day, holding, policy, thesis>>' # <<ledger.day, holding, policy, thesis>> =>
       UserChanges
  /\ ledger'.sale # ledger.sale =>
       /\ ~InService /\ Unchanged /\ Len(quote) = 1
       /\ \E v \in DOMAIN verdict : verdict[v].status = "ready_for_redemption_review"
  /\ hour' # hour =>
       /\ Unchanged /\ Len(quote) = 1 /\ request[FirstRequest].op \notin {"quoted", "thesis"}
       /\ InService \/ order.ready \/ verdict # <<>>
  /\ \A i \in DOMAIN review' : review'[i].nav = review'[i].day /\ review'[i].gross = 3
  /\ \A i \in DOMAIN quote' \ DOMAIN quote :
       /\ quote'[i].gross = 3 /\ quote'[i].fee = quote'[i].entry /\ quote'[i].at = hour
       /\ IF i = 1 THEN quote'[i].available ELSE quote'[i].fee = 1
  /\ \A q \in Requests :
       /\ request'[q] # request[q] /\ request[q].op = "none" => RequestComes(q)
       /\ request'[q] # request[q] /\ request'[q].op = "none" /\ request[q].op # "review" =>
            <<review, quote, verdict, order>>' # <<review, quote, verdict, order>>
       /\ case'.stage # "none" => request'[q].op \in {"none", "offer", "order"}
  /\ \A v \in DOMAIN verdict' :
       verdict'[v].status \notin {"blocked_by_market", "blocked_by_exposure_evidence"}
  /\ order' # order => order'.ready /\ order'.at = hour /\ order'.amount = 3
  /\ case'.stage # case.stage /\ case'.stage = "bought" =>
       case'.buy.price = 2 /\ case'.buy.fee = order.entry

MCNext ==
  OfStocks(Stocks!Next) \/ OfBaskets(Baskets!Next) \/ OfLessons(Lessons!Next)
    \/ OfSwitch(Switch!Next)

\* Time passes, and a request that was begun is served.
StocksFairness ==
  /\ WF_all(OfStocks(Stocks!Tick))
  /\ \A t \in Threads : WF_all(OfStocks(Stocks!Try(t) \/ Stocks!Return(t)))

\* Days pass, the beat runs, a scan ends, and of the observations of a basket
\* again and again one is complete.
BasketsFairness ==
  /\ WF_all(OfBaskets(Baskets!NextDay))
  /\ \A b \in 1..MaxRuns :
       /\ WF_all(OfBaskets(b \in DOMAIN basket /\ Baskets!Dispatch(b)))
       /\ SF_all(OfBaskets(b \in DOMAIN basket /\ Baskets!Observe(b, "complete")))
       /\ WF_all(OfBaskets(\E s \in {"running"} \cup Baskets!Terminal : Baskets!Move(b, s)))

\* Days pass, the scheduler runs, and its jobs are executed.
LessonsFairness ==
  /\ WF_all(OfLessons(Lessons!Dispatch)) /\ WF_all(OfLessons(Lessons!NextDay))
  /\ WF_all(OfLessons(\E e \in DOMAIN events : Lessons!Work(e)))

MCSpec == MCInit /\ [][MCNext]_all /\ StocksFairness /\ BasketsFairness /\ LessonsFairness

-----------------------------------------------------------------------------
\* Every variable of every component keeps its type.
TypesOK ==
  /\ focus = "stocks" => Stocks!TypeOK
  /\ focus = "baskets" => Baskets!TypeOK
  /\ focus = "lessons" => Lessons!TypeOK
  /\ focus = "switch" => Switch!TypeOK

\* What is shown is of now: the two caches do not add up (HotStocks), what
\* counts for a plan was learnt of the execution it has (CapitalOutcomes), and
\* a switch or an offer that is shown as ready fits what the user holds and his
\* policy, and the money of it adds up (SwitchReviews).
ShownIsCurrent ==
  /\ focus = "stocks" => Stocks!AnswersAreRecent
  /\ focus = "lessons" => Lessons!LearntOfThisExecution
  /\ focus = "switch" => Switch!ReviewsAreOfNow /\ Switch!OrdersAreOfNow /\ Switch!MoneyAddsUp

\* What was counted of the baskets stays counted (PaperBaskets).
CountedStands == [][focus = "baskets" => Baskets!Stands]_all

\* Everyone is served in the end: a provider that answers for good is used
\* again (HotStocks); and again and again every basket there is is mature
\* (PaperBaskets), and every plan is observed to its last horizon
\* (CapitalOutcomes).
EveryoneIsServed ==
  /\ <>[](focus = "stocks" /\ up[Vendor]) => <>[][focus = "stocks" => Stocks!ServedWell]_all
  /\ []<>(/\ focus = "baskets" => Baskets!AllMature
          /\ focus = "lessons" => Lessons!AllObserved)
=============================================================================
