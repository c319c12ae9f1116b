---------------------------- MODULE PaperBaskets ----------------------------
(***************************************************************************)
(* Paper portfolios of one opportunity strategy (opportunity_repository.py, *)
(* opportunity_service.py, opportunity_profit_service.py in src/backend):  *)
(* a scan of a strategy's version is executed and its proposal is frozen   *)
(* as a basket, or a quantitative mandate is enrolled as one               *)
(* (quant_selection_forward_service.py and _repository.py); a beat creates *)
(* one job a day that observes the basket until its longest horizon is     *)
(* complete, and the scorecard of the current version counts baskets that  *)
(* do not overlap.                                                         *)
(*                                                                         *)
(* One horizon stands for the three.  Prices are abstracted to how much of *)
(* a basket has reached the horizon: nothing, enough for the policy, or    *)
(* enough to be complete.                                                  *)
(***************************************************************************)
EXTENDS Integers, Sequences, FiniteSets, SequencesExt

CONSTANTS
  MaxRuns, MaxVersions, MaxDay, \* bounds
  Horizon,           \* days after which a basket is mature
  Spacing,           \* days between the baskets that count
  SweepWindow,       \* limit of list_paper_basket_scopes
  BasketWindow,      \* limit of list_paper_baskets
  ObservationWindow  \* limit of _basket_from_row

Runs == 1..MaxRuns
Coverage == {"none", "policy", "complete"}
Terminal == {"succeeded", "failed"}

VARIABLES
  day,
  strategy, \* its current version, and whether it is active
  run,      \* opportunity_runs
  basket,   \* opportunity_paper_baskets in the order of their creation
  observed, \* opportunity_paper_observations of each basket
  today,    \* baskets whose latest observation is of the last 18 hours
  keyed,    \* baskets with a job of today's key
  open,     \* baskets with a job that is to be executed
  viewer    \* what a manual observation has found

vars == <<day, strategy, run, basket, observed, today, keyed, open, viewer>>
scans == <<strategy, run>>
sweep == <<keyed, open>>

Nothing == [basket |-> 0, elapsed |-> 0, covered |-> "none"]

Init ==
  /\ day = 0 /\ strategy = [version |-> 1, active |-> TRUE]
  /\ run = [r \in Runs |-> [status |-> "none", version |-> 0]]
  /\ basket = <<>> /\ observed = <<>>
  /\ today = {} /\ keyed = {} /\ open = {} /\ viewer = Nothing

-----------------------------------------------------------------------------
(* Strategies and their scans.                                             *)

AddVersion ==
  /\ strategy.active /\ strategy.version < MaxVersions
  /\ strategy' = [strategy EXCEPT !.version = @ + 1]
  /\ UNCHANGED <<day, run, basket, observed, today, sweep, viewer>>

Archive ==
  /\ strategy.active /\ strategy' = [strategy EXCEPT !.active = FALSE]
  /\ UNCHANGED <<day, run, basket, observed, today, sweep, viewer>>

NextRun == Cardinality({i \in Runs : run[i].status # "none"}) + 1

\* create_run; the scan's job is the durable one of PortfolioQuant.
Scan(r) ==
  /\ strategy.active /\ r = NextRun
  /\ run' = [run EXCEPT ![r] = [status |-> "queued", version |-> strategy.version]]
  /\ UNCHANGED <<day, strategy, basket, observed, today, sweep, viewer>>

\* mark_running, complete_run and fail_run, of any execution
Move(r, status) ==
  /\ run[r].status \notin Terminal \cup {"none"} /\ run[r].status # status
  /\ status = "succeeded" => run[r].status = "running"
  /\ run' = [run EXCEPT ![r].status = status]
  /\ UNCHANGED <<day, strategy, basket, observed, today, sweep, viewer>>

\* Mutant: whether the scan has a basket is not looked up.
FreezeAgain(r) ==
  /\ run[r].status = "succeeded" /\ day + Horizon <= MaxDay
  /\ basket' = Append(basket, [run |-> r, version |-> run[r].version, frozen |-> day])
  /\ observed' = Append(observed, <<>>)
  /\ UNCHANGED <<day, scans, today, sweep, viewer>>

\* create_paper_basket: one for a scan
Freeze(r) ==
  /\ run[r].status = "succeeded" /\ \A b \in DOMAIN basket : basket[b].run # r
  /\ day + Horizon <= MaxDay
  /\ basket' = Append(basket, [run |-> r, version |-> run[r].version, frozen |-> day])
  /\ observed' = Append(observed, <<>>)
  /\ UNCHANGED <<day, scans, today, sweep, viewer>>

\* enroll_validation: a mandate of the strategy's family is a scan that has
\* succeeded and its basket, in one transaction.
Enroll(r) ==
  /\ strategy = [version |-> 1, active |-> TRUE] /\ r = NextRun /\ day + Horizon <= MaxDay
  /\ run' = [run EXCEPT ![r] = [status |-> "succeeded", version |-> 1]]
  /\ basket' = Append(basket, [run |-> r, version |-> 1, frozen |-> day])
  /\ observed' = Append(observed, <<>>)
  /\ UNCHANGED <<day, strategy, today, sweep, viewer>>

-----------------------------------------------------------------------------
(* observe_paper_basket.                                                   *)

Elapsed(b) == day - basket[b].frozen

\* What can be found of a basket: nothing is covered before the horizon.
Findings(b) ==
  {[basket |-> b, elapsed |-> Elapsed(b), covered |-> c] :
     c \in IF Elapsed(b) < Horizon THEN {"none"} ELSE Coverage}

\* append_paper_observation: the same prices are kept once.
Save(o) ==
  LET kept == observed[o.basket] IN
  IF o \in ToSet(kept) THEN UNCHANGED <<observed, today>>
  ELSE /\ observed' = [observed EXCEPT ![o.basket] = Append(kept, o)]
       /\ today' = IF o.elapsed = Elapsed(o.basket) THEN today \cup {o.basket}
                   ELSE today \ {o.basket}

\* The user's own observation, and another day may begin until it is saved.
View(b) ==
  /\ viewer = Nothing /\ viewer' \in Findings(b)
  /\ UNCHANGED <<day, scans, basket, observed, today, sweep>>

SaveView ==
  /\ viewer # Nothing /\ Save(viewer) /\ viewer' = Nothing
  /\ UNCHANGED <<day, scans, basket, sweep>>

\* execute_market_data_job of an observation
Observe(b, covered) ==
  /\ b \in open /\ open' = open \ {b}
  /\ \E o \in Findings(b) : o.covered = covered /\ Save(o)
  /\ UNCHANGED <<day, scans, basket, keyed, viewer>>

\* request_observation: a job of another key, for an enrolled basket
Request(b) ==
  /\ b \notin open /\ open' = open \cup {b}
  /\ UNCHANGED <<day, scans, basket, observed, today, keyed, viewer>>

\* The job has failed for good.
FailJob(b) ==
  /\ b \in open /\ open' = open \ {b}
  /\ UNCHANGED <<day, scans, basket, observed, today, keyed, viewer>>

-----------------------------------------------------------------------------
(* dispatch_due_observations.                                              *)

Complete(b) == observed[b] # <<>> /\ Last(observed[b]).covered = "complete"

\* The sweep reads the oldest baskets.
Due(b) == b <= SweepWindow /\ ~Complete(b) /\ b \notin today

Dispatch(b) ==
  /\ Due(b) /\ b \notin keyed
  /\ keyed' = keyed \cup {b} /\ open' = open \cup {b}
  /\ UNCHANGED <<day, scans, basket, observed, today, viewer>>

\* Mutant: the job's key does not name the day.
NextDayKeepsKeys ==
  /\ day' = IF day < MaxDay THEN day + 1 ELSE day
  /\ today' = {}
  /\ UNCHANGED <<scans, basket, observed, keyed, open, viewer>>

\* Beyond the bound there are days, but nothing is frozen and nothing ages.
NextDay ==
  /\ day' = IF day < MaxDay THEN day + 1 ELSE day
  /\ today' = {} /\ keyed' = {}
  /\ UNCHANGED <<scans, basket, observed, open, viewer>>

-----------------------------------------------------------------------------
(* build_scorecard, which changes nothing.                                 *)

\* _cohort_at_horizon: the first of the observations that were read that
\* covers enough
Read(b) == SubSeq(observed[b], Len(observed[b]) - ObservationWindow + 1, Len(observed[b]))

Figure(b) ==
  LET enough == SelectSeq(IF Len(observed[b]) <= ObservationWindow THEN observed[b] ELSE Read(b),
                          LAMBDA o : o.covered # "none")
  IN IF enough = <<>> THEN Nothing ELSE enough[1]

Mature(b) == Figure(b) # Nothing

\* The newest baskets, of the current version
Listed ==
  SelectSeq([i \in 1..Len(basket) |-> i],
            LAMBDA b : b > Len(basket) - BasketWindow /\ basket[b].version = strategy.version)

Spaced(list) ==
  FoldLeft(LAMBDA accepted, b :
             IF accepted = <<>> \/ basket[b].frozen - basket[Last(accepted)].frozen >= Spacing
             THEN Append(accepted, b) ELSE accepted,
           <<>>, list)

\* Mutant: baskets that are not mature do not keep others out.
IndependentOfMature == ToSet(Spaced(SelectSeq(Listed, Mature)))

\* _independent_cohorts: in the order of their freezing, mature or not
Independent == ToSet(Spaced(Listed))

\* What the gate counts, and by which observation
Counted == {Figure(b) : b \in {i \in Independent : Mature(i)}}

-----------------------------------------------------------------------------
Next ==
  \/ AddVersion \/ Archive \/ SaveView \/ NextDay
  \/ \E r \in Runs : \/ Scan(r) \/ Freeze(r) \/ Enroll(r)
                     \/ \E status \in {"running"} \cup Terminal : Move(r, status)
  \/ \E b \in DOMAIN basket :
       View(b) \/ Request(b) \/ FailJob(b) \/ Dispatch(b) \/ \E c \in Coverage : Observe(b, c)

\* Days pass, the beat runs, and of the observations again and again one is
\* complete.
Fairness ==
  /\ WF_vars(NextDay)
  /\ \A b \in Runs : /\ WF_vars(b \in DOMAIN basket /\ Dispatch(b))
                     /\ SF_vars(b \in DOMAIN basket /\ Observe(b, "complete"))

Spec == Init /\ [][Next]_vars /\ Fairness

-----------------------------------------------------------------------------
(* Properties.                                                             *)

\* Everything has its type, and no two baskets are of one scan.
TypeOK ==
  /\ day \in 0..MaxDay
  /\ strategy \in [version : 1..MaxVersions, active : BOOLEAN]
  /\ run \in [Runs -> [status : {"none", "queued", "running"} \cup Terminal,
                       version : 0..MaxVersions]]
  /\ Len(observed) = Len(basket)
  /\ \A b, c \in DOMAIN basket : basket[b].run = basket[c].run => b = c
  /\ \A b \in DOMAIN basket : basket[b].frozen \in 0..(MaxDay - Horizon)
  /\ today \cup keyed \cup open \subseteq DOMAIN basket
  /\ viewer \in [basket : 0..Len(basket), elapsed : 0..MaxDay, covered : Coverage]

\* README.md: every frozen basket is observed by the scheduler until it has a
\* figure, although its jobs may fail and each day has one.
AllMature == \A b \in DOMAIN basket : Mature(b)

EveryBasketMatures == []<>AllMature

\* README.md: what the gate counts is settled by the times of freezing and by
\* the first observation.  What was counted for a version stays counted, with
\* the same figure, whichever basket matures later and whatever is observed.
Stands == strategy'.version = strategy.version => Counted \subseteq Counted'

CountedStands == [][Stands]_vars
=============================================================================
