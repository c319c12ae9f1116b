----------------------------- MODULE FrozenRoutes -----------------------------
(***************************************************************************)
(* The research routes of alpha capital of one user                        *)
(* (alpha_capital_router.py, alpha_capital_repository.py) and the capital  *)
(* plan that reads them (portfolio_capital_decision.py).  A route is       *)
(* composed anew on every read from what the programs, the policy and the  *)
(* holdings are; the user freezes the one he was shown, and the store      *)
(* keeps one row per evidence, for ever.  Only the latest row counts, and  *)
(* only while it is of the evidence of the moment.                         *)
(***************************************************************************)
EXTENDS Naturals, Sequences, SequencesExt

CONSTANTS
  Requests,      \* requests to show a route or to freeze it
  Plans,         \* capital plans being assembled
  Holdings,      \* what the user may hold
  MaxVersions,   \* the user activates so many policies
  MaxRuns,       \* the programs complete so many runs
  MaxDay,        \* days that pass
  StaleAfter     \* a program's run counts for so many days

VARIABLES
  holdings,  \* what the user holds
  policy,    \* the version of the active policy; 0: there is none
  runs,      \* the day of each completed run of the programs
  today,
  rows,      \* frozen routes, by age: the evidence of each
  shown,     \* evidence that some answer showed the user
  request,   \* how far each request is, and what it has read
  plan       \* the same for each plan

vars == <<holdings, policy, runs, today, rows, shown, request, plan>>

Evidence == [policy : 0 .. MaxVersions, holdings : Holdings, run : 0 .. MaxRuns, age : 0 .. MaxDay]

Nothing == [policy |-> MaxVersions + 1]

Idle == [at |-> "idle"]

TypeOK ==
  /\ holdings \in Holdings
  /\ policy \in 0 .. MaxVersions
  /\ runs \in BoundedSeq(0 .. MaxDay, MaxRuns)
  /\ today \in 0 .. MaxDay
  /\ \A i \in DOMAIN rows : rows[i] \in Evidence
  /\ shown \subseteq Evidence
  /\ \A r \in Requests : request[r].at \in {"idle", "policy", "holdings", "compose"}
  /\ \A p \in Plans :
       plan[p].at \in {"idle", "policy", "programs", "latest", "compose", "done"}

Init ==
  /\ holdings \in Holdings
  /\ policy = 0
  /\ runs = <<>>
  /\ today = 0
  /\ rows = <<>>
  /\ shown = {}
  /\ request = [r \in Requests |-> Idle]
  /\ plan = [p \in Plans |-> Idle]

-----------------------------------------------------------------------------
(* The world.                                                              *)

Hold(h) ==
  /\ h # holdings
  /\ holdings' = h
  /\ UNCHANGED <<policy, runs, today, rows, shown, request, plan>>

Activate ==
  /\ policy < MaxVersions
  /\ policy' = policy + 1
  /\ UNCHANGED <<holdings, runs, today, rows, shown, request, plan>>

CompleteRun ==
  /\ Len(runs) < MaxRuns
  /\ runs' = Append(runs, today)
  /\ UNCHANGED <<holdings, policy, today, rows, shown, request, plan>>

NextDay ==
  /\ today < MaxDay
  /\ today' = today + 1
  /\ UNCHANGED <<holdings, policy, runs, rows, shown, request, plan>>

-----------------------------------------------------------------------------
(* What is composed of what was read.  The age of the programs' run is part *)
(* of the evidence.                                                        *)

Composed(read) ==
  [policy |-> read.policy, holdings |-> read.holdings, run |-> read.run,
   age |-> IF read.run = 0 THEN 0 ELSE today - runs[read.run]]

Status(e) ==
  IF e.policy = 0 THEN "blocked"
  ELSE IF e.run = 0 \/ e.age > StaleAfter THEN "collecting"
  ELSE "ready"

Latest == Len(rows)

\* A row is current while it is of the evidence of the moment.
IsCurrent(i, e) == i # 0 /\ rows[i] = e

-----------------------------------------------------------------------------
(* Requests: the programs are read, then the policy, then the holdings.    *)

Ask(r) ==
  /\ request[r] = Idle
  /\ \E expected \in shown \cup {Nothing} :
       request' = [request EXCEPT ![r] = [at |-> "policy", expected |-> expected, run |-> Len(runs)]]
  /\ UNCHANGED <<holdings, policy, runs, today, rows, shown, plan>>

ReadPolicy(r) ==
  /\ request[r].at = "policy"
  /\ request' = [request EXCEPT ![r] =
       [at |-> "holdings", expected |-> @.expected, run |-> @.run, policy |-> policy]]
  /\ UNCHANGED <<holdings, policy, runs, today, rows, shown, plan>>

ReadHoldings(r) ==
  /\ request[r].at = "holdings"
  /\ request' = [request EXCEPT ![r] =
       [at |-> "compose", expected |-> @.expected, run |-> @.run, policy |-> @.policy,
        holdings |-> holdings]]
  /\ UNCHANGED <<holdings, policy, runs, today, rows, shown, plan>>

Show(r) ==
  /\ request[r].at = "compose" /\ request[r].expected = Nothing
  /\ shown' = shown \cup {Composed(request[r])}
  /\ request' = [request EXCEPT ![r] = Idle]
  /\ UNCHANGED <<holdings, policy, runs, today, rows, plan>>

\* The insertion does nothing when the evidence already has a row.
Saved(e) == IF \E i \in DOMAIN rows : rows[i] = e THEN rows ELSE Append(rows, e)

Agrees(e, expected) == e = expected /\ Status(e) = "ready"

Freeze(r) ==
  /\ request[r].at = "compose" /\ request[r].expected # Nothing
  /\ Agrees(Composed(request[r]), request[r].expected)
  /\ rows' = Saved(Composed(request[r]))
  /\ request' = [request EXCEPT ![r] = Idle]
  /\ UNCHANGED <<holdings, policy, runs, today, shown, plan>>

Refuse(r) ==
  /\ request[r].at = "compose" /\ request[r].expected # Nothing
  /\ ~Agrees(Composed(request[r]), request[r].expected)
  /\ request' = [request EXCEPT ![r] = Idle]
  /\ UNCHANGED <<holdings, policy, runs, today, rows, shown, plan>>

-----------------------------------------------------------------------------
(* A plan reads the holdings, then the policy; when it comes to the route, *)
(* the programs and then the latest row.                                   *)

PlanHoldings(p) ==
  /\ plan[p] = Idle
  /\ plan' = [plan EXCEPT ![p] = [at |-> "policy", holdings |-> holdings]]
  /\ UNCHANGED <<holdings, policy, runs, today, rows, shown, request>>

PlanPolicy(p) ==
  /\ plan[p].at = "policy"
  /\ plan' = [plan EXCEPT ![p] =
       [at |-> "programs", holdings |-> @.holdings, policy |-> policy]]
  /\ UNCHANGED <<holdings, policy, runs, today, rows, shown, request>>

\* Mutant: the router reads the holdings and the policy anew.
GivenAnew(read) == [holdings |-> holdings, policy |-> policy]

\* What the plan hands to the router, and what the router goes on with.
Given(read) == [holdings |-> read.holdings, policy |-> read.policy]

PlanPrograms(p) ==
  /\ plan[p].at = "programs"
  /\ plan' = [plan EXCEPT ![p] =
       [at |-> "latest", holdings |-> @.holdings, policy |-> @.policy,
        given |-> Given(@), run |-> Len(runs)]]
  /\ UNCHANGED <<holdings, policy, runs, today, rows, shown, request>>

PlanLatest(p) ==
  /\ plan[p].at = "latest"
  /\ plan' = [plan EXCEPT ![p] =
       [at |-> "compose", holdings |-> @.holdings, policy |-> @.policy, given |-> @.given,
        run |-> @.run, latest |-> Latest]]
  /\ UNCHANGED <<holdings, policy, runs, today, rows, shown, request>>

RouteOf(read) ==
  LET e == Composed([policy |-> read.given.policy, holdings |-> read.given.holdings,
                     run |-> read.run])
  IN IF IsCurrent(read.latest, e) THEN read.latest ELSE 0

PlanRoute(p) ==
  /\ plan[p].at = "compose"
  /\ plan' = [plan EXCEPT ![p] =
       [at |-> "done", holdings |-> @.holdings, policy |-> @.policy, route |-> RouteOf(@)]]
  /\ UNCHANGED <<holdings, policy, runs, today, rows, shown, request>>

PlanAgain(p) ==
  /\ plan[p].at = "done"
  /\ plan' = [plan EXCEPT ![p] = Idle]
  /\ UNCHANGED <<holdings, policy, runs, today, rows, shown, request>>

-----------------------------------------------------------------------------
Next ==
  \/ \E h \in Holdings : Hold(h)
  \/ Activate \/ CompleteRun \/ NextDay
  \/ \E r \in Requests :
       Ask(r) \/ ReadPolicy(r) \/ ReadHoldings(r) \/ Show(r) \/ Freeze(r) \/ Refuse(r)
  \/ \E p \in Plans :
       PlanHoldings(p) \/ PlanPolicy(p) \/ PlanPrograms(p) \/ PlanLatest(p) \/ PlanRoute(p)
       \/ PlanAgain(p)

Spec == Init /\ [][Next]_vars

-----------------------------------------------------------------------------
(* Properties.                                                             *)

\* A plan whose money follows a frozen route follows one that was composed of
\* the very holdings and policy the rest of the plan is computed from, although
\* it reads the route long after both and the user may freeze another in
\* between; and the user was shown every route that is frozen.
PlanFollowsItsOwnRoute ==
  /\ \A p \in Plans : plan[p].at = "done" /\ plan[p].route # 0 =>
       /\ rows[plan[p].route].holdings = plan[p].holdings
       /\ rows[plan[p].route].policy = plan[p].policy
  /\ ToSet(rows) \subseteq shown

\* docs/updates/2026-07-27-001-multi-horizon-alpha-capital-router.md: the
\* capital engine reads the frozen route that agrees with the current policy,
\* holdings and evidence.  So the route a user has just frozen is the latest.
TakesEffect == \A r \in Requests : Freeze(r) => rows'[Len(rows')] = Composed(request[r])

FreezeTakesEffect == [][TakesEffect]_vars
=============================================================================
