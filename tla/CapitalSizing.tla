---------------------------- MODULE CapitalSizing ----------------------------
(***************************************************************************)
(* How much money a capital plan gives to each candidate.  The routes of   *)
(* alpha capital share out a budget in proportion to the candidates'       *)
(* scores, with a cap on each (alpha_capital_router.py,                    *)
(* _allocate_with_cap).  The plan (portfolio_capital_decision.py) takes,   *)
(* for each candidate, the larger of what the strategies and what the      *)
(* route want for it, scales the whole to the room the portfolio has,      *)
(* rounds, and halves what it gives until the stress test passes.  Amounts *)
(* are whole numbers of the smallest unit that is rounded to.              *)
(***************************************************************************)
EXTENDS Naturals, FiniteSets, FiniteSetsExt, Sums

CONSTANTS
  Assets,
  Scores,        \* an asset's score in the route; 0: it is not in it
  Wishes,        \* what the strategies want for an asset
  Rooms,         \* what the portfolio has room for, in all or for one asset
  RouteBudget,   \* what the route shares out
  RouteCap,      \* at most so much of it to one asset
  Whole          \* the parts of a plan that the stress search tells apart (2 ^ 24)

VARIABLES
  stage,
  score, wish,   \* inputs: for each asset
  vetoed,        \* inputs: the assets that something blocks
  room, single,  \* inputs: the room of the portfolio, and of each single asset
  passing,       \* inputs: the parts of the plan that the stress test passes
  closed,        \* inputs: a gate of the plan is not open
  left, open,    \* the route: what is left to share, and the assets not yet at their cap
  weight,        \* the route: what each asset gets
  given,         \* the plan: what each asset gets
  low, high      \* the search: a share that passed, and one that did not

inputs == <<score, wish, vetoed, room, single, passing, closed>>
route == <<left, open, weight>>
vars == <<stage, inputs, route, given, low, high>>

Total(f) == Sum(f, Assets)

TypeOK ==
  /\ stage \in {"route", "plan", "stress", "search", "done"}
  /\ score \in [Assets -> Scores] /\ wish \in [Assets -> Wishes]
  /\ vetoed \subseteq Assets
  /\ room \in Rooms /\ single \in [Assets -> Rooms]
  /\ passing \subseteq 0 .. Whole /\ closed \in BOOLEAN
  /\ left \in 0 .. RouteBudget /\ open \subseteq Assets
  /\ weight \in [Assets -> 0 .. RouteCap]
  /\ given \in [Assets -> Nat]
  /\ low \in 0 .. Whole /\ high \in 0 .. Whole

Init ==
  /\ stage = "route"
  /\ score \in [Assets -> Scores] /\ wish \in [Assets -> Wishes]
  /\ vetoed \in SUBSET Assets
  /\ room \in Rooms /\ single \in [Assets -> Rooms]
  /\ passing \in SUBSET (0 .. Whole) /\ closed \in BOOLEAN
  /\ left = RouteBudget
  /\ open = {a \in Assets : score[a] > 0}
  /\ weight = [a \in Assets |-> 0]
  /\ given = [a \in Assets |-> 0]
  /\ low = 0 /\ high = Whole

-----------------------------------------------------------------------------
(* The route.  In every round the assets whose proportional share reaches  *)
(* the cap get the cap; when there is none, all get their share.           *)

\* Mutant: nobody reaches the cap.
CappedNever == {}

Capped ==
  {a \in open : left * score[a] >= RouteCap * Sum(score, open)}

\* Mutant: in proportion to the scores of all assets.
ShareOfAll(a) == (left * score[a]) \div Total(score)

Share(a) == (left * score[a]) \div Sum(score, open)

CapRound ==
  /\ stage = "route" /\ left > 0 /\ Capped # {}
  /\ weight' = [a \in Assets |-> IF a \in Capped THEN RouteCap ELSE weight[a]]
  /\ left' = left - RouteCap * Cardinality(Capped)
  /\ open' = open \ Capped
  /\ UNCHANGED <<stage, inputs, given, low, high>>

ShareRound ==
  /\ stage = "route" /\ left > 0 /\ open # {} /\ Capped = {}
  /\ weight' = [a \in Assets |-> IF a \in open THEN Share(a) ELSE weight[a]]
  /\ left' = 0
  /\ UNCHANGED <<stage, inputs, open, given, low, high>>

EndRoute ==
  /\ stage = "route" /\ (left = 0 \/ open = {})
  /\ stage' = "plan"
  /\ UNCHANGED <<inputs, route, given, low, high>>

-----------------------------------------------------------------------------
(* The plan.                                                               *)

\* Two views of one candidate: the larger, not the sum.
Desired(a) == Max({wish[a], weight[a]})

Free == {a \in Assets : a \notin vetoed}

Wanted == Sum([a \in Free |-> Desired(a)], Free)

\* Half a unit and more is rounded up.
Rounded(n, d) == (2 * n + d) \div (2 * d)

\* Mutant: what is wanted is not scaled to the room.
ScaledNever(a) == Desired(a)

Scaled(a) ==
  IF Wanted <= room THEN Desired(a) ELSE Rounded(Desired(a) * room, Wanted)

Amount(a) == IF a \in Free THEN Min({Scaled(a), single[a]}) ELSE 0

\* A closed gate, or a portfolio that fails the stress test as it is, leaves
\* nothing.
Size ==
  /\ stage = "plan"
  /\ given' = [a \in Assets |-> IF closed \/ 0 \notin passing THEN 0 ELSE Amount(a)]
  /\ stage' = "stress"
  /\ UNCHANGED <<inputs, route, low, high>>

Part(share) == [a \in Assets |-> Rounded(given[a] * share, Whole)]

Passes(share) == share \in passing

Stress ==
  /\ stage = "stress"
  /\ IF Total(given) > 0 /\ ~Passes(Whole)
     THEN stage' = "search" /\ UNCHANGED low
     ELSE stage' = "done" /\ low' = Whole
  /\ UNCHANGED <<inputs, route, given, high>>

Middle == (low + high) \div 2

Halve ==
  /\ stage = "search" /\ high - low > 1
  /\ IF Passes(Middle)
     THEN low' = Middle /\ UNCHANGED high
     ELSE high' = Middle /\ UNCHANGED low
  /\ UNCHANGED <<stage, inputs, route, given>>

\* What is given is the last part that passed.
Settle ==
  /\ stage = "search" /\ high - low = 1
  /\ given' = Part(low)
  /\ stage' = "done"
  /\ UNCHANGED <<inputs, route, low, high>>

Next == CapRound \/ ShareRound \/ EndRoute \/ Size \/ Stress \/ Halve \/ Settle

Spec == Init /\ [][Next]_vars

-----------------------------------------------------------------------------
(* Properties.                                                             *)

Ended == stage = "done"

\* A finished route is fair whatever the order in which the caps were reached:
\* it spends its budget as far as the caps allow (but for the part of a unit
\* that each share but one may lose), a better score never gets less, and only the cap keeps
\* two shares from being in the proportion of their scores.
RouteIsFair ==
  stage = "plan" =>
    LET In == {a \in Assets : score[a] > 0}
    IN /\ Total(weight) <= RouteBudget
       /\ LET uncapped == Cardinality({a \in In : weight[a] < RouteCap})
          IN  Total(weight) + Max({0, uncapped - 1})
                >= Min({RouteBudget, RouteCap * Cardinality(In)})
       /\ \A a, b \in In :
            /\ score[a] >= score[b] => weight[a] >= weight[b]
            /\ weight[a] < RouteCap /\ weight[b] < RouteCap =>
                 weight[a] * score[b] < (weight[b] + 1) * score[a]

\* However its limits meet, a plan keeps each of them: but for half a unit per
\* rounded amount it stays within the room of the portfolio; it stays within
\* the room of each asset; what only the route wants stays within the route's
\* budget; and the money it hands out was tested, as a whole, against the
\* portfolio's limits, though the test need not be monotone in the share.
PlanKeepsItsLimits ==
  Ended =>
    /\ 2 * Total(given) <= 2 * room + Cardinality({a \in Assets : given[a] > 0})
    /\ \A a \in Assets : given[a] <= single[a] /\ (a \in vetoed => given[a] = 0)
    /\ Total([a \in Assets |-> IF wish[a] = 0 THEN given[a] ELSE 0]) <= RouteBudget
    /\ Total(given) > 0 => ~closed /\ Passes(0) /\ Passes(low)

\* No plan exceeds the room of the portfolio, not by rounding either.
PlanFitsItsRoom == Ended => Total(given) <= room
=============================================================================
