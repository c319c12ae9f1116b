---------------------------- MODULE BatchAmounts ----------------------------
(***************************************************************************)
(* The amounts of one batch: the budget is shared out by weight, with a    *)
(* capacity for each fund, and the shares are scaled until the portfolio   *)
(* keeps its joint limits (strategies/portfolio_batch_allocation.py); what *)
(* a user means to order is checked against the shares and the portfolio   *)
(* (portfolio_batch_purchase_preflight.py), and so is what he has spent    *)
(* (portfolio_batch_purchase_execution.py).  Amounts are in cents, ratios  *)
(* in percent; shares are fractions until they are rounded down.           *)
(***************************************************************************)
EXTENDS Integers, FiniteSets, FiniteSetsExt

CONSTANTS
  Funds, Limited,   \* the funds, and what is limited: equity, each industry
  Budget,
  Weights,          \* the overlap penalty of a fund over its volatility
  Capacities, Ratios, Currents,  \* what the runs' evidence says
  Limit,            \* of what is limited, and of a single fund
  Base,             \* what the portfolio amounts to
  Spends, Fees,     \* what a user may order or spend on a fund
  Tolerance         \* MONEY_TOLERANCE

VARIABLES
  stage,
  weight, capacity, current, ratio,   \* inputs
  left, open, share, unit,   \* shares are multiples of 1 / unit
  given, order, fee, spent

inputs == <<weight, capacity, current, ratio>>
shares == <<left, open, share, unit>>
vars == <<stage, inputs, shares, given, order, fee, spent>>

Total(f) == MapThenSumSet(LAMBDA a : f[a], Funds)
Zero == [f \in Funds |-> 0]

Init ==
  /\ stage = "share"
  /\ weight \in [Funds -> Weights] /\ capacity \in [Funds -> Capacities]
  /\ current \in [Limited -> Currents] /\ ratio \in [Limited -> [Funds -> Ratios]]
  /\ left = Budget /\ open = Funds /\ share = Zero /\ unit = 1
  /\ given = Zero /\ order = Zero /\ fee = Zero /\ spent = Zero

-----------------------------------------------------------------------------
(* Sharing out: _weighted_capped_allocation.                               *)

Weight == MapThenSumSet(LAMBDA f : weight[f], open)
Fills(f) == left * weight[f] >= capacity[f] * Weight

Unshared == stage = "share" /\ open # {} /\ left > Tolerance

\* Those that a share would fill get their capacity, and the rest shares anew.
FillRound ==
  /\ Unshared
  /\ LET full == {f \in open : Fills(f)} IN
       /\ full # {}
       /\ share' = [f \in Funds |-> IF f \in full THEN capacity[f] ELSE share[f]]
       /\ left' = Max({0, left - MapThenSumSet(LAMBDA f : capacity[f], full)})
       /\ open' = open \ full
  /\ UNCHANGED <<stage, inputs, unit, given, order, fee, spent>>

ShareRound ==
  /\ Unshared /\ \A f \in open : ~Fills(f)
  /\ unit' = Weight /\ left' = 0
  /\ share' = [f \in Funds |-> IF f \in open THEN left * weight[f] ELSE share[f] * Weight]
  /\ UNCHANGED <<stage, inputs, open, given, order, fee, spent>>

-----------------------------------------------------------------------------
(* Scaling: _constraint_scale, one scale for all funds.                    *)

Headroom(c) == Limit * Base - 100 * current[c]
Effect(c) == MapThenSumSet(LAMBDA f : (ratio[c][f] - Limit) * share[f], Funds)

\* The share of f, rounded down, after the scale for c.
Scaled(c, f) ==
  IF Headroom(c) < -100 * Tolerance THEN 0
  ELSE IF Effect(c) > 0 /\ Headroom(c) * unit < Effect(c)
  THEN (share[f] * Max({0, Headroom(c)})) \div Effect(c)
  ELSE share[f] \div unit

Allocate ==
  /\ stage = "share" /\ ~Unshared
  /\ given' = [f \in Funds |-> Min({Scaled(c, f) : c \in Limited})]
  /\ stage' = IF Total(given') > 0 THEN "order" ELSE "blocked"
  /\ UNCHANGED <<inputs, shares, order, fee, spent>>

-----------------------------------------------------------------------------
(* Ordering and spending.                                                  *)

Offered == {f \in Funds : given[f] > Tolerance}

\* The funds hold nothing yet; net of its fee every order adds to the total.
Net(f) == order'[f] - fee'[f]
ProjectedTotal == Base + MapThenSumSet(Net, Offered)

\* evaluate_portfolio_batch_purchase_preflight: each fund and all of them
CashFits ==
  /\ \A f \in Offered : order'[f] <= given[f] + Tolerance
  /\ Total(order') <= Total(given) + Tolerance

PositionsFit == \A f \in Offered : 100 * Net(f) <= Limit * ProjectedTotal

\* _project_holdings, and the exposure of what it returns
ExposureFits ==
  \A c \in Limited :
    100 * current[c] + MapThenSumSet(LAMBDA f : ratio[c][f] * Net(f), Offered)
      <= Limit * ProjectedTotal

Review ==
  /\ stage = "order" /\ Offered # {}
  /\ \E o \in [Offered -> Spends \ {0}], e \in [Offered -> Fees] :
       /\ \A f \in Offered : e[f] < o[f]
       /\ order' = [f \in Funds |-> IF f \in Offered THEN o[f] ELSE 0]
       /\ fee' = [f \in Funds |-> IF f \in Offered THEN e[f] ELSE 0]
  /\ CashFits /\ PositionsFit /\ ExposureFits
  /\ stage' = "spend"
  /\ UNCHANGED <<inputs, shares, given, spent>>

\* evaluate_batch_purchase_execution: whatever was bought of it, at whatever
\* price, as long as it is within what was given
Record ==
  /\ stage = "spend"
  /\ \E s \in [Offered -> Spends] : spent' = [f \in Funds |-> IF f \in Offered THEN s[f] ELSE 0]
  /\ \A f \in Offered : spent'[f] <= given[f] + Tolerance
  /\ Total(spent') <= Total(given) + Tolerance
  /\ stage' = "done"
  /\ UNCHANGED <<inputs, shares, given, order, fee>>

Next == FillRound \/ ShareRound \/ Allocate \/ Review \/ Record

Spec == Init /\ [][Next]_vars

-----------------------------------------------------------------------------
(* Properties.                                                             *)

\* Everything has its type.
TypeOK ==
  /\ stage \in {"share", "order", "blocked", "spend", "done"}
  /\ left \in 0 .. Budget /\ open \subseteq Funds /\ unit \in Nat \ {0}
  /\ {share, given, order, fee, spent} \subseteq [Funds -> Nat]

\* A fund below its capacity has as much for its weight as any other has at
\* least, and the budget is shared out unless all are at their capacity.
SharesAreFair ==
  stage # "share" =>
    \A f \in Funds : share[f] < capacity[f] * unit =>
      /\ \A g \in Funds : share[g] * weight[f] <= share[f] * weight[g]
      /\ Total(share) >= (Budget - Tolerance) * unit

\* What is given stays within the budget and the capacities, and once it is
\* bought the portfolio keeps every limit, but for what rounding each share
\* down to a cent takes from funds that would have thinned it out.
GivenKeepsItsLimits ==
  stage \notin {"share", "blocked"} =>
    /\ Total(given) <= Budget /\ \A f \in Funds : given[f] <= capacity[f]
    /\ \A c \in Limited :
         100 * current[c] + MapThenSumSet(LAMBDA f : ratio[c][f] * given[f], Funds)
           <= Limit * (Base + Total(given)) + 100 * (Tolerance + Cardinality(Funds))

\* A review that passed and purchases that were recorded never take more than
\* the budget; the portfolio keeps its limits if the orders are bought as they are.
SpendingFits ==
  /\ stage \in {"spend", "done"} => Total(order) <= Budget + Tolerance
  /\ stage = "done" =>
       /\ Total(spent) <= Budget + Tolerance
       /\ \A f \in Funds : spent[f] > 0 => order[f] > 0 /\ given[f] > Tolerance
=============================================================================
