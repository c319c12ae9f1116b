----------------------------- MODULE SwitchReviews -----------------------------
(***************************************************************************)
(* What stands before and behind one replacement of a fund by another: the *)
(* cost review of the lots a user holds (strategies/fund_switch_cost.py,   *)
(* fund_switch_cost_service.py), the quote of the sales platform           *)
(* (fund_switch_quote_service.py), the execution review                    *)
(* (strategies/fund_switch_execution.py, fund_switch_execution_service.py) *)
(* and the money of the case that follows                                  *)
(* (strategies/fund_switch_lifecycle.py), all under src/backend, with      *)
(* their tables in storage.py.  Each is bound to what it was made from, is *)
(* appended and never changed, and is shown as ready only while that is    *)
(* what there is.                                                          *)
(*                                                                         *)
(* There is one holding and one candidate; a lot is of one share, and the  *)
(* ledger has no integrity issues (LotLedger).  Who may start a case, and  *)
(* that a transaction serves one of them, is in FundSwitches.  Amounts are *)
(* integers; an offer that differs from what was disclosed is accepted     *)
(* when the user acknowledges it, so that any is.  Rows that were tampered *)
(* with are left out.                                                      *)
(***************************************************************************)
EXTENDS Integers, Sequences, FiniteSetsExt

CONSTANTS
  Purchases, Openings,  \* lots: entered as purchases, or as what was held before
  Requests,             \* requests that are served at the same time
  Prices, Fees, Amounts, \* of a share, of a trade, of an order or of other holdings
  Caps,                 \* greatest percentages of a single position
  Schedules,            \* redemption fees of the fund: sets of bands of holding days
  EntryRates,           \* percentages the purchase of the candidate costs
  DayLength, Validity,  \* hours of a day and of a quote
  NavDays,              \* MAX_CONFIRMED_NAV_AGE_DAYS
  Tolerance,            \* CASH_TOLERANCE_YUAN
  MaxHour, MaxReviews, MaxQuotes, MaxVerdicts, MaxChanges \* bounds

Lots == Purchases \cup Openings

VARIABLES
  hour,
  ledger,   \* the day of each lot, and the sale of all of them
  holding,  \* its revision, confirmed shares, and the amounts of two others
  policy,   \* the active profile's version, its cap, and whether it is configured
  thesis,   \* the version of the holding's thesis, 0 if there is none
  review,   \* fund_switch_cost_reviews
  quote,    \* fund_switch_quote_events
  verdict,  \* fund_switch_execution_reviews
  case,     \* fund_switch_lifecycle_events: settlement, purchase and reconciliation,
  order,    \* the latest offer to buy the candidate
  gain,     \* and the latest attribution
  request   \* what each request has read

vars == <<hour, ledger, holding, policy, thesis, review, quote, verdict, case, order, gain, request>>

user == <<ledger, holding, policy, thesis>>
evidence == <<review, quote, verdict>>
life == <<case, order, gain>>

Day(h) == h \div DayLength

New == -1  \* a lot that is not entered yet
Gone == -2 \* and one that was deleted, whose id is not given again

NoTrade  == [on |-> 0, shares |-> 0, price |-> 0, fee |-> 0]
NoOrder  == [ready |-> FALSE, at |-> 0, amount |-> 0, entry |-> 0, rev |-> 0, policy |-> 0]
NoGain   == [known |-> FALSE, old |-> 0, new |-> 0, incremental |-> 0]
Position(rev, shares, other, candidate) ==
  [rev |-> rev, shares |-> shares, other |-> other, candidate |-> candidate]
Policy(version, cap, configured) == [version |-> version, cap |-> cap, configured |-> configured]
Idle == [op |-> "none", at |-> 0, held |-> Position(0, 0, 0, 0), policy |-> Policy(0, 0, FALSE),
         thesis |-> 0, of |-> 0]

Init ==
  /\ hour = 0
  /\ ledger = [day |-> [l \in Lots |-> New], sale |-> NoTrade]
  /\ holding = Position(1, 0, 0, 0) /\ policy = Policy(0, 0, FALSE) /\ thesis = 0
  /\ review = <<>> /\ quote = <<>> /\ verdict = <<>>
  /\ case = [stage |-> "none", sale |-> NoTrade, received |-> 0, buy |-> NoTrade]
  /\ order = NoOrder /\ gain = NoGain
  /\ request = [q \in Requests |-> Idle]

-----------------------------------------------------------------------------
(* The user's ledger, holdings, policy and thesis.                         *)

Entered == {l \in Lots : ledger.day[l] >= 0}

\* remaining_lot_snapshot: the sale is of all there is.
Left == IF ledger.sale = NoTrade THEN Entered ELSE {}

Enter(l, d) ==
  /\ ledger.day[l] = New /\ ledger.sale = NoTrade /\ d <= Day(hour)
  /\ ledger' = [ledger EXCEPT !.day[l] = d]
  /\ UNCHANGED <<hour, holding, policy, thesis, evidence, life, request>>

Delete(l) ==
  /\ l \in Left
  /\ ledger' = [ledger EXCEPT !.day[l] = Gone]
  /\ UNCHANGED <<hour, holding, policy, thesis, evidence, life, request>>

Sell(price, fee) ==
  /\ Left # {} /\ fee < Cardinality(Left) * price
  /\ ledger' = [ledger EXCEPT !.sale =
       [on |-> Day(hour), shares |-> Cardinality(Left), price |-> price, fee |-> fee]]
  /\ UNCHANGED <<hour, holding, policy, thesis, evidence, life, request>>

\* Holdings are saved with a new updated_at, which their hash covers.
Hold(shares, other, candidate) ==
  /\ holding.rev < MaxChanges
  /\ holding' = Position(holding.rev + 1, shares, other, candidate)
  /\ UNCHANGED <<hour, ledger, policy, thesis, evidence, life, request>>

Activate(cap) ==
  /\ policy.version < MaxChanges /\ policy' = Policy(policy.version + 1, cap, TRUE)
  /\ UNCHANGED <<hour, ledger, holding, thesis, evidence, life, request>>

\* The policy's review is due.
Lapse ==
  /\ policy.configured /\ policy' = [policy EXCEPT !.configured = FALSE]
  /\ UNCHANGED <<hour, ledger, holding, thesis, evidence, life, request>>

SaveThesis ==
  /\ thesis < MaxChanges /\ thesis' = thesis + 1
  /\ UNCHANGED <<hour, ledger, holding, policy, evidence, life, request>>

Tick ==
  /\ hour < MaxHour /\ hour' = hour + 1
  /\ UNCHANGED <<user, evidence, life, request>>

-----------------------------------------------------------------------------
(* Requests.  What one reads, it reads outside of the transaction that     *)
(* appends, and it takes the time it is served at from its start.          *)

Begin(q, op, i) ==
  /\ request[q] = Idle
  /\ request' = [request EXCEPT ![q] = [Idle EXCEPT !.op = op, !.at = hour, !.held = holding, !.of = i]]
  /\ UNCHANGED <<hour, user, evidence, life>>

\* A check has failed, or a source.
Refuse(q) ==
  /\ request[q] # Idle /\ request' = [request EXCEPT ![q] = Idle]
  /\ UNCHANGED <<hour, user, evidence, life>>

Done(q) == request' = [request EXCEPT ![q] = Idle]

-----------------------------------------------------------------------------
(* The cost review.                                                        *)

BandsOf(bands, days) == {b \in bands : b.from <= days /\ days < b.to}

\* What evaluate_fund_switch_cost asks for, in its order, before the fees.
Reconciled(lots, shares) ==
  /\ lots # {} /\ lots \cap Openings = {}
  /\ shares > 0 /\ shares = Cardinality(lots)

Covered(lots, bands, day) ==
  \A l \in lots : ledger.day[l] <= day /\ Cardinality(BandsOf(bands, day - ledger.day[l])) = 1

RedemptionFee(lots, price, bands, day) ==
  MapThenSumSet(LAMBDA l : LET b == CHOOSE b \in BandsOf(bands, day - ledger.day[l]) : TRUE
                           IN (price * b.rate) \div 100, lots)

\* _purchase_fee
EntryFee(amount, rate) == amount - (amount * 100) \div (100 + rate)

\* The disclosed cost of selling the lots and buying the candidate, at each of
\* the rates that are known.
Costs(lots, price, bands, rates, day) ==
  LET gross == Cardinality(lots) * price
      fee   == RedemptionFee(lots, price, bands, day)
      net   == IF fee > gross THEN 0 ELSE gross - fee
  IN {fee + EntryFee(net, r) : r \in rates}

Save(r) == review' = IF \E i \in DOMAIN review : review[i] = r THEN review ELSE Append(review, r)

\* Mutant: what the lots come to is not compared with the confirmed shares.
SaveUnreconciled(q, nav, price, bands, rates) ==
  LET day == Day(request[q].at) IN
  /\ request[q].op = "cost" /\ Len(review) < MaxReviews
  /\ Left # {} /\ Left \cap Openings = {} /\ request[q].held.shares > 0
  /\ day - nav \in 0..NavDays /\ Covered(Left, bands, day) /\ rates # {}
  /\ Save([lots |-> Left, shares |-> request[q].held.shares, day |-> day, nav |-> nav,
           gross |-> Cardinality(Left) * price, costs |-> Costs(Left, price, bands, rates, day)])
  /\ Done(q)
  /\ UNCHANGED <<hour, user, quote, verdict, life>>

\* get_holding_fund_alternatives read the holding first, reads the ledger now,
\* and saves a review that is ready, the same one once.
SaveReview(q, nav, price, bands, rates) ==
  LET day == Day(request[q].at) IN
  /\ request[q].op = "cost" /\ Len(review) < MaxReviews
  /\ Reconciled(Left, request[q].held.shares)
  /\ day - nav \in 0..NavDays /\ Covered(Left, bands, day) /\ rates # {}
  /\ Save([lots |-> Left, shares |-> request[q].held.shares, day |-> day, nav |-> nav,
           gross |-> Cardinality(Left) * price, costs |-> Costs(Left, price, bands, rates, day)])
  /\ Done(q)
  /\ UNCHANGED <<hour, user, quote, verdict, life>>

-----------------------------------------------------------------------------
(* The platform's quote.                                                   *)

\* _current_portfolio_binding: the lots and confirmed shares are the review's.
Bound(i) == review[i].lots = Left /\ review[i].shares = holding.shares

BeginQuote(q, i) == Bound(i) /\ Begin(q, "quote", i)

AddQuote(r) == quote' = Append(quote, r)

\* submit_fund_switch_quote: what the platform shows of the redemption and of
\* the purchase it pays for, seen on the day of the review.
AppendQuote(q, at, gross, fee, amount, entry, available) ==
  LET r == review[request[q].of] IN
  /\ request[q].op = "quote" /\ Len(quote) < MaxQuotes
  /\ at <= request[q].at /\ request[q].at - at <= Validity /\ Day(at) = r.day
  /\ fee < gross /\ entry < amount /\ fee + entry <= gross
  /\ amount <= gross - fee + Tolerance
  /\ AddQuote([review |-> request[q].of, at |-> at, gross |-> gross, fee |-> fee,
               amount |-> amount, entry |-> entry, available |-> available])
  /\ Done(q)
  /\ UNCHANGED <<hour, user, review, verdict, life>>

\* decorate_quote_event
QuoteStatus(i, now) ==
  CASE ~Bound(quote[i].review) -> "superseded"
    [] Bound(quote[i].review) /\ now > quote[i].at + Validity -> "expired"
    [] Bound(quote[i].review) /\ now <= quote[i].at + Validity ->
         IF quote[i].available THEN "confirmed_current" ELSE "confirmed_with_blocker"

\* get_latest_quote
Latest == Len(quote)

-----------------------------------------------------------------------------
(* The execution review: holdings, quote, policy and thesis are read one   *)
(* after the other, then the disclosures, which are slow.                  *)

ReadQuote(q) ==
  /\ request[q].op = "review" /\ Latest > 0
  /\ QuoteStatus(Latest, request[q].at) = "confirmed_current"
  /\ request' = [request EXCEPT ![q].op = "quoted", ![q].of = Latest]
  /\ UNCHANGED <<hour, user, evidence, life>>

ReadPolicy(q) ==
  /\ \/ request[q].op = "quoted" /\ request' = [request EXCEPT ![q].op = "thesis", ![q].policy = policy]
     \/ request[q].op = "offer" /\ request' = [request EXCEPT ![q].op = "order", ![q].policy = policy]
  /\ UNCHANGED <<hour, user, evidence, life>>

ReadThesis(q) ==
  /\ request[q].op = "thesis"
  /\ request' = [request EXCEPT ![q].op = "verdict", ![q].thesis = thesis]
  /\ UNCHANGED <<hour, user, evidence, life>>

\* The share of the candidate among the holdings after the switch
\* (_project_holdings): the old fund is left out, cash is not counted.
Fits(held, net, cap) == (held.candidate + net) * 100 <= cap * (held.other + held.candidate + net)

\* cashflow_ready: what is bought is paid by what is sold.
Closes(i) ==
  /\ quote[i].fee < quote[i].gross /\ quote[i].entry < quote[i].amount
  /\ quote[i].amount <= quote[i].gross - quote[i].fee + Tolerance /\ quote[i].available

\* evaluate_fund_switch_execution: the first gate that blocks gives the status.
VerdictStatus(i, held, pol, th, market, disclosed) ==
  IF ~pol.configured THEN "blocked_by_policy"
  ELSE IF th = 0 THEN "blocked_by_thesis"
  ELSE IF ~market THEN "blocked_by_market"
  ELSE IF ~Closes(i) THEN "blocked_by_cashflow"
  ELSE IF ~disclosed THEN "blocked_by_exposure_evidence"
  ELSE IF ~Fits(held, quote[i].amount - quote[i].entry, pol.cap) THEN "blocked_by_portfolio_limit"
  ELSE "ready_for_redemption_review"

AppendVerdict(q, market, disclosed) ==
  LET r == request[q] IN
  /\ r.op = "verdict" /\ Len(verdict) < MaxVerdicts
  /\ verdict' = Append(verdict,
       [quote |-> r.of, rev |-> r.held.rev, policy |-> r.policy.version, thesis |-> r.thesis,
        status |-> VerdictStatus(r.of, r.held, r.policy, r.thesis, market, disclosed)])
  /\ Done(q)
  /\ UNCHANGED <<hour, user, review, quote, life>>

\* Mutant: the holdings a review was made from are not compared.
BindsLess(v) ==
  /\ verdict[v].quote = Latest /\ QuoteStatus(Latest, hour) = "confirmed_current"
  /\ verdict[v].policy = policy.version /\ policy.configured
  /\ verdict[v].thesis = thesis

\* _binding_state
Binds(v) ==
  /\ verdict[v].quote = Latest /\ QuoteStatus(Latest, hour) = "confirmed_current"
  /\ verdict[v].policy = policy.version /\ policy.configured
  /\ verdict[v].thesis = thesis
  /\ verdict[v].rev = holding.rev

\* What decorate_execution_review shows as ready.
ReadyNow(v) == verdict[v].status = "ready_for_redemption_review" /\ Binds(v)

-----------------------------------------------------------------------------
(* The money of the case.                                                  *)

Gross(trade) == trade.shares * trade.price

\* create_redemption_settlement: of a review that was ready, whatever is shown
\* of it now, and of the lots it was made from.
Settle(v, received, at) ==
  LET q == quote[verdict[v].quote]
      sale == ledger.sale
  IN
  /\ case.stage = "none" /\ verdict[v].status = "ready_for_redemption_review"
  /\ sale # NoTrade /\ sale.shares = review[q.review].shares /\ Entered = review[q.review].lots
  /\ q.at <= at /\ at <= q.at + Validity /\ at <= hour /\ Day(at) <= sale.on
  /\ received > 0
  /\ received <= Gross(sale) - sale.fee + Tolerance /\ received >= Gross(sale) - sale.fee - Tolerance
  /\ case' = [stage |-> "settled", sale |-> sale, received |-> received, buy |-> NoTrade]
  /\ UNCHANGED <<hour, user, evidence, order, gain, request>>

\* create_purchase_requote, which has read holdings and policy
AppendOrder(q, at, amount, entry, available, market, disclosed) ==
  LET r == request[q] IN
  /\ r.op = "order" /\ case.stage = "settled"
  /\ at <= r.at /\ r.at - at <= Validity
  /\ entry < amount /\ amount <= case.received + Tolerance
  /\ order' = [ready |-> /\ available /\ r.policy.configured /\ market /\ disclosed
                         /\ Fits(r.held, amount - entry, r.policy.cap),
               at |-> at, amount |-> amount, entry |-> entry,
               rev |-> r.held.rev, policy |-> r.policy.version]
  /\ Done(q)
  /\ UNCHANGED <<hour, user, evidence, case, gain>>

\* _purchase_quote_binding_state
OrderStands ==
  /\ case.stage = "settled" /\ order.ready /\ hour <= order.at + Validity
  /\ order.policy = policy.version /\ policy.configured /\ order.rev = holding.rev

\* record_purchase
Buy(shares, price, fee, at) ==
  /\ OrderStands /\ order.at <= at /\ at <= hour
  /\ shares * price + fee <= case.received + Tolerance
  /\ case' = [case EXCEPT !.stage = "bought",
                          !.buy = [on |-> Day(hour), shares |-> shares, price |-> price, fee |-> fee]]
  /\ UNCHANGED <<hour, user, evidence, order, gain, request>>

Agreed == holding.shares = Cardinality(Left)

\* reconcile_holdings
Reconcile ==
  /\ case.stage = "bought" /\ Agreed /\ case' = [case EXCEPT !.stage = "reconciled"]
  /\ UNCHANGED <<hour, user, evidence, order, gain, request>>

Spent == Gross(case.buy) + case.buy.fee

Residual == IF Spent > case.received THEN 0 ELSE case.received - Spent

\* create_attribution_snapshot at the net asset values of one day; they may be
\* missing, differ from those of the trades, or come with a dividend.
Attribute(old, new, clean) ==
  /\ case.stage = "reconciled" /\ Agreed
  /\ gain' = IF ~clean THEN NoGain
             ELSE [known |-> TRUE, old |-> old, new |-> new,
                   incremental |-> case.buy.shares * new + Residual - case.sale.shares * old]
  /\ UNCHANGED <<hour, user, evidence, case, order, request>>

-----------------------------------------------------------------------------
Users ==
  \/ \E l \in Lots : Delete(l) \/ \E d \in 0..MaxHour : Enter(l, d)
  \/ \E price \in Prices, fee \in Fees : Sell(price, fee)
  \/ \E n \in 0..Cardinality(Lots), other \in Amounts, candidate \in Amounts : Hold(n, other, candidate)
  \/ (\E cap \in Caps : Activate(cap)) \/ Lapse \/ SaveThesis

Reviewing(q) ==
  \/ Begin(q, "cost", 0) \/ Begin(q, "review", 0)
  \/ \E i \in DOMAIN review : BeginQuote(q, i)
  \/ /\ request[q].op = "cost"
     /\ \E nav \in -1..MaxHour, price \in Prices, bands \in Schedules, rates \in SUBSET EntryRates :
          SaveReview(q, nav, price, bands, rates)
  \/ /\ request[q].op = "quote"
     /\ \E at \in 0..MaxHour, gross \in Amounts, fee \in Fees, amount \in Amounts, entry \in Fees,
           available \in BOOLEAN : AppendQuote(q, at, gross, fee, amount, entry, available)
  \/ ReadQuote(q) \/ ReadPolicy(q) \/ ReadThesis(q) \/ Refuse(q)
  \/ \E market \in BOOLEAN, disclosed \in BOOLEAN : AppendVerdict(q, market, disclosed)

Switching ==
  \/ case.stage = "none" /\ \E v \in DOMAIN verdict, received \in Amounts, at \in 0..MaxHour : Settle(v, received, at)
  \/ \E q \in Requests :
       \/ case.stage = "settled" /\ Begin(q, "offer", 0)
       \/ /\ request[q].op = "order"
          /\ \E at \in 0..MaxHour, amount \in Amounts, entry \in Fees, available \in BOOLEAN,
                market \in BOOLEAN, disclosed \in BOOLEAN :
               AppendOrder(q, at, amount, entry, available, market, disclosed)
  \/ /\ case.stage = "settled"
     /\ \E shares \in 1..Cardinality(Lots), price \in Prices, fee \in Fees, at \in 0..MaxHour :
          Buy(shares, price, fee, at)
  \/ Reconcile
  \/ \E old \in Prices, new \in Prices, clean \in BOOLEAN : Attribute(old, new, clean)

Next == Users \/ Tick \/ Switching \/ \E q \in Requests : Reviewing(q)

Spec == Init /\ [][Next]_vars

-----------------------------------------------------------------------------
(* Properties.                                                             *)

Statuses == {"blocked_by_policy", "blocked_by_thesis", "blocked_by_market", "blocked_by_cashflow",
             "blocked_by_exposure_evidence", "blocked_by_portfolio_limit",
             "ready_for_redemption_review"}

Ops == {"none", "cost", "quote", "review", "quoted", "thesis", "verdict", "offer", "order"}

\* Everything has its type.
TypeOK ==
  /\ hour \in 0..MaxHour
  /\ \A l \in Lots : ledger.day[l] \in -2..MaxHour
  /\ holding.rev \in 1..MaxChanges /\ policy.version \in 0..MaxChanges /\ thesis \in 0..MaxChanges
  /\ \A i \in DOMAIN quote : quote[i].review \in DOMAIN review /\ quote[i].at \in 0..MaxHour
  /\ \A v \in DOMAIN verdict :
       verdict[v].quote \in DOMAIN quote /\ verdict[v].status \in Statuses
  /\ case.stage \in {"none", "settled", "bought", "reconciled"}
  /\ \A q \in Requests : request[q].op \in Ops /\ request[q].at \in 0..MaxHour

\* Whatever the user changed while it was being made, a review that is shown as
\* ready sells all the lots there are, pays for what it buys, and leaves the
\* candidate within the cap of the policy in force among the holdings of now.
ReviewsAreOfNow ==
  \A v \in DOMAIN verdict : ReadyNow(v) =>
    LET q == quote[verdict[v].quote] IN
    /\ Cardinality(Left) = holding.shares /\ Left # {} /\ Left \cap Openings = {}
    /\ q.amount + q.fee <= q.gross + Tolerance
    /\ thesis > 0 /\ Fits(holding, q.amount - q.entry, policy.cap)

\* The same of an offer to buy the candidate, which is paid by what was received.
OrdersAreOfNow ==
  OrderStands =>
    /\ order.amount <= case.received + Tolerance
    /\ Fits(holding, order.amount - order.entry, policy.cap)

\* What a switch has gained over holding on is what the candidate gained since
\* it was bought, less what the old fund would have since it was sold, less the
\* two fees; it was paid by what the sale brought.
MoneyAddsUp ==
  /\ case.stage \in {"bought", "reconciled"} =>
       Spent <= Gross(case.sale) - case.sale.fee + 2 * Tolerance
  /\ gain.known =>
       LET expected == case.buy.shares * (gain.new - case.buy.price)
                       - case.sale.shares * (gain.old - case.sale.price)
                       - case.sale.fee - case.buy.fee
       IN /\ gain.incremental <= expected + 2 * Tolerance
          /\ gain.incremental >= expected - 2 * Tolerance
=============================================================================
