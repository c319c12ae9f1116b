------------------------------ MODULE LotLedger ------------------------------
(***************************************************************************)
(* The ledger of one asset that a user keeps of his trades, and what the   *)
(* application concludes from it (portfolio_review.py, storage.py,         *)
(* strategies/portfolio_batch_purchase_attribution.py): lots first in      *)
(* first out, the profit of the cash flows, the change between two         *)
(* snapshots of confirmed holdings, the outcome of one purchase.           *)
(*                                                                         *)
(* The world trades at the day's net asset value; the user enters trades   *)
(* late, twice, at a wrong price or never, by hand or with the statement   *)
(* of all of them.  Shares are 1 or 2, so that amounts are whole in        *)
(* halves; an opening is a purchase to all of this; the annual rate of     *)
(* return, drawdowns and tolerances are left out.                          *)
(***************************************************************************)
EXTENDS Integers, Sequences, FiniteSets, SequencesExt, FiniteSetsExt

CONSTANTS
  Forms,        \* of trades: [type, shares, fee]
  Navs,
  None,
  Requests,
  MaxDay, MaxTrades, MaxRows, MaxSnapshots

VARIABLES
  nav,          \* of the days until today
  dividends,    \* days on which one was paid, 1 per share
  trades,       \* what happened
  ledger,       \* portfolio_transactions by id: the trade and the price, or None
  imported,     \* portfolio_imports: statements by how many trades they list
  holding,      \* what the user confirmed last: [shares, amount]
  snapshots,    \* portfolio_snapshots
  request       \* rows that were validated and are not stored yet, or <<>>

world == <<nav, dividends, trades>>
vars == <<world, ledger, imported, holding, snapshots, request>>

Today == Len(nav)
Idle == [file |-> 0, rows |-> <<>>]

Init ==
  /\ nav \in {<<v>> : v \in Navs} /\ dividends = {} /\ trades = <<>>
  /\ ledger = <<>> /\ imported = {} /\ holding = None /\ snapshots = <<>>
  /\ request = [q \in Requests |-> Idle]

Sum(f(_), S) == MapThenSumSet(f, S)
Signed(t) == IF t.type = "buy" THEN t.shares ELSE -t.shares
Held(d) == Sum(LAMBDA i : IF trades[i].day <= d THEN Signed(trades[i]) ELSE 0, DOMAIN trades)

-----------------------------------------------------------------------------
(* The world.                                                              *)

NextDay ==
  /\ Today < MaxDay
  /\ \E v \in Navs : nav' = Append(nav, v)
  /\ \E paid \in {FALSE, dividends = {}} :
       dividends' = IF paid THEN {Today + 1} ELSE dividends
  /\ UNCHANGED <<trades, ledger, imported, holding, snapshots, request>>

Trade(f) ==
  /\ Len(trades) < MaxTrades /\ Held(Today) + Signed(f) >= 0
  /\ trades' = Append(trades, [type |-> f.type, shares |-> f.shares, fee |-> f.fee, day |-> Today])
  /\ UNCHANGED <<nav, dividends, ledger, imported, holding, snapshots, request>>

-----------------------------------------------------------------------------
(* Lots, first in first out: _calculate_fifo.                              *)

Of(row) == trades[row.of]

\* _sort_transactions
Sorted(rows) ==
  SetToSortSeq({i \in DOMAIN rows : rows[i] # None},
    LAMBDA i, j : Of(rows[i]).day < Of(rows[j]).day \/ (Of(rows[i]).day = Of(rows[j]).day /\ i < j))

Gross(row) == Of(row).shares * row.price

\* One sale takes from the oldest lots.
Sell(books, id, shares) ==
  LET taken == FoldLeft(
        LAMBDA a, lot :
          LET m == Min({a.open, lot.left}) IN
          [open |-> a.open - m,
           lots |-> IF lot.left > m THEN Append(a.lots, [lot EXCEPT !.left = @ - m]) ELSE a.lots,
           matches |-> IF m > 0 THEN Append(a.matches, [sale |-> id, buy |-> lot.id, shares |-> m])
                                ELSE a.matches],
        [open |-> shares, lots |-> <<>>, matches |-> books.matches], books.lots)
  IN [lots |-> taken.lots, matches |-> taken.matches, short |-> books.short + taken.open]

Fifo(rows) ==
  FoldLeft(
    LAMBDA books, id :
      IF Of(rows[id]).type = "buy"
      THEN [books EXCEPT !.lots = Append(@, [id |-> id, left |-> Of(rows[id]).shares])]
      ELSE Sell(books, id, Of(rows[id]).shares),
    [lots |-> <<>>, matches |-> <<>>, short |-> 0], Sorted(rows))

\* In halves
ShareCost(row) == (2 * (Gross(row) + Of(row).fee)) \div Of(row).shares
Proceeds(row, shares) == (2 * (Gross(row) - Of(row).fee) * shares) \div Of(row).shares

Profit(m) == Proceeds(ledger[m.sale], m.shares) - m.shares * ShareCost(ledger[m.buy])
SumOver(f(_), seq) == Sum(LAMBDA i : f(seq[i]), DOMAIN seq)

OpenShares(books) == SumOver(LAMBDA lot : lot.left, books.lots)
RemainingCost(books) == SumOver(LAMBDA lot : lot.left * ShareCost(ledger[lot.id]), books.lots)
Realized(books) == SumOver(Profit, books.matches)

Ids == {i \in DOMAIN ledger : ledger[i] # None}
Sales == {i \in Ids : Of(ledger[i]).type = "sell"}

-----------------------------------------------------------------------------
(* What the user does.                                                     *)

\* _validate_transaction_sequence: together with what is there, nothing is sold short
Validated(rows) == Fifo(ledger \o rows).short = 0

ReadCreate(q, i, price) ==
  /\ request[q] = Idle /\ i \in DOMAIN trades /\ Len(ledger) < MaxRows
  /\ LET rows == <<[of |-> i, price |-> price]>> IN
     Validated(rows) /\ request' = [request EXCEPT ![q] = [file |-> 0, rows |-> rows]]
  /\ UNCHANGED <<world, ledger, imported, holding, snapshots>>

\* create_transactions_from_csv
ReadImport(q) ==
  /\ request[q] = Idle /\ trades # <<>> /\ Len(ledger) + Len(trades) <= MaxRows
  /\ LET rows == [i \in DOMAIN trades |-> [of |-> i, price |-> nav[trades[i].day]]] IN
     Validated(rows) /\ request' = [request EXCEPT ![q] = [file |-> Len(trades), rows |-> rows]]
  /\ UNCHANGED <<world, ledger, imported, holding, snapshots>>

\* add_portfolio_transactions refuses a file that was imported before.
Store(q) ==
  /\ request[q] # Idle /\ request' = [request EXCEPT ![q] = Idle]
  /\ LET r == request[q] IN
     IF r.file \in imported THEN UNCHANGED <<ledger, imported>>
     ELSE /\ ledger' = ledger \o r.rows
          /\ imported' = imported \cup ({r.file} \ {0})
  /\ UNCHANGED <<world, holding, snapshots>>

\* delete_transaction: whatever was sold since
Delete(i) ==
  /\ i \in Ids /\ ledger' = [ledger EXCEPT ![i] = None]
  /\ UNCHANGED <<world, imported, holding, snapshots, request>>

\* upsert_holding, with or without the shares; delete_holding when none are left
Confirm ==
  /\ \E withShares \in BOOLEAN :
       holding' = IF Held(Today) = 0 THEN None
                  ELSE [shares |-> IF withShares THEN Held(Today) ELSE None,
                        amount |-> 2 * Held(Today) * nav[Today]]
  /\ UNCHANGED <<world, ledger, imported, snapshots, request>>

CreateSnapshot ==
  /\ holding # None /\ Len(snapshots) < MaxSnapshots
  /\ snapshots' = Append(snapshots, [day |-> Today, amount |-> holding.amount])
  /\ UNCHANGED <<world, ledger, imported, holding, request>>

-----------------------------------------------------------------------------
Next ==
  \/ NextDay \/ Confirm \/ CreateSnapshot
  \/ \E f \in Forms : Trade(f)
  \/ \E q \in Requests :
       \/ Store(q) \/ ReadImport(q)
       \/ \E i \in 1 .. MaxTrades, price \in Navs : ReadCreate(q, i, price)
  \/ \E i \in 1 .. MaxRows : Delete(i)

Spec == Init /\ [][Next]_vars

-----------------------------------------------------------------------------
(* What is concluded.                                                      *)

Flow(row) == IF Of(row).type = "buy" THEN 2 * (Gross(row) + Of(row).fee)
                                      ELSE -2 * (Gross(row) - Of(row).fee)

Amount == IF holding = None THEN 0 ELSE holding.amount

\* cashflow_performance
PerformanceShown ==
  LET books == Fifo(ledger) IN
  Ids # {} /\ books.short = 0 /\ (OpenShares(books) > 0 => Amount > 0)

CashProfit == Amount - Sum(LAMBDA i : Flow(ledger[i]), Ids)

\* trade_behavior_review counts the sales that are matched in full.
Matched(books, sale) ==
  SumOver(LAMBDA m : IF m.sale = sale THEN m.shares ELSE 0, books.matches) = Of(ledger[sale]).shares

ReviewedProfit(books) ==
  SumOver(LAMBDA m : IF Matched(books, m.sale) THEN Profit(m) ELSE 0, books.matches)

\* snapshot_attribution: the last snapshot and the last one of an earlier day
Previous == {s \in DOMAIN snapshots : snapshots[s].day < Last(snapshots).day}
Start == snapshots[Max(Previous)]
End == Last(snapshots)

OnBoundary == {i \in Ids : Of(ledger[i]).day \in {Start.day, End.day}}
Between == {i \in Ids : Of(ledger[i]).day > Start.day /\ Of(ledger[i]).day < End.day}

ChangeShown ==
  /\ Previous # {} /\ Ids # {} /\ Fifo(ledger).short = 0 /\ OnBoundary = {}

Change == End.amount - Start.amount - Sum(LAMBDA i : Flow(ledger[i]), Between)

\* purchase_lot_outcome_snapshots
LotOf(books, i) ==
  [realized |-> SelectSeq(books.matches, LAMBDA m : m.buy = i),
   left |-> SumOver(LAMBDA lot : IF lot.id = i THEN lot.left ELSE 0, books.lots),
   complete |-> books.short = 0,
   agrees |-> /\ books.short = 0
              /\ IF holding = None THEN OpenShares(books) = 0 ELSE holding.shares = OpenShares(books)]

\* evaluate_batch_purchase_attribution, when values are published until day p
AsOf(lot, i, p) ==
  IF lot.left > 0 THEN p
  ELSE Max({Of(ledger[lot.realized[k].sale]).day : k \in DOMAIN lot.realized})

PriceVerified(i, p) == Of(ledger[i]).day <= p /\ ledger[i].price = nav[Of(ledger[i]).day]

ActionsWithin(from, to) == {d \in dividends : from <= d /\ d <= to}

OutcomeShown(lot, i, p) ==
  /\ lot.complete /\ lot.agrees
  /\ PriceVerified(i, p)
  /\ \A k \in DOMAIN lot.realized : PriceVerified(lot.realized[k].sale, p)
  /\ AsOf(lot, i, p) <= p
  /\ ActionsWithin(Of(ledger[i]).day, AsOf(lot, i, p)) = {}

Outcome(lot, i, p) ==
  SumOver(LAMBDA m : Proceeds(ledger[m.sale], m.shares), lot.realized)
    + 2 * lot.left * nav[AsOf(lot, i, p)] - 2 * (Gross(ledger[i]) + Of(ledger[i]).fee)

-----------------------------------------------------------------------------
(* Properties.                                                             *)

\* Everything has its type.
TypeOK ==
  /\ Today \in 1 .. MaxDay /\ Len(trades) <= MaxTrades /\ imported \subseteq 1 .. MaxTrades
  /\ \A i \in Ids : ledger[i].of \in DOMAIN trades /\ ledger[i].price \in Navs
  /\ holding # None => holding.amount > 0
  /\ Len(snapshots) <= MaxSnapshots

\* What rows of one type before the k-th in order come to
Before(order, k, type) ==
  Sum(LAMBDA j : IF j < k /\ Of(ledger[order[j]]).type = type THEN Of(ledger[order[j]]).shares ELSE 0,
      DOMAIN order)

\* First in first out: count the shares that come in and those that go out; a
\* sale takes from a purchase as many as have the same numbers.  Nothing is lost
\* or sold twice, also when rows are entered out of order, twice, or deleted.
LotsMatch ==
  LET books == Fifo(ledger) order == Sorted(ledger)
      matched(b, s) == SumOver(LAMBDA m : IF m.buy = b /\ m.sale = s THEN m.shares ELSE 0, books.matches)
  IN
  /\ \A k \in DOMAIN order :
       LET id == order[k] IN
       IF id \in Sales THEN TRUE
       ELSE Sum(LAMBDA s : matched(id, s), Sales) + LotOf(books, id).left = Of(ledger[id]).shares
  /\ books.short = 0 =>
       \A k, l \in DOMAIN order :
         (order[k] \notin Sales /\ order[l] \in Sales) =>
           LET in == Before(order, k, "buy") out == Before(order, l, "sell") IN
           matched(order[k], order[l]) =
             Max({0, Min({in + Of(ledger[order[k]]).shares, out + Of(ledger[order[l]]).shares})
                       - Max({in, out})})

\* The profit of the cash flows is what the lots have realized and have not; the
\* review of the sales has the former.
FiguresAgree ==
  LET books == Fifo(ledger) IN
  PerformanceShown =>
    /\ CashProfit = Realized(books) + Amount - RemainingCost(books)
    /\ ReviewedProfit(books) = Realized(books)

\* Each trade is in the ledger once, at its price.
Recorded ==
  \A t \in DOMAIN trades :
    \E i \in Ids : /\ ledger[i] = [of |-> t, price |-> nav[trades[t].day]]
                   /\ \A j \in Ids : ledger[j].of = t => j = i

\* A change that is shown is what the shares gained and the fees took, if the
\* ledger is right and the holdings were as confirmed at both ends: no money
\* that was put in or taken out counts as a return.
ChangeIsGain ==
  (snapshots # <<>> /\ ChangeShown /\ Recorded
     /\ Start.amount = 2 * Held(Start.day) * nav[Start.day]
     /\ End.amount = 2 * Held(End.day) * nav[End.day]) =>
    Change = 2 * Sum(LAMBDA d : Held(d) * (nav[d + 1] - nav[d]), Start.day .. End.day - 1)
               - 2 * Sum(LAMBDA i : Of(ledger[i]).fee, Between)

\* An outcome of a purchase that is shown is what its shares gained, each from the
\* day it was bought until it was sold or today's value, after fees, at values
\* that were published: whatever the user entered.
OutcomeIsGain ==
  LET books == Fifo(ledger) IN
  \A i \in Ids \ Sales, p \in 1 .. Today :
    LET lot == LotOf(books, i)
        gain(d) == 2 * (nav[d] - nav[Of(ledger[i]).day]
                          + Cardinality(ActionsWithin(Of(ledger[i]).day + 1, d)))
    IN
    OutcomeShown(lot, i, p) =>
      Outcome(lot, i, p) =
        SumOver(LAMBDA m : m.shares * gain(Of(ledger[m.sale]).day)
                             - (2 * Of(ledger[m.sale]).fee * m.shares) \div Of(ledger[m.sale]).shares,
                lot.realized)
          + lot.left * gain(AsOf(lot, i, p)) - 2 * Of(ledger[i]).fee
=============================================================================
