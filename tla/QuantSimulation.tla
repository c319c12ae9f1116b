-------------------------- MODULE QuantSimulation --------------------------
(***************************************************************************)
(* The execution simulation of a quant selection                           *)
(* (quant_selection_engine._simulate_core): session by session, the orders *)
(* of the last rebalance are tried against what the market trades, sells   *)
(* before buys; after the close of a signal day what is left of them is    *)
(* replaced by the orders towards the new targets.                         *)
(*                                                                         *)
(* Amounts are whole units of money.  A position is its value at the       *)
(* latest price, which moves by at most a unit at every open.  How a       *)
(* signal scores its members is left out: the targets are any that spend   *)
(* no more than the equity.                                                *)
(***************************************************************************)
EXTENDS Integers, Sequences, FiniteSets, FiniteSetsExt

CONSTANTS Symbols,       \* a set of numbers, in the order of their names
          LastDay, Every, \* sessions, and the rebalance_days between signals
          Capital,
          Minimum,       \* minimum_order_notional
          MaxAge,        \* max_order_age_sessions
          Capacity,      \* the most a session trades of a symbol
          FeeParts       \* commission and tax: one part in FeeParts

VARIABLES
  day,       \* the session, from the first signal day on
  stage,     \* "open", "trading", "ended"
  cash,
  position,  \* position[s]: what is held of s is worth
  orders,    \* every order submitted, in the order of their ids
  pending,   \* ids of orders that wait for a session
  todo       \* ids of orders yet to be tried in this one

vars == <<day, stage, cash, position, orders, pending, todo>>

Fee(n) == n \div FeeParts

\* Mutant: the commission comes on top.
AffordableBeforeFees(c) == c

\* What cash pays for, commission included.
Affordable(c) == Max({n \in 0..c : n + Fee(n) <= c})

Init ==
  /\ day = 0 /\ stage = "open" /\ cash = Capital
  /\ position = [s \in Symbols |-> 0]
  /\ orders = <<>> /\ pending = {} /\ todo = {}

\* A session opens at new prices; every pending order is of an earlier close.
Open ==
  /\ stage = "open" /\ stage' = "trading"
  /\ position' \in {p \in [Symbols -> 0..2 * Capital + 1] :
                      \A s \in Symbols : IF position[s] = 0 THEN p[s] = 0
                                         ELSE p[s] - position[s] \in {-1, 0, 1}}
  /\ todo' = pending /\ pending' = {}
  /\ UNCHANGED <<day, cash, orders>>

\* cancel_order
Cancelled(o) == [o EXCEPT !.cancelled = @ + o.remaining, !.remaining = 0, !.ends = @ + 1]

\* One more session without completion: the order ends or waits.
Attempt(i, o) ==
  LET again == [o EXCEPT !.attempts = @ + 1] IN
  IF again.attempts >= MaxAge
  THEN orders' = [orders EXCEPT ![i] = Cancelled(again)] /\ UNCHANGED pending
  ELSE orders' = [orders EXCEPT ![i] = again] /\ pending' = pending \cup {i}

\* An order that is left with less than the minimum is filled, the rest is dust.
Fill(i, n) ==
  LET o == [orders[i] EXCEPT !.filled = @ + n, !.remaining = @ - n] IN
  IF o.remaining >= Minimum THEN Attempt(i, o)
  ELSE /\ orders' = [orders EXCEPT ![i] = [o EXCEPT !.dust = o.remaining,
                                                    !.remaining = 0, !.ends = @ + 1]]
       /\ UNCHANGED pending

Sells == {i \in todo : orders[i].side = "sell"}

\* The order tried next.
Tried == IF Sells # {} THEN Min(Sells) ELSE Min(todo)

\* The symbol has no bar, or is suspended, or nothing of it trades.
Untradable(i) == Attempt(i, orders[i]) /\ UNCHANGED <<cash, position>>

Sell(i, capacity) ==
  LET s == orders[i].symbol
      n == Min({orders[i].remaining, capacity, position[s]})
  IN  /\ orders[i].side = "sell"
      /\ IF n = 0
         THEN /\ orders' = [orders EXCEPT ![i] = Cancelled(orders[i])]
              /\ UNCHANGED <<cash, position, pending>>
         ELSE /\ Fill(i, n)
              /\ position' = [position EXCEPT ![s] = @ - n]
              /\ cash' = cash + n - Fee(n)

Buy(i, capacity) ==
  LET s == orders[i].symbol
      n == Min({orders[i].remaining, capacity, Affordable(cash)})
  IN  /\ orders[i].side = "buy"
      /\ IF n < Minimum THEN Untradable(i)
         ELSE /\ Fill(i, n)
              /\ position' = [position EXCEPT ![s] = @ + n]
              /\ cash' = cash - n - Fee(n)

Try ==
  /\ stage = "trading" /\ todo # {}
  /\ LET i == Tried IN
     /\ todo' = todo \ {i}
     /\ \/ Untradable(i)
        \/ \E c \in 1..Capacity : Sell(i, c) \/ Buy(i, c)
  /\ UNCHANGED <<day, stage>>

Equity == cash + MapThenSumSet(LAMBDA s : position[s], Symbols)

\* The targets of a signal: desired values within the equity.
Targets ==
  {d \in [Symbols -> 0..Equity] : MapThenSumSet(LAMBDA s : d[s], Symbols) <= Equity}

Order(s, want) ==
  LET delta == want - position[s]
      size == IF delta > 0 THEN delta ELSE -delta
  IN  [symbol |-> s, side |-> IF delta > 0 THEN "buy" ELSE "sell", signal |-> day,
       requested |-> size, remaining |-> size, filled |-> 0, cancelled |-> 0,
       dust |-> 0, attempts |-> 0, ends |-> 0]

\* The orders towards the targets, by symbol; small changes are left alone.
Proposed(d) ==
  LET wanted == {s \in Symbols : Order(s, d[s]).requested >= Minimum}
      nth(k) == CHOOSE s \in wanted : Cardinality({x \in wanted : x <= s}) = k
  IN  [k \in 1..Cardinality(wanted) |-> Order(nth(k), d[nth(k)])]

\* Mutant: pending orders are forgotten.
ReplacedSilently == orders

\* What the next signal, or the end of the simulation, leaves of an order.
Replaced == [i \in DOMAIN orders |-> IF i \in pending THEN Cancelled(orders[i]) ELSE orders[i]]

\* The close: a signal replaces what is pending; there is none on the last day.
Close ==
  /\ stage = "trading" /\ todo = {}
  /\ IF day = LastDay
     THEN stage' = "ended" /\ orders' = Replaced /\ pending' = {} /\ UNCHANGED day
     ELSE /\ stage' = "open" /\ day' = day + 1
          /\ IF day % Every = 0
             THEN \E d \in Targets :
                    /\ orders' = Replaced \o Proposed(d)
                    /\ pending' = Len(orders) + 1 .. Len(orders) + Len(Proposed(d))
             ELSE UNCHANGED <<orders, pending>>
  /\ UNCHANGED <<cash, position, todo>>

Next == Open \/ Try \/ Close

Spec == Init /\ [][Next]_vars

-----------------------------------------------------------------------------
TypeOK ==
  /\ day \in 0..LastDay /\ stage \in {"open", "trading", "ended"}
  /\ cash \in Int /\ position \in [Symbols -> Int]
  /\ \A i \in DOMAIN orders : orders[i].symbol \in Symbols /\ orders[i].signal \in 0..LastDay
  /\ pending \cup todo \subseteq DOMAIN orders

\* The money of every order is accounted for to the end: what was requested is
\* filled, cancelled, left as dust below the minimum, or still asked for by an
\* order that waits; and an order ends once, at the latest with the simulation.
\* (unfilled_requested_pct, which the promotion gate reads, rests on it.)
OrdersAddUp ==
  \A i \in DOMAIN orders : LET o == orders[i] IN
    /\ o.requested = o.filled + o.cancelled + o.dust + o.remaining
    /\ o.dust < Minimum
    /\ o.ends = IF i \in pending \cup todo THEN 0 ELSE 1
    /\ o.ends = 1 => o.remaining = 0

\* The simulation never borrows and never sells what it does not hold, whatever
\* trades and in whichever session the proceeds come in.
NeverBorrows == cash >= 0 /\ \A s \in Symbols : position[s] >= 0
=============================================================================
