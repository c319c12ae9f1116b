--------------------------- MODULE SelectionScores ---------------------------
(***************************************************************************)
(* What a selection run computes around the simulation of its orders       *)
(* (QuantSimulation): assets are loaded (quant_selection_service.py), on   *)
(* every signal day the members of the universe are scored by what was     *)
(* known then and the best get weights, and a gate says whether the result *)
(* may be tried on paper (quant_selection_engine.py).                      *)
(*                                                                         *)
(* Of the factors there is one of prices, momentum, and one of what is     *)
(* disclosed; a valuation is a row that is announced on the day it is of.  *)
(* Percentiles are not clipped, which changes nothing among a few symbols, *)
(* and how the orders turned out is a choice.                              *)
(***************************************************************************)
EXTENDS Integers, Sequences, FiniteSets, SequencesExt, FiniteSetsExt

CONSTANTS
  Symbols,       \* numbers, which order symbols that score the same
  LastDay,
  PriceLists,    \* closes by day, 0 where a symbol does not trade
  RowSets,       \* what a symbol discloses: [period, announced, value]
  Universes,     \* members by the day on which a snapshot takes effect
  Lookback, Skip, Every, MaxStale, MaxStaleRow,
  MinScore, MaxPositions, Target, Cap,
  MinLoaded, MinSegments, SegmentDays

VARIABLES
  data,          \* what providers have: prices, rows, universe
  verified,      \* the universe is a complete historical sequence
  loaded,        \* what each asset was loaded with, or whether it failed
  signals,       \* of the signal days that are done
  result

vars == <<data, verified, loaded, signals, result>>

NoResult == [end |-> "none", ready |-> FALSE, partial |-> FALSE]

Init ==
  /\ data \in [prices : [Symbols -> PriceLists], rows : [Symbols -> RowSets], universe : Universes]
  /\ verified \in BOOLEAN
  /\ loaded = [s \in Symbols |-> "none"]
  /\ signals = <<>> /\ result = NoResult

-----------------------------------------------------------------------------
(* Loading: threads fetch the assets, whichever comes first.               *)

Candidates == UNION Range(data.universe)

\* _load_asset: without raw prices the adjusted ones stand in for them
Load(s) ==
  /\ s \in Candidates /\ loaded[s] = "none"
  /\ \E o \in {"pair", "fallback", "failed"} : loaded' = [loaded EXCEPT ![s] = o]
  /\ UNCHANGED <<data, verified, signals, result>>

AllLoaded == \A s \in Candidates : loaded[s] # "none"
Usable == {s \in Candidates : loaded[s] \in {"pair", "fallback"}}

-----------------------------------------------------------------------------
(* One signal day, from what is known, k.                                  *)

\* _members_for
Members(k, d) ==
  LET effective == {a \in DOMAIN k.universe : a <= d} IN
  IF effective = {} THEN {} ELSE k.universe[Max(effective)]

\* The days until d on which s trades
History(k, s, d) == {i \in 1 .. d : k.prices[s][i] > 0}

HasHistory(k, s, d) ==
  LET h == History(k, s, d) IN Cardinality(h) > Lookback /\ d - Max(h) <= MaxStale

\* The n-th last of these days
Back(h, n) == CHOOSE i \in h : Cardinality({j \in h : j <= i}) = Cardinality(h) - n

\* Closes are 1 or 2: their ratio, in halves
Momentum(k, s, d) ==
  LET h == History(k, s, d) close(n) == k.prices[s][Back(h, n)] IN
  (2 * close(Skip)) \div close(Lookback)

\* _point_in_time_fundamental_values: what was announced, the latest period first
Disclosed(k, s, d) == {r \in k.rows[s] : r.announced <= d /\ r.period <= d}

Latest(k, s, d) ==
  CHOOSE r \in Disclosed(k, s, d) : \A x \in Disclosed(k, s, d) :
    x.period < r.period \/ (x.period = r.period /\ x.announced <= r.announced)

HasRow(k, s, d) == Disclosed(k, s, d) # {} /\ d - Latest(k, s, d).period <= MaxStaleRow

Priced(k, d) == {s \in Members(k, d) \cap Usable : HasHistory(k, s, d)}
Eligible(k, d) == {s \in Priced(k, d) : HasRow(k, s, d)}

\* _rank_percentiles: the average rank of ties, doubled
Rank(f, s) ==
  2 * Cardinality({x \in DOMAIN f : f[x] < f[s]}) + Cardinality({x \in DOMAIN f : f[x] = f[s]}) + 1

Percentile(f, s) ==
  IF Cardinality(DOMAIN f) = 1 THEN 50 ELSE (50 * Rank(f, s)) \div Cardinality(DOMAIN f)

\* _factor_snapshot: the two factors weigh the same
Scores(k, d) ==
  LET momentum == [s \in Eligible(k, d) |-> Momentum(k, s, d)]
      quality == [s \in Eligible(k, d) |-> Latest(k, s, d).value]
  IN [s \in Eligible(k, d) |-> (Percentile(momentum, s) + Percentile(quality, s)) \div 2]

\* The best that score enough
Selected(scores) ==
  LET before(x, y) == scores[x] > scores[y] \/ (scores[x] = scores[y] /\ x < y)
      enough == {s \in DOMAIN scores : scores[s] >= MinScore}
  IN {s \in enough : Cardinality({x \in enough : before(x, s)}) < MaxPositions}

\* _capped_weights: what would exceed the cap gets it, and the others share the rest
Shares(raw) ==
  LET share[full \in SUBSET DOMAIN raw] ==
        LET open == DOMAIN raw \ full
            left == Target - Cap * Cardinality(full)
            sum == MapThenSumSet(LAMBDA x : raw[x], open)
            over == {s \in open : left * raw[s] > Cap * sum}
        IN IF over = {} THEN [s \in DOMAIN raw |-> IF s \in full THEN Cap ELSE (left * raw[s]) \div sum]
           ELSE share[full \cup over]
  IN share[{}]

\* _target_weights, by what a score is above 45
Targets(scores) == Shares([s \in Selected(scores) |-> Max({1, scores[s] - 45})])

\* The signal days of _simulate_core
SignalDays == {d \in Lookback + 1 .. LastDay - 1 : (d - Lookback - 1) % Every = 0}
Pending == {d \in SignalDays : \A i \in DOMAIN signals : signals[i].day < d}

Signal ==
  /\ AllLoaded /\ Cardinality(Usable) >= MinLoaded /\ result = NoResult /\ Pending # {}
  /\ LET d == Min(Pending) scores == Scores(data, d) IN
     signals' = Append(signals,
       [day |-> d, observed |-> Cardinality(Priced(data, d)), scores |-> scores,
        targets |-> Targets(scores)])
  /\ UNCHANGED <<data, verified, loaded, result>>

-----------------------------------------------------------------------------
(* The end: execute_run, _promotion_gate.                                  *)

GiveUp ==
  /\ AllLoaded /\ Cardinality(Usable) < MinLoaded /\ result = NoResult
  /\ result' = [NoResult EXCEPT !.end = "failed"] /\ UNCHANGED <<data, verified, loaded, signals>>

\* professional_source_coverage_pct is 100
Professional == \A s \in Candidates : loaded[s] = "pair"

Sum(f(_)) == MapThenSumSet(f, DOMAIN signals)

\* coverage_pct of fundamentals
Covered ==
  100 * Sum(LAMBDA i : Cardinality(DOMAIN signals[i].scores))
    >= 80 * Max({1, Sum(LAMBDA i : signals[i].observed)})

\* _walk_forward_segments: windows that follow one another, the last one if it
\* is half of a window at least
Segments ==
  LET first == Min(SignalDays) IN
  {<<a, Min({a + SegmentDays, LastDay})>> :
     a \in {x \in first .. LastDay - 1 : /\ (x - first) % SegmentDays = 0
                                         /\ 2 * (LastDay - x + 1) >= SegmentDays}}

Finish ==
  /\ AllLoaded /\ Cardinality(Usable) >= MinLoaded /\ result = NoResult /\ Pending = {}
  /\ \E ahead \in SUBSET Segments, performs \in BOOLEAN :
       result' = [end |-> "done",
                  ready |-> /\ verified /\ Professional /\ Covered /\ performs
                            /\ Cardinality(Segments) >= MinSegments
                            /\ 10 * Cardinality(ahead) >= 6 * Cardinality(Segments),
                  partial |-> ~verified \/ \E s \in Candidates : loaded[s] # "pair"]
  /\ UNCHANGED <<data, verified, loaded, signals>>

Next == (\E s \in Symbols : Load(s)) \/ Signal \/ GiveUp \/ Finish

Spec == Init /\ [][Next]_vars

-----------------------------------------------------------------------------
(* Properties.                                                             *)

\* Everything has its type.
TypeOK ==
  /\ loaded \in [Symbols -> {"none", "pair", "fallback", "failed"}]
  /\ result \in [end : {"none", "failed", "done"}, ready : BOOLEAN, partial : BOOLEAN]
  /\ \A i \in DOMAIN signals :
       /\ signals[i].day \in SignalDays
       /\ DOMAIN signals[i].targets \subseteq DOMAIN signals[i].scores

\* What the application could know on day d
Known(d) ==
  [prices |-> [s \in Symbols |-> [i \in 1 .. d |-> data.prices[s][i]]],
   rows |-> [s \in Symbols |-> {r \in data.rows[s] : r.announced <= d}],
   universe |-> [a \in {x \in DOMAIN data.universe : x <= d} |-> data.universe[a]]]

\* Every signal is the one that its day's knowledge gives: neither later prices
\* nor rows that were announced later nor members that joined later move it.
SignalsAreTimely ==
  \A i \in DOMAIN signals : signals[i].scores = Scores(Known(signals[i].day), signals[i].day)

\* Targets stay within the cap and what may be invested, for any scores; and
\* what scores more does not weigh less.
TargetsFit ==
  \A i \in DOMAIN signals :
    LET t == signals[i].targets IN
    /\ MapThenSumSet(LAMBDA s : t[s], DOMAIN t) <= Target
    /\ Cardinality(DOMAIN t) <= MaxPositions
    /\ \A s, x \in DOMAIN t :
         t[s] <= Cap /\ (signals[i].scores[s] > signals[i].scores[x] => t[s] >= t[x])

\* A result that may be tried on paper lacks nothing: no candidate of any day
\* failed to load or traded at prices that are not its own.
ReadyIsComplete ==
  result.ready =>
    /\ ~result.partial /\ Usable = Candidates
    /\ \A i \in DOMAIN signals : Members(data, signals[i].day) \subseteq Usable
=============================================================================
