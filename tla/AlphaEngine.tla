---------------------------- MODULE AlphaEngine ----------------------------
(***************************************************************************)
(* One horizon of a probability forecast                                   *)
(* (alpha_forecast_engine.run_alpha_forecast_research): which days of which *)
(* assets the base models of the walk-forward folds, the calibrator, the   *)
(* historical gate and the published forecasts rest on.                    *)
(*                                                                         *)
(* A row is an asset on a day; its label is known Horizon sessions of that *)
(* asset later.  Assets do not all trade on every day, so the label of a   *)
(* suspended asset ends late.  Prices, features and probabilities are      *)
(* left out: whether a fold has both kinds of label, and whether the       *)
(* measures of the evaluation pass, is either way.                         *)
(***************************************************************************)
EXTENDS Integers, FiniteSets, FiniteSetsExt

CONSTANTS Symbols, LastDay,
          Calendars,     \* functions from assets to the days they may trade
          Horizon,       \* sessions a forecast looks ahead
          MinTrain,      \* minimum_training_dates
          MaxFolds,      \* 5 in the code
          MinRows,       \* 120 rows to fit a fold
          MinSymbols,    \* 4 assets to fit a fold
          MinOos,        \* 4 out-of-sample days to go on
          MinEvaluated   \* minimum_samples and _dates of the gate

VARIABLES
  traded,       \* traded[s]: the days asset s has a price
  labelEnd,     \* labelEnd[r]: the day the label of r is known, if ever
  fold,         \* folds of the walk-forward done so far
  fitted,       \* fitted[k]: the rows the base model of fold k learnt from
  oos,          \* oos[r]: the fold that predicted row r
  calibration,  \* the rows the calibrator of the gate learnt from
  gate,         \* "open" until evaluated, then "passed" or "abstain"
  forecasts     \* the rows a probability is forecast for, once done

vars == <<traded, labelEnd, fold, fitted, oos, calibration, gate, forecasts>>

Days == 1..LastDay
Rows == Symbols \X Days
Empty == [r \in {} |-> 0]

\* label_end_date of an asset that trades on these days: the day Horizon rows
\* further down its own frame.
Label(days) ==
  LET later == [d \in days |-> {e \in days : e > d}] IN
  [d \in {x \in days : Cardinality(later[x]) >= Horizon} |->
     CHOOSE e \in later[d] : Cardinality({x \in later[d] : x <= e}) = Horizon]

\* The frames _normalize_price_frame leaves are those of one of the calendars.
Init ==
  /\ traded \in Calendars
  /\ labelEnd = LET label == [s \in Symbols |-> Label(traded[s])] IN
                [r \in {x \in Rows : x[2] \in DOMAIN label[x[1]]} |-> label[r[1]][r[2]]]
  /\ fold = 0 /\ fitted = Empty /\ oos = Empty
  /\ calibration = {} /\ gate = "open" /\ forecasts = {}

Dates == {r[2] : r \in DOMAIN labelEnd}

\* The place of day d in Dates behind what minimum_training_dates takes.
Place(d) == Cardinality({e \in Dates : e <= d}) - MinTrain

Folds ==
  LET n == Cardinality(Dates) IN
  IF n < MinTrain + 2 * Horizon THEN 0
  ELSE Min({MaxFolds, Max({2, (n - MinTrain) \div Horizon})})

\* np.array_split: the first chunks are one longer than the last.
First(k) ==
  LET left == Cardinality(Dates) - MinTrain
  IN  (k - 1) * (left \div Folds) + Min({k - 1, left % Folds}) + 1

TestStart(k) == CHOOSE d \in Dates : Place(d) = First(k)

\* chunk[::horizon]
TestDates(k) ==
  LET first == First(k)  beyond == First(k + 1) IN
  {d \in Dates : LET i == Place(d) IN
                 i >= first /\ i < beyond /\ (i - first) % Horizon = 0}

\* Mutant: rows are taken by their own dates.
PurgedByDate(start) == {r \in DOMAIN labelEnd : r[2] < start}

\* Purging: the label ends before the first date of the chunk.
Purged(start) == {r \in DOMAIN labelEnd : labelEnd[r] < start}

Tested(k) == LET dates == TestDates(k) IN {r \in DOMAIN labelEnd : r[2] \in dates}

\* One fold; one without enough rows, assets or kinds of label is skipped.
Fold ==
  /\ fold < Folds /\ fold' = fold + 1
  /\ LET train == Purged(TestStart(fold'))
         tested == Tested(fold')
         able == /\ Cardinality(train) >= MinRows
                 /\ Cardinality({r[1] : r \in train}) >= MinSymbols
     IN  \/ /\ able
            /\ fitted' = [k \in DOMAIN fitted \cup {fold'} |-> IF k = fold' THEN train ELSE fitted[k]]
            /\ oos' = [r \in DOMAIN oos \cup tested |-> IF r \in tested THEN fold' ELSE oos[r]]
         \/ UNCHANGED <<fitted, oos>>
  /\ UNCHANGED <<traded, labelEnd, calibration, gate, forecasts>>

\* The earlier days calibrate, the later ones evaluate: the split is at
\* max(2, min(n - 2, ceil(0.55 n))).
Calibrating ==
  LET dates == {r[2] : r \in DOMAIN oos}
      n == Cardinality(dates)
      split == Max({2, Min({n - 2, (55 * n + 99) \div 100})})
      early == {d \in dates : Cardinality({e \in dates : e <= d}) <= split}
  IN  {r \in DOMAIN oos : r[2] \in early}

\* Mutant: the gate judges every out-of-sample row.
EvaluationOfAll == DOMAIN oos

Evaluation == DOMAIN oos \ calibration

\* The gate of _gate: enough was evaluated, and every measure is good.
Enough(rows) ==
  /\ Cardinality(rows) >= MinEvaluated
  /\ Cardinality({r[1] : r \in rows}) >= MinSymbols

Calibrate ==
  /\ fold = Folds /\ gate = "open" /\ calibration = {}
  /\ IF Cardinality({r[2] : r \in DOMAIN oos}) < MinOos THEN gate' = "abstain" /\ UNCHANGED calibration
     ELSE calibration' = Calibrating /\ UNCHANGED gate
  /\ UNCHANGED <<traded, labelEnd, fold, fitted, oos, forecasts>>

Judge ==
  /\ gate = "open" /\ calibration # {}
  /\ gate' \in IF Enough(Evaluation) /\ Cardinality(calibration) >= MinEvaluated
               THEN {"passed", "abstain"} ELSE {"abstain"}
  /\ UNCHANGED <<traded, labelEnd, fold, fitted, oos, calibration, forecasts>>

\* The last row of every asset, labelled or not (_latest_forecasts).
Latest == {r \in Rows : r[2] \in traded[r[1]] /\ \A d \in traded[r[1]] : d <= r[2]}

\* Base model on every labelled row, calibrator on every out-of-sample row.
Forecast ==
  /\ gate # "open" /\ calibration # {} /\ forecasts = {}
  /\ forecasts' = Latest
  /\ UNCHANGED <<traded, labelEnd, fold, fitted, oos, calibration, gate>>

Next == Fold \/ Calibrate \/ Judge \/ Forecast

Spec == Init /\ [][Next]_vars

-----------------------------------------------------------------------------
TypeOK ==
  /\ traded \in [Symbols -> SUBSET Days]
  /\ DOMAIN labelEnd \subseteq Rows /\ \A r \in DOMAIN labelEnd : labelEnd[r] \in traded[r[1]]
  /\ fold \in 0..MaxFolds
  /\ DOMAIN fitted \subseteq 1..MaxFolds /\ \A k \in DOMAIN fitted : fitted[k] \subseteq Rows
  /\ DOMAIN oos \subseteq Rows /\ \A r \in DOMAIN oos : oos[r] \in DOMAIN fitted
  /\ calibration \subseteq DOMAIN oos
  /\ gate \in {"open", "passed", "abstain"}
  /\ forecasts \subseteq Rows

\* What a row was predicted, calibrated or evaluated from rests on the base
\* models behind it alone: none of them saw a label that ends on the day of a
\* row it predicted or later, however the assets traded.
PredictedFromThePast ==
  \A r \in DOMAIN oos : \A t \in fitted[oos[r]] : labelEnd[t] < r[2]

\* A published probability was measured: its gate judged at least the rows it
\* asks for, each of them later than every row that calibrated, and no row did both.
PublishedWasMeasured ==
  gate = "passed" =>
    /\ Enough(Evaluation)
    /\ \A e \in Evaluation, c \in calibration : c[2] < e[2]

\* What the result itself says of its method
\* (alpha_forecast_engine.py: "final metrics use later untouched out-of-sample
\* dates"): no label the calibrator learnt from reaches into the evaluation.
EvaluationIsUntouched ==
  \A e \in Evaluation, c \in calibration : calibration # {} => labelEnd[c] < e[2]

\* A forecast is made from what was known on the day it is dated.
ForecastKnowsThePast ==
  \A f \in forecasts : \A t \in DOMAIN labelEnd : labelEnd[t] <= f[2]
=============================================================================
