------------------------------ MODULE MCEngines ------------------------------
(***************************************************************************)
(* The engines that compute what the application shows of the past and of  *)
(* the future, for TLC: the walk-forward of AlphaEngine, the signals of    *)
(* SelectionScores, the simulation of QuantSimulation, the windows of      *)
(* ExecutionBacktest, the amounts of BatchAmounts and the ledger of        *)
(* LotLedger; and the gates that say whether what they show may be used:   *)
(* the incidents of Availability, the strategy of StrategyGovernance and   *)
(* the runs of SelectionRuns.  They share no state: a behaviour is one of  *)
(* a single component, the one in focus, and the variables of the others   *)
(* are 0.                                                                  *)
(***************************************************************************)
EXTENDS Integers, Sequences, FiniteSets, TLC

CONSTANTS
  Assets, LastDate, Ahead, MinTrain, MaxFolds, MinRows, MinSymbols, MinOos, MinEvaluated,
  Stocks, LastSession, Lookback, Skip, Step, MaxStale, MaxStaleRow, MinScore, MaxPositions,
  Target, Cap, MinLoaded, MinSegments, SegmentDays,
  Symbols, LastDay, Every, Capital, Minimum, MaxAge, Capacity, FeeParts,
  Length, Warmup, Horizon, MaxSignals,
  Funds, Limited, Budget, Weights, Capacities, Ratios, Currents, Limit, Base, Spends, Fees,
  Tolerance,
  Components, Probers, FailureThreshold, RecoveryThreshold, Interval, StaleAfter, MaxTime,
  Admins, Callers, ChecksPassed, MaxAudit,
  Runs, Requests, Results, Ready, None, MaxDay,
  Navs, MaxToday, MaxTrades, MaxRows, MaxSnapshots

\* What the theorems about this module rest on.
ASSUME EngineAssumption ==
  /\ MaxAudit \in Nat \ {0} /\ ChecksPassed \in BOOLEAN
  /\ {LastDate, MinTrain} \subseteq Nat /\ {Ahead, MaxFolds} \subseteq Nat \ {0}
  /\ {1, 2, 3} \subseteq Stocks /\ Lookback \in Nat /\ Skip \in Nat /\ Skip <= Lookback
  /\ LastSession \in Int /\ Step \in Nat \ {0}
  /\ {MaxTime, FailureThreshold, RecoveryThreshold} \subseteq Nat
  /\ None \notin Results \cup Ready
  /\ Symbols \subseteq Nat /\ IsFiniteSet(Symbols) /\ Capital \in Nat
  /\ {Minimum, Capacity, FeeParts} \subseteq Nat \ {0} /\ MaxAge \in Nat
  /\ {Length, Warmup} \subseteq Nat /\ Horizon \in Nat \ {0} /\ Warmup < Length

VARIABLES
  focus,
  traded, labelEnd, fold, fitted, oos, calibration, gate, forecasts,
  data, verified, loaded, scored, outcome,
  day, stage, cash, position, orders, pending, todo,
  split, signals, window, index, trades,
  phase, weight, capacity, current, ratio, left, open, share, unit, given, order, fee, spent,
  now, latest, buckets, incident, probe, astray,
  status, audit, admin, caller,
  run, job, executor, mandate, validation, strategy, today, request,
  nav, dividends, dealt, ledger, imported, holding, snapshots, entry

\* One asset trades on every day, the others are suspended from one day to another.
CalendarsDef ==
  LET first == CHOOSE s \in Assets : TRUE IN
  {[s \in Assets |-> IF s = first THEN 1..LastDate ELSE (1..LastDate) \ (gap[1]..gap[2])] :
     gap \in (1..LastDate) \X (2..LastDate)}

Alpha == INSTANCE AlphaEngine WITH
  Symbols <- Assets, LastDay <- LastDate, Horizon <- Ahead, Calendars <- CalendarsDef

\* Stocks that trade always, with a gap, and from late to early; rows that are
\* announced late, or twice for one period; a universe that changes once.
Scores == INSTANCE SelectionScores WITH
  Symbols <- Stocks, LastDay <- LastSession, Every <- Step, signals <- scored, result <- outcome,
  PriceLists <- {<<1, 2, 1, 2, 2, 1, 1>>, <<2, 0, 1, 0, 2, 2, 1>>, <<0, 1, 1, 1, 2, 0, 0>>},
  RowSets <-
    {{[period |-> 1, announced |-> 2, value |-> 1], [period |-> 2, announced |-> 4, value |-> 2]},
     {[period |-> 1, announced |-> 3, value |-> 2], [period |-> 1, announced |-> 4, value |-> 1]}},
  Universes <- {[d \in {1, 4} |-> IF d = 1 THEN {1, 2} ELSE {2, 3}]}

Quant == INSTANCE QuantSimulation

Backtest == INSTANCE ExecutionBacktest

Amounts == INSTANCE BatchAmounts WITH stage <- phase

Incidents == INSTANCE Availability

Governance == INSTANCE StrategyGovernance

Selection == INSTANCE SelectionRuns WITH Policy <- [r \in Runs |-> 1]

\* Trades of one share and of two, with fees and without
Ledger == INSTANCE LotLedger WITH
  Requests <- {1}, MaxDay <- MaxToday, trades <- dealt, request <- entry,
  Forms <- {[type |-> "buy", shares |-> 1, fee |-> 1], [type |-> "buy", shares |-> 2, fee |-> 0],
            [type |-> "sell", shares |-> 1, fee |-> 0], [type |-> "sell", shares |-> 2, fee |-> 1]}

alphaVars == <<traded, labelEnd, fold, fitted, oos, calibration, gate, forecasts>>
scoresVars == <<data, verified, loaded, scored, outcome>>
quantVars == <<day, stage, cash, position, orders, pending, todo>>
backtestVars == <<split, signals, window, index, trades>>
amountsVars ==
  <<phase, weight, capacity, current, ratio, left, open, share, unit, given, order, fee, spent>>
incidentVars == <<now, latest, buckets, incident, probe, astray>>
governanceVars == <<status, audit, admin, caller>>
selectionVars == <<run, job, executor, mandate, validation, strategy, today, request>>
worldVars == <<nav, dividends, dealt>>
ledgerVars == <<worldVars, ledger, imported, holding, snapshots, entry>>

all == <<focus, alphaVars, scoresVars, quantVars, backtestVars, amountsVars, incidentVars,
         governanceVars, selectionVars, ledgerVars>>

\* Lots: what happened in two days is entered afterwards, one wrong price at most.
LotsOnly ==
  /\ UNCHANGED snapshots /\ nav'[1] = 1 /\ Len(nav') <= 2
  /\ worldVars' # worldVars => ledger = <<>> /\ holding = None /\ entry[1] = Ledger!Idle
  /\ holding' # holding => ledger = <<>> /\ entry[1] = Ledger!Idle /\ holding'.shares # None
  /\ Cardinality({i \in DOMAIN ledger' :
       ledger'[i] # None /\ ledger'[i].price # nav[dealt[ledger'[i].of].day]}) <= 1

\* Changes: statements are imported between confirmations and snapshots.
ChangesOnly ==
  /\ Len(dealt') <= 2 /\ UNCHANGED dividends
  /\ entry'[1] # Ledger!Idle => entry'[1].file > 0
  /\ \A i \in DOMAIN ledger : ledger'[i] = ledger[i]
  /\ holding' # None => holding'.shares = None

MCInit ==
  /\ focus \in {"alpha", "scores", "quant", "backtest", "amounts", "incidents", "governance",
               "selection", "lots", "changes"}
  /\ IF focus = "alpha" THEN Alpha!Init
     ELSE /\ traded = 0 /\ labelEnd = 0 /\ fold = 0 /\ fitted = 0 /\ oos = 0
          /\ calibration = 0 /\ gate = 0 /\ forecasts = 0
  /\ IF focus = "scores" THEN Scores!Init
     ELSE /\ data = 0 /\ verified = 0 /\ loaded = 0 /\ scored = 0 /\ outcome = 0
  /\ IF focus = "quant" THEN Quant!Init
     ELSE /\ day = 0 /\ stage = 0 /\ cash = 0 /\ position = 0 /\ orders = 0
          /\ pending = 0 /\ todo = 0
  /\ IF focus = "backtest" THEN Backtest!Init /\ Cardinality(signals) <= MaxSignals
     ELSE /\ split = 0 /\ signals = 0 /\ window = 0 /\ index = 0 /\ trades = 0
  /\ IF focus = "amounts" THEN Amounts!Init
     ELSE /\ phase = 0 /\ weight = 0 /\ capacity = 0 /\ current = 0 /\ ratio = 0
          /\ left = 0 /\ open = 0 /\ share = 0 /\ unit = 0 /\ given = 0 /\ order = 0
          /\ fee = 0 /\ spent = 0
  /\ IF focus = "incidents" THEN Incidents!Init
     ELSE /\ now = 0 /\ latest = 0 /\ buckets = 0 /\ incident = 0 /\ probe = 0 /\ astray = 0
  /\ IF focus = "governance" THEN Governance!Init
     ELSE /\ status = 0 /\ audit = 0 /\ admin = 0 /\ caller = 0
  /\ IF focus = "selection" THEN Selection!Init
     ELSE /\ run = 0 /\ job = 0 /\ executor = 0 /\ mandate = 0 /\ validation = 0
          /\ strategy = 0 /\ today = 0 /\ request = 0
  /\ IF focus \in {"lots", "changes"} THEN Ledger!Init
     ELSE /\ nav = 0 /\ dividends = 0 /\ dealt = 0 /\ ledger = 0 /\ imported = 0 /\ holding = 0
          /\ snapshots = 0 /\ entry = 0

MCNext ==
  /\ UNCHANGED focus
  /\ \/ /\ focus = "alpha" /\ Alpha!Next
        /\ UNCHANGED <<scoresVars, quantVars, backtestVars, amountsVars, incidentVars,
                      governanceVars, selectionVars, ledgerVars>>
     \/ /\ focus = "scores" /\ Scores!Next
        /\ UNCHANGED <<alphaVars, quantVars, backtestVars, amountsVars, incidentVars,
                      governanceVars, selectionVars, ledgerVars>>
     \/ /\ focus = "quant" /\ Quant!Next
        /\ UNCHANGED <<alphaVars, scoresVars, backtestVars, amountsVars, incidentVars,
                      governanceVars, selectionVars, ledgerVars>>
     \/ /\ focus = "backtest" /\ Backtest!Next
        /\ UNCHANGED <<alphaVars, scoresVars, quantVars, amountsVars, incidentVars,
                      governanceVars, selectionVars, ledgerVars>>
     \/ /\ focus = "amounts" /\ Amounts!Next
        /\ UNCHANGED <<alphaVars, scoresVars, quantVars, backtestVars, incidentVars,
                      governanceVars, selectionVars, ledgerVars>>
     \/ /\ focus = "incidents" /\ Incidents!Next
        /\ UNCHANGED <<alphaVars, scoresVars, quantVars, backtestVars, amountsVars,
                      governanceVars, selectionVars, ledgerVars>>
     \/ /\ focus = "governance" /\ Governance!Next
        /\ UNCHANGED <<alphaVars, scoresVars, quantVars, backtestVars, amountsVars,
                      incidentVars, selectionVars, ledgerVars>>
     \/ /\ focus = "selection" /\ Selection!Next
        /\ UNCHANGED <<alphaVars, scoresVars, quantVars, backtestVars, amountsVars,
                      incidentVars, governanceVars, ledgerVars>>
     \/ /\ focus \in {"lots", "changes"} /\ Ledger!Next
        /\ IF focus = "lots" THEN LotsOnly ELSE ChangesOnly
        /\ UNCHANGED <<alphaVars, scoresVars, quantVars, backtestVars, amountsVars,
                      incidentVars, governanceVars, selectionVars>>

MCSpec == MCInit /\ [][MCNext]_all

-----------------------------------------------------------------------------
\* Every variable of every engine keeps its type.
TypesOK ==
  /\ focus = "alpha" => Alpha!TypeOK
  /\ focus = "scores" => Scores!TypeOK
  /\ focus = "quant" => Quant!TypeOK
  /\ focus = "backtest" => Backtest!TypeOK
  /\ focus = "amounts" => Amounts!TypeOK
  /\ focus = "incidents" => Incidents!TypeOK
  /\ focus = "governance" => Governance!TypeOK
  /\ focus = "selection" => Selection!TypeOK
  /\ focus \in {"lots", "changes"} => Ledger!TypeOK

\* A model predicts days that none of its labels reaches, what a gate let pass
\* was measured on later rows (AlphaEngine), a signal is the one its day's
\* knowledge gives (SelectionScores), and a window is simulated on bars of its
\* own (ExecutionBacktest).
PastAndFutureAreSeparate ==
  /\ focus = "alpha" => Alpha!PredictedFromThePast /\ Alpha!PublishedWasMeasured
  /\ focus = "scores" => Scores!SignalsAreTimely
  /\ focus = "backtest" => Backtest!WindowsAreSeparate

\* The money of every order is accounted for, and none is borrowed
\* (QuantSimulation); weights keep their caps (SelectionScores), what a batch is
\* given, orders and spends keeps the budget and its limits (BatchAmounts); a
\* ledger's lots are taken first in first out, with the profit of its cash flows,
\* and a return that is shown is one that was made (LotLedger).
BooksBalance ==
  /\ focus = "quant" => Quant!OrdersAddUp /\ Quant!NeverBorrows
  /\ focus = "scores" => Scores!TargetsFit
  /\ focus = "amounts" =>
       Amounts!SharesAreFair /\ Amounts!GivenKeepsItsLimits /\ Amounts!SpendingFits
  /\ focus = "lots" => Ledger!LotsMatch /\ Ledger!FiguresAgree /\ Ledger!OutcomeIsGain
  /\ focus = "changes" => Ledger!ChangeIsGain

\* The gates tell the truth: the latest snapshot knows every incident that is open,
\* but for those of a probe recorded late, and shows none it knows as operational
\* (Availability); what is tried on paper is
\* the one result of a run (SelectionRuns), which lacked nothing (SelectionScores).
GatesAreTrue ==
  /\ focus = "incidents" => Incidents!OpenIncidentsAreKnown /\ Incidents!IncidentsShow
  /\ focus = "selection" => Selection!PaperIsBacked
  /\ focus = "scores" => Scores!ReadyIsComplete

\* A use is allowed only while the strategy is released, and no strategy skips
\* a stage on its way there (StrategyGovernance).
AllowedIsReleased ==
  [][focus = "governance" => Governance!Allowing /\ Governance!StagesAreInOrder']_all
=============================================================================
