------------------------- MODULE ExecutionBacktest -------------------------
(***************************************************************************)
(* The execution backtest of one stock (backtest.py): long trades from the *)
(* signals of a price frame, one at a time, over a window of it; and the   *)
(* windows whose results are held against each other, the earlier and the  *)
(* later part (build_execution_robustness) or four periods.                *)
(*                                                                         *)
(* Of a bar only its place counts.  Whether a trade is stopped, reaches    *)
(* its target or runs out of time on a bar is either way, and so is        *)
(* whether the bars allow an entry at all.                                 *)
(***************************************************************************)
EXTENDS Integers, FiniteSets, FiniteSetsExt

CONSTANTS Length,   \* rows of the frame
          Warmup,   \* 60 rows without a score
          Horizon   \* bars a trade is held at most

VARIABLES
  split,    \* the windows under comparison: "holdout" or "periods"
  signals,  \* rows whose score reaches entry_score
  window,   \* the window being simulated
  index,    \* the row the simulation is at
  trades    \* the trades so far, of every window

vars == <<split, signals, window, index, trades>>

Rows == 0..Length - 1

\* Where the windows begin, the end of the frame last (np.linspace, the 0.60).
Bounds(kind) ==
  LET left == Length - Warmup IN
  IF kind = "holdout"
  THEN [i \in 0..2 |-> <<Warmup, Warmup + (left * 3) \div 5, Length>>[i + 1]]
  ELSE [i \in 0..4 |-> Warmup + (left * i) \div 4]

Windows == IF split = "holdout" THEN 1..2 ELSE 1..4

Start(w) == Bounds(split)[w - 1]
End(w) == Bounds(split)[w]

\* Mutant: the entry is a bar later than the signal.
LatestSignalAtEnd(end) == end - Horizon

\* _score_window: the signals whose longest trade stays in [start, end).
LatestSignal(end) == end - Horizon - 1

ScoreWindow(w) == {i \in signals : i >= Start(w) /\ i <= LatestSignal(End(w))}

\* index = min(scores) if scores else 0
FirstRow(w) == IF ScoreWindow(w) = {} THEN 0 ELSE Min(ScoreWindow(w))

Init ==
  /\ split \in {"holdout", "periods"}
  /\ signals \in SUBSET (Warmup..Length - 1)
  /\ window = 1 /\ index = FirstRow(1) /\ trades = {}

Scanning == window \in Windows /\ index < Length - 1

\* No signal to act on, or none that can be acted on.
Pass == Scanning /\ index' = index + 1 /\ UNCHANGED <<split, signals, window, trades>>

\* Mutant: a bar too many.
LastBarBeyond(entry) == Min({Length - 1, entry + Horizon})

\* A trade enters at the next open and leaves on some bar within the horizon;
\* the close of that bar may signal again.
LastBar(entry) == Min({Length - 1, entry + Horizon - 1})

Trade ==
  /\ Scanning /\ index \in ScoreWindow(window)
  /\ \E exit \in index + 1 .. LastBar(index + 1) :
       /\ trades' = trades \cup {[window |-> window, signal |-> index,
                                  entry |-> index + 1, exit |-> exit]}
       /\ index' = exit
  /\ UNCHANGED <<split, signals, window>>

NextWindow ==
  /\ window \in Windows /\ index >= Length - 1
  /\ window' = window + 1
  /\ index' = IF window' \in Windows THEN FirstRow(window') ELSE 0
  /\ UNCHANGED <<split, signals, trades>>

Next == Pass \/ Trade \/ NextWindow

Spec == Init /\ [][Next]_vars

-----------------------------------------------------------------------------
TypeOK ==
  /\ split \in {"holdout", "periods"} /\ signals \subseteq Rows
  /\ window \in 1..5 /\ index \in Rows
  /\ \A t \in trades : t.signal \in Rows /\ t.exit \in t.entry .. t.entry + Horizon - 1

\* Trades of one window never overlap, and the windows share nothing: no trade
\* of one rests on a bar that belongs to another ("avoiding crossing the split"
\* of the warnings), and none is cut short by the end of the frame.
WindowsAreSeparate ==
  \A t \in trades :
    /\ t.signal >= Start(t.window) /\ LastBar(t.entry) < End(t.window)
    /\ LastBar(t.entry) = t.entry + Horizon - 1
    /\ \A u \in trades \ {t} : u.window = t.window => u.exit < t.entry \/ t.exit < u.entry
=============================================================================
