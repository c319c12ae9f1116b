-------------------------- MODULE ShadowEnrollments --------------------------
(***************************************************************************)
(* The shadow samples of one strategy version, fund and horizon: the rows  *)
(* of agent_strategy_shadow_enrollments in src/backend/agent/repository.py,*)
(* the service that enrols the signals of finished runs and evaluates them *)
(* (agent/strategy_shadow_outcomes.py), and the workers that lease the     *)
(* rows (agent/strategy_shadow_worker.py).                                 *)
(*                                                                         *)
(* A signal claims the window of trading days after its baseline.  Samples *)
(* are meant to be independent, so a signal is excluded when an earlier    *)
(* one has not released its window.  A lease lasts two minutes and the     *)
(* clock counts days: a lease just lapses when nobody works under it.      *)
(***************************************************************************)
EXTENDS Naturals

CONSTANTS
  Workers, Nobody,
  Signals, NoSignal,
  LastBaseline, \* bound: signals start from day 0 to this one
  Window,       \* observation_days
  MaxLag,       \* the provider's last delay in publishing a net value
  Estimate,     \* _due_at: calendar days until a window should be over
  MaxRetries,   \* the number of retry_delays
  MaxFaults     \* bound: crashes and stalls

Baselines == 0..LastBaseline
LastDay   == LastBaseline + Window + MaxLag

VARIABLES
  baseline,     \* baseline_as_of of each signal
  day,          \* today, up to the day from which every net value is published
  row,          \* agent_strategy_shadow_enrollments
  known,        \* history: the signals enrolled before each one
  cohort,       \* the signals that have a row of agent_strategy_shadow_cohorts
  evidence,     \* the signals that have a strategy_shadow_outcome evidence
  at, on,       \* the workers: what they do, and for which signal
  stalled,
  faults

vars == <<baseline, day, row, known, cohort, evidence, at, on, stalled, faults>>

NoRow == [status |-> "none", due |-> 0, owner |-> Nobody, lapsed |-> FALSE, failures |-> 0]

Waiting == {"scheduled", "retry_wait"}

Row == [status: {"none", "excluded", "blocked", "observed"} \cup Waiting, due: 0..Estimate,
        owner: Workers \cup {Nobody}, lapsed: BOOLEAN, failures: 0..(MaxRetries + 1)]

TypeOK ==
  /\ baseline \in [Signals -> Baselines] /\ day \in 0..LastDay
  /\ row \in [Signals -> Row] /\ known \in [Signals -> SUBSET Signals]
  /\ cohort \subseteq Signals /\ evidence \subseteq Signals
  /\ at \in [Workers -> {"idle", "evaluating", "pending", "observed", "failing", "rejected"}]
  /\ on \in [Workers -> Signals \cup {NoSignal}]
  /\ stalled \in [Workers -> BOOLEAN] /\ faults \in 0..MaxFaults

Init ==
  /\ baseline \in [Signals -> Baselines] /\ day = 0
  /\ row = [s \in Signals |-> NoRow] /\ known = [s \in Signals |-> {}] /\ cohort = {} /\ evidence = {}
  /\ at = [w \in Workers |-> "idle"] /\ on = [w \in Workers |-> NoSignal]
  /\ stalled = [w \in Workers |-> FALSE] /\ faults = 0

-----------------------------------------------------------------------------
(* Enrolment.                                                              *)

Enrolled == {s \in Signals : row[s].status # "none"}

\* Mutant: a window that waits for its retry is forgotten.
OccupantsButRetries(s) ==
  {c \in Enrolled \ {s} :
     /\ baseline[c] <= baseline[s]
     /\ \/ row[c].status \in {"scheduled", "blocked"}
        \/ row[c].status = "observed" /\ baseline[c] + Window >= baseline[s]}

\* The candidates of ensure_strategy_shadow_enrollment that keep a signal out:
\* an earlier window in progress, unresolved, or observed up to this baseline.
Occupants(s) ==
  {c \in Enrolled \ {s} :
     /\ baseline[c] <= baseline[s]
     /\ \/ row[c].status \in {"scheduled", "retry_wait", "blocked"}
        \/ row[c].status = "observed" /\ baseline[c] + Window >= baseline[s]}

\* ensure_enrollment, when a run ends or, for the runs that were missed, when a
\* worker starts.  Runs may end in another order than they took their data.
Enroll(s) ==
  /\ s \notin Enrolled
  /\ baseline[s] <= day
  /\ row' = [row EXCEPT ![s] =
       IF Occupants(s) # {} THEN [NoRow EXCEPT !.status = "excluded"]
       ELSE [NoRow EXCEPT !.status = "scheduled", !.due = Estimate]]
  /\ known' = [known EXCEPT ![s] = Enrolled]
  /\ UNCHANGED <<baseline, day, cohort, evidence, at, on, stalled, faults>>

\* ensure_strategy_shadow_cohort: the second transaction of an enrolment or,
\* when the process died before it, of backfill_missing_cohorts.
BindCohort(s) ==
  /\ s \in Enrolled \ cohort
  /\ cohort' = cohort \cup {s}
  /\ UNCHANGED <<baseline, known, day, row, evidence, at, on, stalled, faults>>

-----------------------------------------------------------------------------
(* Observation.                                                            *)

Due(s) == row[s].status \in Waiting /\ row[s].due = 0

\* Mutant: only a row that nobody has leased is claimed.
ClaimableIfFree(s) == Due(s) /\ row[s].owner = Nobody

Claimable(s) == Due(s) /\ (row[s].owner = Nobody \/ row[s].lapsed)

\* claim_due_strategy_shadow_enrollment
Claim(w, s) ==
  /\ at[w] = "idle"
  /\ Claimable(s)
  /\ row' = [row EXCEPT ![s].owner = w, ![s].lapsed = FALSE]
  /\ at' = [at EXCEPT ![w] = "evaluating"] /\ on' = [on EXCEPT ![w] = s]
  /\ UNCHANGED <<baseline, known, day, cohort, evidence, stalled, faults>>

Published(s) == day >= baseline[s] + Window
Overdue(s)   == day >= baseline[s] + Window + MaxLag

\* verify_cohort
Bound(s) == s \in cohort

\* Mutant: the cohort is looked at by the report only.
EvaluateUnbound(w) ==
  /\ at[w] = "evaluating"
  /\ \E answer \in {"pending", "observed", "failing", "rejected"} :
       /\ answer = "observed" => Published(on[w])
       /\ answer = "pending" => ~Overdue(on[w])
       /\ at' = [at EXCEPT ![w] = answer]
       /\ evidence' = IF answer = "observed" THEN evidence \cup {on[w]} ELSE evidence
  /\ UNCHANGED <<baseline, known, day, row, cohort, on, stalled, faults>>

\* evaluate_enrollment: what is not bound to a cohort is rejected; an observed
\* outcome is stored as evidence, once for each day it is of.
Evaluate(w) ==
  /\ at[w] = "evaluating"
  /\ \E answer \in {"pending", "observed", "failing", "rejected"} :
       /\ ~Bound(on[w]) => answer = "rejected"
       /\ answer = "observed" => Published(on[w])
       /\ answer = "pending" => ~Overdue(on[w])
       /\ at' = [at EXCEPT ![w] = answer]
       /\ evidence' = IF answer = "observed" THEN evidence \cup {on[w]} ELSE evidence
  /\ UNCHANGED <<baseline, known, day, row, cohort, on, stalled, faults>>

Leave(w) ==
  /\ at' = [at EXCEPT ![w] = "idle"] /\ on' = [on EXCEPT ![w] = NoSignal]
  /\ stalled' = [stalled EXCEPT ![w] = FALSE]

\* A report counts for the owner of the lease, lapsed or not.
Write(w, status, due, failures) ==
  /\ row[on[w]].owner = w
  /\ row' = [row EXCEPT ![on[w]] = [status |-> status, due |-> due, owner |-> Nobody,
                                    lapsed |-> FALSE, failures |-> failures]]
  /\ Leave(w)
  /\ UNCHANGED <<baseline, known, day, cohort, evidence, faults>>

\* mark_strategy_shadow_pending
MarkPending(w) == at[w] = "pending" /\ Write(w, "scheduled", 1, 0)

\* complete_strategy_shadow_enrollment
Complete(w) == at[w] = "observed" /\ Write(w, "observed", 0, 0)

\* fail_strategy_shadow_enrollment
Fail(w) ==
  /\ at[w] \in {"failing", "rejected"}
  /\ LET failures == row[on[w]].failures + 1 IN
     IF at[w] = "failing" /\ failures <= MaxRetries
     THEN Write(w, "retry_wait", 1, failures)
     ELSE Write(w, "blocked", 0, failures)

\* The row has another owner: nothing is written.
LeaseLost(w) ==
  /\ at[w] \notin {"idle", "evaluating"}
  /\ row[on[w]].owner # w
  /\ Leave(w)
  /\ UNCHANGED <<baseline, known, day, row, cohort, evidence, faults>>

-----------------------------------------------------------------------------
(* Failures and time.                                                      *)

Fault == faults < MaxFaults /\ faults' = faults + 1

Crash(w) ==
  /\ Fault /\ at[w] # "idle"
  /\ Leave(w)
  /\ UNCHANGED <<baseline, known, day, row, cohort, evidence>>

\* The process is paused for longer than its lease.
Stall(w) ==
  /\ Fault /\ at[w] # "idle" /\ ~stalled[w]
  /\ stalled' = [stalled EXCEPT ![w] = TRUE]
  /\ UNCHANGED <<baseline, known, day, row, cohort, evidence, at, on>>

Lapse(s) ==
  /\ row[s].owner # Nobody /\ ~row[s].lapsed
  /\ on[row[s].owner] = s => stalled[row[s].owner]
  /\ row' = [row EXCEPT ![s].lapsed = TRUE]
  /\ UNCHANGED <<baseline, known, day, cohort, evidence, at, on, stalled, faults>>

NextDay ==
  /\ day < LastDay \/ \E s \in Signals : row[s].due > 0
  /\ day' = IF day < LastDay THEN day + 1 ELSE day
  /\ row' = [s \in Signals |-> [row[s] EXCEPT !.due = IF @ = 0 THEN 0 ELSE @ - 1]]
  /\ UNCHANGED <<baseline, known, cohort, evidence, at, on, stalled, faults>>

-----------------------------------------------------------------------------
Report(w) == MarkPending(w) \/ Complete(w) \/ Fail(w) \/ LeaseLost(w)

Poll == \E w \in Workers, s \in Signals : Claim(w, s)

Next ==
  \/ NextDay \/ Poll
  \/ \E s \in Signals : Enroll(s) \/ BindCohort(s) \/ Lapse(s)
  \/ \E w \in Workers : Evaluate(w) \/ Report(w) \/ Crash(w) \/ Stall(w)

Spec == Init /\ [][Next]_vars

-----------------------------------------------------------------------------
(* Properties.                                                             *)

\* The enrolments the report of the strategy version counts.
Samples == {s \in Signals : row[s].status = "observed"}

Apart(s, t) == baseline[s] + Window < baseline[t] \/ baseline[t] + Window < baseline[s]

\* What the report of a strategy version counts: each sample has its outcome
\* stored and is bound to its cohort, and its window has no day in common with
\* that of an earlier sample, whatever became of the two in between.  The one
\* exception is an earlier sample that was enrolled later: an enrolment does
\* not look at the windows that begin after its own baseline.
SamplesAreIndependent ==
  \A s \in Samples :
    /\ s \in evidence /\ s \in cohort
    /\ \A t \in Samples \ {s} : baseline[t] <= baseline[s] /\ s \notin known[t] => Apart(s, t)

\* strategy_shadow_outcomes.py:855: every outcome says of its sample that it does
\* not overlap with any other of its fund, strategy version and horizon.
SamplesDoNotOverlap == \A s, t \in Samples : s # t => Apart(s, t)

\* Every window in progress is observed or given up in the end (no row is
\* enrolled twice), whichever workers crash and however late the provider is.
AllReleased == \A s \in Signals : row[s].status \notin Waiting

WindowsAreReleased == []<>AllReleased
=============================================================================
