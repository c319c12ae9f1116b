-------------------------- MODULE OutcomeSchedules --------------------------
(***************************************************************************)
(* The observation schedule of one finished run: its row of                *)
(* agent_outcome_schedules in src/backend/agent/repository.py, the user    *)
(* who configures it, and the workers of agent/outcome_worker.py that      *)
(* lease it.                                                               *)
(*                                                                         *)
(* Repository methods are serialised transactions, hence single actions.   *)
(* A worker takes one schedule at a time and never renews its lease: the   *)
(* evaluation has 45 seconds and the lease 120.  A restarted process draws *)
(* a new worker_id; since an idle worker writes nothing until it claims,   *)
(* the model lets it keep its name.                                        *)
(***************************************************************************)
EXTENDS Naturals

CONSTANTS
  Workers, Nobody,
  Never,        \* next_run_at IS NULL
  Intervals,    \* the intervals a user may choose, in ticks
  RetryTicks,   \* the delay before a retry, in ticks
  MaxRetries,   \* the number of retry_delays
  LeaseTicks,   \* lease_seconds, in ticks
  Horizon,      \* no time is further away than this
  MaxFaults     \* bound: crashes, stalls and database errors together

ASSUME NobodyAssumption == Nobody \notin Workers
ASSUME ClockAssumption ==
  /\ Horizon \in Nat /\ Never \notin Nat
  /\ Intervals \subseteq 1..Horizon
  /\ RetryTicks \in 1..Horizon
  /\ LeaseTicks \in Nat \ {0}
ASSUME BoundAssumption == MaxRetries \in Nat /\ MaxFaults \in Nat

VARIABLES
  \* The row.  lease = 0 with an owner is a lease that has expired.
  status, interval, due, owner, lease, failures,
  \* The workers.
  phase, stalled,
  latest,    \* history: this evaluation made the latest claim
  wanted,    \* history: the user asked for a run now, and none was claimed since
  faults

row  == <<status, interval, due, owner, lease, failures>>
work == <<phase, stalled, latest>>
vars == <<row, work, wanted, faults>>

TypeOK ==
  /\ status \in {"absent", "active", "paused"}
  /\ interval \in Intervals
  /\ due \in 0..Horizon \cup {Never}
  /\ owner \in Workers \cup {Nobody}
  /\ lease \in 0..LeaseTicks
  /\ failures \in 0..(MaxRetries + 1)
  /\ phase \in [Workers -> {"idle", "evaluating", "answered", "failing", "rejected"}]
  /\ stalled \in [Workers -> BOOLEAN]
  /\ latest \in [Workers -> BOOLEAN]
  /\ wanted \in BOOLEAN
  /\ faults \in 0..MaxFaults

Init ==
  /\ status = "absent" /\ interval \in Intervals
  /\ due = Never /\ owner = Nobody /\ lease = 0 /\ failures = 0
  /\ phase = [w \in Workers |-> "idle"]
  /\ stalled = [w \in Workers |-> FALSE]
  /\ latest = [w \in Workers |-> FALSE]
  /\ wanted = FALSE /\ faults = 0

-----------------------------------------------------------------------------
(* The agent runtime and the user.                                         *)

\* ensure_outcome_schedule, from the terminal callback of the run and from the
\* backfill at start-up: it never touches a schedule that exists.
EnsureSchedule ==
  /\ status = "absent"
  /\ status' = "active"
  /\ due' = interval
  /\ UNCHANGED <<interval, owner, lease, failures, work, wanted, faults>>

\* configure_outcome_schedule with enabled: an active schedule keeps its lease
\* and its failures, a paused one starts afresh.
Enable(i, now) ==
  /\ status = "active" => i # interval \/ now
  /\ status' = "active" /\ interval' = i
  /\ due' = IF now THEN 0 ELSE i
  /\ failures' = IF status = "paused" THEN 0 ELSE failures
  /\ wanted' = now
  /\ UNCHANGED <<owner, lease, work, faults>>

\* Mutant: the lease survives the pause.
PauseKeepsLease(i) ==
  /\ status = "paused" => i # interval
  /\ status' = "paused" /\ interval' = i /\ due' = Never
  /\ wanted' = FALSE
  /\ UNCHANGED <<owner, lease, failures, work, faults>>

\* configure_outcome_schedule without enabled: the lease is taken away from
\* whoever evaluates.
Pause(i) ==
  /\ status = "paused" => i # interval
  /\ status' = "paused" /\ interval' = i /\ due' = Never
  /\ owner' = Nobody /\ lease' = 0
  /\ wanted' = FALSE
  /\ UNCHANGED <<failures, work, faults>>

-----------------------------------------------------------------------------
(* The workers.                                                            *)

\* Mutant: only a schedule nobody has leased is claimed.
FreeOnly(w) == status = "active" /\ due = 0 /\ owner = Nobody /\ w \in Workers

\* The WHERE clauses of claim_due_outcome_schedule.
Claimable(w) == status = "active" /\ due = 0 /\ (owner = Nobody \/ lease = 0) /\ w \in Workers

\* Mutant: the owner is only filled in when there is none.
ClaimKeepsOwner(w) ==
  /\ phase[w] = "idle"
  /\ Claimable(w)
  /\ owner' = (IF owner = Nobody THEN w ELSE owner) /\ lease' = LeaseTicks
  /\ phase' = [phase EXCEPT ![w] = "evaluating"]
  /\ stalled' = [stalled EXCEPT ![w] = FALSE]
  /\ latest' = [v \in Workers |-> v = w]
  /\ wanted' = FALSE
  /\ UNCHANGED <<status, interval, due, failures, faults>>

\* claim_due_outcome_schedule grants the lease, to take it from whoever let it
\* run out.
Claim(w) ==
  /\ phase[w] = "idle"
  /\ Claimable(w)
  /\ owner' = w /\ lease' = LeaseTicks
  /\ phase' = [phase EXCEPT ![w] = "evaluating"]
  /\ stalled' = [stalled EXCEPT ![w] = FALSE]
  /\ latest' = [v \in Workers |-> v = w]
  /\ wanted' = FALSE
  /\ UNCHANGED <<status, interval, due, failures, faults>>

\* evaluate_run answers, fails for a reason that may pass (a source, a timeout,
\* an unexpected exception), or for good (retryable=False).
Evaluate(w) ==
  /\ phase[w] = "evaluating"
  /\ \E p \in {"answered", "failing", "rejected"} : phase' = [phase EXCEPT ![w] = p]
  /\ UNCHANGED <<row, stalled, latest, wanted, faults>>

\* The worker is done with this schedule, for now.
Leave(w) ==
  /\ phase' = [phase EXCEPT ![w] = "idle"]
  /\ stalled' = [stalled EXCEPT ![w] = FALSE]
  /\ latest' = [latest EXCEPT ![w] = FALSE]

\* Mutant: WHERE id=? and nothing about the owner.
CompleteUnowned(w) ==
  /\ phase[w] = "answered"
  /\ due' = interval /\ owner' = Nobody /\ lease' = 0 /\ failures' = 0
  /\ Leave(w)
  /\ UNCHANGED <<status, interval, wanted, faults>>

\* complete_outcome_schedule: next_run_at is counted from now, whatever the
\* user has put there in the meantime.  The status plays no part.
Complete(w) ==
  /\ phase[w] = "answered"
  /\ owner = w
  /\ due' = interval /\ owner' = Nobody /\ lease' = 0 /\ failures' = 0
  /\ Leave(w)
  /\ UNCHANGED <<status, interval, wanted, faults>>

\* Mutant: one retry too many is granted.
FailOnceMore(w) ==
  /\ phase[w] \in {"failing", "rejected"}
  /\ owner = w
  /\ LET count == failures + 1
         retry == phase[w] = "failing" /\ count <= MaxRetries + 1 IN
     /\ status' = IF retry THEN "active" ELSE "paused"
     /\ due' = IF retry THEN RetryTicks ELSE Never
     /\ failures' = count
     /\ wanted' = (wanted /\ retry)
  /\ owner' = Nobody /\ lease' = 0
  /\ Leave(w)
  /\ UNCHANGED <<interval, faults>>

\* fail_outcome_schedule: a retry while retry_delays lasts, else the schedule
\* is paused.
Fail(w) ==
  /\ phase[w] \in {"failing", "rejected"}
  /\ owner = w
  /\ LET count == failures + 1
         retry == phase[w] = "failing" /\ count <= MaxRetries IN
     /\ status' = IF retry THEN "active" ELSE "paused"
     /\ due' = IF retry THEN RetryTicks ELSE Never
     /\ failures' = count
     /\ wanted' = (wanted /\ retry)
  /\ owner' = Nobody /\ lease' = 0
  /\ Leave(w)
  /\ UNCHANGED <<interval, faults>>

\* Complete or fail finds another owner: nothing is written.  (A refused
\* completion is reported once more as a failure, which is refused as well.)
LeaseLost(w) ==
  /\ phase[w] \in {"answered", "failing", "rejected"}
  /\ owner # w
  /\ Leave(w)
  /\ UNCHANGED <<row, wanted, faults>>

-----------------------------------------------------------------------------
(* Failures and time.                                                      *)

Fault == faults < MaxFaults /\ faults' = faults + 1

Crash(w) ==
  /\ Fault
  /\ phase[w] # "idle"
  /\ Leave(w)
  /\ UNCHANGED <<row, wanted>>

\* The process is paused for longer than its lease.
Stall(w) ==
  /\ Fault
  /\ phase[w] # "idle" /\ ~stalled[w]
  /\ stalled' = [stalled EXCEPT ![w] = TRUE]
  /\ UNCHANGED <<row, phase, latest, wanted>>

\* The completion cannot be written: run_once reports a retryable failure, of
\* an evaluation whose evidence is already stored.
CompletionFails(w) ==
  /\ Fault
  /\ phase[w] = "answered"
  /\ phase' = [phase EXCEPT ![w] = "failing"]
  /\ UNCHANGED <<row, stalled, latest, wanted>>

OneLess(t) == IF t = Never \/ t = 0 THEN t ELSE t - 1

Tick ==
  /\ lease > 0 \/ due \notin {0, Never}
  /\ \A w \in Workers : phase[w] # "idle" /\ ~stalled[w] /\ owner = w => lease # 1
  /\ due' = OneLess(due)
  /\ lease' = OneLess(lease)
  /\ UNCHANGED <<status, interval, owner, failures, work, wanted, faults>>

-----------------------------------------------------------------------------
Configure == \E i \in Intervals : Pause(i) \/ \E now \in BOOLEAN : Enable(i, now)

Report(w) == Complete(w) \/ Fail(w) \/ LeaseLost(w)

Next ==
  \/ EnsureSchedule \/ Configure \/ Tick
  \/ \E w \in Workers : \/ Claim(w) \/ Evaluate(w) \/ Report(w)
                        \/ Crash(w) \/ Stall(w) \/ CompletionFails(w)

Spec == Init /\ [][Next]_vars

\* The workers poll for ever (or Beat runs them for ever), and an evaluation
\* that has not stalled ends within its timeout.
Fairness ==
  /\ WF_vars(Tick) /\ WF_vars(\E w \in Workers : Claim(w))
  /\ \A w \in Workers : WF_vars(Evaluate(w)) /\ WF_vars(Report(w))

FairSpec == Spec /\ Fairness

-----------------------------------------------------------------------------
(* Properties.                                                             *)

\* An evaluation whose report the row accepts is the one that claimed last,
\* whatever pauses, resumptions and expiries there were in between.
OwnerIsLatestClaim == \A w \in Workers : phase[w] # "idle" /\ owner = w => latest[w]

\* A paused schedule has neither a lease nor a next run; an active one always
\* has a next run, and has not failed more often than there are retries.
RowIsCoherent ==
  /\ status = "paused" => owner = Nobody /\ due = Never
  /\ status = "active" => due # Never /\ failures <= MaxRetries

SparesPaused == status = "paused" /\ phase' # phase => UNCHANGED row

\* No worker touches a paused schedule: a late answer or a late failure does
\* not revive it.
WorkersSparePaused == [][SparesPaused]_vars

ReportIsLatest ==
  \A w \in Workers :
    phase[w] # "idle" /\ phase'[w] = "idle" /\ row' # row => owner = w /\ latest[w]

\* A report is accepted only from the evaluation that claimed last.
OnlyLatestReports == [][ReportIsLatest]_vars

\* A schedule that is due does not stay due: it is claimed and reported on, or
\* paused, whichever workers crash.
Served == status = "paused" \/ due # 0

DueIsServed == []<>Served

\* The durable-outcome-scheduler notes say that "run immediately" is a durable
\* enqueueing: next_run_at is now, for a worker to claim.
WantedStaysDue == wanted => due = 0
=============================================================================
