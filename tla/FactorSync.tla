------------------------------ MODULE FactorSync ------------------------------
(***************************************************************************)
(* The collection of the A-share factor warehouse: the sync runs of        *)
(* src/backend/quant_factor_repository.py, the scheduler that chooses the  *)
(* next target and the execution of a run, both of                         *)
(* src/backend/quant_factor_warehouse_service.py.                          *)
(*                                                                         *)
(* A target is a trading day or a stock; request_key makes its run unique. *)
(* A run has a lease of 600 seconds and no heartbeat; Celery ends a task   *)
(* after 330.  A second message joins the attempt that is under way.  The  *)
(* event chain is appended to in transactions of its own and is left out.  *)
(***************************************************************************)
EXTENDS Naturals

CONSTANTS
  TargetCount,   \* the targets are 1..TargetCount, in the scheduler's order
  Daily,         \* the latest trading days; the other targets are the plan's
  Workers,
  MaxAttempts,   \* 3, or 30 when the provider limits the rate
  LeaseTicks,    \* QUANT_FACTOR_SYNC_LEASE_SECONDS, in ticks
  CoolTicks,     \* QUANT_FACTOR_RETRY_COOLDOWN_SECONDS, in ticks
  MaxMessages,   \* bound: messages about one run in the broker at once
  MaxFaults      \* bound: crashes, stalls, losses and duplications together

Targets  == 1..TargetCount
NoTarget == 0

ASSUME TargetAssumption == TargetCount \in Nat /\ Daily \subseteq 1..TargetCount
ASSUME BoundAssumption ==
  /\ MaxAttempts \in Nat \ {0} /\ LeaseTicks \in Nat \ {0} /\ CoolTicks \in Nat \ {0}
  /\ MaxMessages \in Nat \ {0} /\ MaxFaults \in Nat

Finished == {"succeeded", "partial"}

VARIABLES
  \* quant_factor_sync_runs, one function per column
  status, attempts, lease,
  error,     \* error_code: none, provider or lease
  cool,      \* the time left until completed_at is a cooldown old
  saved,     \* what the observation tables hold of the target
  \* publishing and the broker
  outbox, messages,
  \* the executions
  doing, phase,
  expected,  \* attempt_count as the execution read it
  joined,    \* it joined an attempt somebody else had claimed
  stalled,
  current,   \* history: its run has been running since its call began
  faults

runs  == <<status, attempts, lease, error, cool, saved>>
work  == <<doing, phase, expected, joined, stalled, current>>
vars  == <<runs, outbox, messages, work, faults>>

TypeOK ==
  /\ status \in [Targets -> {"absent", "queued", "running", "failed"} \cup Finished]
  /\ attempts \in [Targets -> 0..MaxAttempts]
  /\ lease \in [Targets -> 0..LeaseTicks]
  /\ error \in [Targets -> {"none", "provider", "lease"}]
  /\ cool \in [Targets -> 0..CoolTicks]
  /\ saved \in [Targets -> {"no", "empty", "rows"}]
  /\ outbox \in [Targets -> BOOLEAN]
  /\ messages \in [Targets -> 0..MaxMessages]
  /\ doing \in [Workers -> Targets \cup {NoTarget}]
  /\ phase \in [Workers -> {"idle", "claimed", "calling", "saving", "completing", "failing"}]
  /\ \A w \in Workers : phase[w] # "idle" => doing[w] \in Targets
  /\ expected \in [Workers -> 0..MaxAttempts]
  /\ joined \in [Workers -> BOOLEAN]
  /\ stalled \in [Workers -> BOOLEAN]
  /\ current \in [Workers -> BOOLEAN]
  /\ faults \in 0..MaxFaults

Init ==
  /\ status = [t \in Targets |-> "absent"]
  /\ attempts = [t \in Targets |-> 0]
  /\ lease = [t \in Targets |-> 0]
  /\ error = [t \in Targets |-> "none"]
  /\ cool = [t \in Targets |-> 0]
  /\ saved = [t \in Targets |-> "no"]
  /\ outbox = [t \in Targets |-> FALSE]
  /\ messages = [t \in Targets |-> 0]
  /\ doing = [w \in Workers |-> NoTarget]
  /\ phase = [w \in Workers |-> "idle"]
  /\ expected = [w \in Workers |-> 0]
  /\ joined = [w \in Workers |-> FALSE]
  /\ stalled = [w \in Workers |-> FALSE]
  /\ current = [w \in Workers |-> FALSE]
  /\ faults = 0

-----------------------------------------------------------------------------
(* The scheduler, and administrators who ask for a target of their choice. *)
(* What a scheduler does on an answer that has gone stale (two of them may *)
(* find no active run) is what an administrator may do at any time.        *)

\* Mutant: requeue_failed_sync without max_attempts.
EnqueueUnbounded(t) ==
  /\ \/ status[t] = "absent"
     \/ status[t] = "failed" /\ cool[t] = 0
  /\ status' = [status EXCEPT ![t] = "queued"]
  /\ error' = [error EXCEPT ![t] = "none"]
  /\ outbox' = [outbox EXCEPT ![t] = TRUE]
  /\ UNCHANGED <<attempts, lease, cool, saved, messages, work, faults>>

\* create_sync_run or requeue_failed_sync, and then _dispatch_sync_run.
Enqueue(t) ==
  /\ \/ status[t] = "absent"
     \/ status[t] = "failed" /\ attempts[t] < MaxAttempts /\ cool[t] = 0
  /\ status' = [status EXCEPT ![t] = "queued"]
  /\ error' = [error EXCEPT ![t] = "none"]
  /\ outbox' = [outbox EXCEPT ![t] = TRUE]
  /\ UNCHANGED <<attempts, lease, cool, saved, messages, work, faults>>

\* A queued run is dispatched once more: by request_sync, or by the scheduler
\* when it is 600 seconds old and nothing is running.
DispatchAgain(t) ==
  /\ status[t] = "queued" /\ ~outbox[t]
  /\ outbox' = [outbox EXCEPT ![t] = TRUE]
  /\ UNCHANGED <<runs, messages, work, faults>>

RequestSync(t) == Enqueue(t) \/ DispatchAgain(t)

\* target_resolved: an observation suffices, whatever became of the run.
Resolved(t)  == saved[t] = "rows" \/ status[t] \in Finished
Exhausted(t) == status[t] = "failed" /\ ~(attempts[t] < MaxAttempts)

\* The latest days come first and the exhausted ones are passed over; then
\* comes the first unresolved target of the plan, exhausted or not.
Open(t) == ~Resolved(t) /\ ~Exhausted(t)

Chosen(t) ==
  IF \E u \in Daily : Open(u)
  THEN t \in Daily /\ Open(t) /\ \A u \in Daily : u < t => ~Open(u)
  ELSE /\ t \notin Daily /\ ~Resolved(t)
       /\ \A u \in Targets \ Daily : u < t => Resolved(u)

\* Mutant: a target that is cooling down is passed over and never retried.
ScheduleNewOnly ==
  IF \E t \in Targets : status[t] \in {"queued", "running"}
  THEN /\ \A t \in Targets : status[t] # "running"
       /\ \E t \in Targets : DispatchAgain(t)
  ELSE \E t \in Targets : Chosen(t) /\ status[t] = "absent" /\ Enqueue(t)

\* schedule_due_sync, after the recovery: at most one target is active.
ScheduleDueSync ==
  IF \E t \in Targets : status[t] \in {"queued", "running"}
  THEN /\ \A t \in Targets : status[t] # "running"
       /\ \E t \in Targets : DispatchAgain(t)
  ELSE \E t \in Targets : Chosen(t) /\ Enqueue(t)

\* enqueue_quant_factor_sync, whatever has become of the run.
Publish(t) ==
  /\ outbox[t] /\ messages[t] < MaxMessages
  /\ messages' = [messages EXCEPT ![t] = @ + 1]
  /\ outbox' = [outbox EXCEPT ![t] = FALSE]
  /\ UNCHANGED <<runs, work, faults>>

\* The executions of the targets in S can no longer call their run current.
Outdate(S) == current' = [w \in Workers |-> current[w] /\ doing[w] \notin S]

Stale(t) == status[t] = "running" /\ lease[t] = 0

\* recover_stale_syncs
RecoverStaleSyncs ==
  /\ \E t \in Targets : Stale(t)
  /\ status' = [t \in Targets |-> IF Stale(t) THEN "failed" ELSE status[t]]
  /\ error'  = [t \in Targets |-> IF Stale(t) THEN "lease" ELSE error[t]]
  /\ cool'   = [t \in Targets |-> IF Stale(t) THEN CoolTicks ELSE cool[t]]
  /\ Outdate({t \in Targets : Stale(t)})
  /\ UNCHANGED <<attempts, lease, saved, outbox, messages, doing, phase, expected,
                 joined, stalled, faults>>

-----------------------------------------------------------------------------
(* The execution of a run: execute_sync_run.                               *)

Deliver(w, t) ==
  /\ phase[w] = "idle" /\ messages[t] > 0
  /\ messages' = [messages EXCEPT ![t] = @ - 1]
  /\ UNCHANGED <<outbox, faults>>

\* claim_sync_run takes a queued run ...
Claim(w, t) ==
  /\ Deliver(w, t)
  /\ status[t] = "queued"
  /\ status' = [status EXCEPT ![t] = "running"]
  /\ attempts' = [attempts EXCEPT ![t] = @ + 1]
  /\ lease' = [lease EXCEPT ![t] = LeaseTicks]
  /\ doing' = [doing EXCEPT ![w] = t]
  /\ phase' = [phase EXCEPT ![w] = "claimed"]
  /\ joined' = [joined EXCEPT ![w] = FALSE]
  /\ UNCHANGED <<error, cool, saved, expected, stalled, current>>

\* The execution holds a running row, and calls the provider.
BeginCall(w, t) ==
  /\ expected' = [expected EXCEPT ![w] = attempts[t]]
  /\ phase' = [phase EXCEPT ![w] = "calling"]
  /\ current' = [current EXCEPT ![w] = TRUE]

\* ... it appends its event, and reads the row again: it may read a later
\* attempt, or a run that is over.
Reread(w) ==
  /\ phase[w] = "claimed"
  /\ IF status[doing[w]] = "running"
     THEN BeginCall(w, doing[w]) /\ UNCHANGED <<doing, stalled>>
     ELSE /\ phase' = [phase EXCEPT ![w] = "idle"]
          /\ doing' = [doing EXCEPT ![w] = NoTarget]
          /\ stalled' = [stalled EXCEPT ![w] = FALSE]
          /\ UNCHANGED <<expected, current>>
  /\ UNCHANGED <<runs, outbox, messages, joined, faults>>

\* A run that is running is returned as it is: the caller joins the attempt.
Join(w, t) ==
  /\ Deliver(w, t)
  /\ status[t] = "running"
  /\ doing' = [doing EXCEPT ![w] = t]
  /\ BeginCall(w, t)
  /\ joined' = [joined EXCEPT ![w] = TRUE]
  /\ UNCHANGED <<runs, stalled>>

\* Any other status is returned to the task, which ends.
Ignore(w, t) ==
  /\ Deliver(w, t)
  /\ status[t] \notin {"queued", "running"}
  /\ UNCHANGED <<runs, work>>

Leave(w) ==
  /\ doing' = [doing EXCEPT ![w] = NoTarget]
  /\ phase' = [phase EXCEPT ![w] = "idle"]
  /\ stalled' = [stalled EXCEPT ![w] = FALSE]

\* The provider answers, or fails, or the soft time limit strikes.
ProviderReturns(w) ==
  /\ phase[w] = "calling"
  /\ \E p \in {"saving", "failing"} : phase' = [phase EXCEPT ![w] = p]
  /\ UNCHANGED <<runs, outbox, messages, doing, expected, joined, stalled, current, faults>>

\* Mutant: the attempt is not compared.
WritableWhileRunning(w) == status[doing[w]] = "running" /\ lease[doing[w]] > 0

\* _assert_writable_sync_attempt
Writable(w) ==
  /\ status[doing[w]] = "running"
  /\ attempts[doing[w]] = expected[w]
  /\ lease[doing[w]] > 0

\* Mutant: a refused save is logged, and the execution goes on.
SaveOrGoOn(w) ==
  /\ phase[w] = "saving"
  /\ \E rows \in {"empty", "rows"} :
       saved' = IF Writable(w)
                THEN [saved EXCEPT ![doing[w]] = IF @ = "rows" THEN @ ELSE rows]
                ELSE saved
  /\ phase' = [phase EXCEPT ![w] = "completing"]
  /\ UNCHANGED <<status, attempts, lease, error, cool, outbox, messages, doing, expected,
                 joined, stalled, current, faults>>

\* save_daily_observations or save_financial_observations; no rows are rows too.
Save(w) ==
  /\ phase[w] = "saving" /\ Writable(w)
  /\ \E rows \in {"empty", "rows"} :
       saved' = [saved EXCEPT ![doing[w]] = IF @ = "rows" THEN @ ELSE rows]
  /\ phase' = [phase EXCEPT ![w] = "completing"]
  /\ UNCHANGED <<status, attempts, lease, error, cool, outbox, messages, doing, expected,
                 joined, stalled, current, faults>>

\* QuantFactorConflictError: the execution ends and changes nothing.
Conflict(w) ==
  /\ \/ phase[w] = "saving" /\ ~Writable(w)
     \/ phase[w] = "completing" /\ status[doing[w]] # "running"
     \/ phase[w] = "failing" /\ status[doing[w]] \in Finished
  /\ Leave(w)
  /\ UNCHANGED <<runs, outbox, messages, expected, joined, current, faults>>

\* Mutant: whatever the run's status, it is completed.
CompleteAnyway(w) ==
  LET t == doing[w] IN
  /\ phase[w] = "completing"
  /\ \E s \in Finished : status' = [status EXCEPT ![t] = s]
  /\ lease' = [lease EXCEPT ![t] = 0]
  /\ error' = [error EXCEPT ![t] = "none"]
  /\ Outdate({t})
  /\ Leave(w)
  /\ UNCHANGED <<attempts, cool, saved, outbox, messages, expected, joined, faults>>

\* complete_sync_run: any running attempt will do.
Complete(w) ==
  LET t == doing[w] IN
  /\ phase[w] = "completing" /\ status[t] = "running"
  /\ \E s \in Finished : status' = [status EXCEPT ![t] = s]
  /\ lease' = [lease EXCEPT ![t] = 0]
  /\ error' = [error EXCEPT ![t] = "none"]
  /\ Outdate({t})
  /\ Leave(w)
  /\ UNCHANGED <<attempts, cool, saved, outbox, messages, expected, joined, faults>>

\* fail_sync_run: only a finished run is spared, not a queued one, not one that
\* has failed already, not a later attempt.
Fail(w) ==
  LET t == doing[w] IN
  /\ phase[w] = "failing" /\ status[t] \notin Finished
  /\ status' = [status EXCEPT ![t] = "failed"]
  /\ lease' = [lease EXCEPT ![t] = 0]
  /\ error' = [error EXCEPT ![t] = "provider"]
  /\ cool' = [cool EXCEPT ![t] = CoolTicks]
  /\ Outdate({t})
  /\ Leave(w)
  /\ UNCHANGED <<attempts, saved, outbox, messages, expected, joined, faults>>

-----------------------------------------------------------------------------
(* Failures and time.                                                      *)

Fault == faults < MaxFaults /\ faults' = faults + 1

MayPublish(t) ==
  \/ UNCHANGED messages
  \/ messages[t] < MaxMessages /\ messages' = [messages EXCEPT ![t] = @ + 1]

Crash(w) ==
  /\ Fault
  /\ phase[w] # "idle"
  /\ Leave(w)
  /\ MayPublish(doing[w])
  /\ UNCHANGED <<runs, outbox, expected, joined, current>>

\* The host is paused, and with it Celery's time limits.
Stall(w) ==
  /\ Fault
  /\ phase[w] # "idle" /\ ~stalled[w]
  /\ stalled' = [stalled EXCEPT ![w] = TRUE]
  /\ UNCHANGED <<runs, outbox, messages, doing, phase, expected, joined, current>>

\* The database refuses a save or a completion: the run is reported as failed.
WriteFails(w) ==
  /\ Fault
  /\ phase[w] \in {"saving", "completing"}
  /\ phase' = [phase EXCEPT ![w] = "failing"]
  /\ UNCHANGED <<runs, outbox, messages, doing, expected, joined, stalled, current>>

\* Redis loses or duplicates a message, or the publisher fails.
BrokerFault(t) ==
  /\ Fault
  /\ \/ /\ messages[t] \in 1..(MaxMessages - 1)
        /\ messages' = [messages EXCEPT ![t] = @ + 1] /\ UNCHANGED outbox
     \/ /\ messages[t] > 0
        /\ messages' = [messages EXCEPT ![t] = @ - 1] /\ UNCHANGED outbox
     \/ outbox[t] /\ outbox' = [outbox EXCEPT ![t] = FALSE] /\ UNCHANGED messages
  /\ UNCHANGED <<runs, work>>

OneLess(f) == [t \in Targets |-> IF f[t] > 0 THEN f[t] - 1 ELSE 0]

\* Time limits end an execution that has not stalled before a lease it claimed
\* runs out, and before any cooldown does.
Tick ==
  /\ \E t \in Targets : lease[t] > 0 \/ cool[t] > 0
  /\ \A w \in Workers : phase[w] # "idle" /\ ~stalled[w] =>
       /\ cool[doing[w]] # 1
       /\ ~joined[w] => lease[doing[w]] # 1
  /\ lease' = OneLess(lease)
  /\ cool' = OneLess(cool)
  /\ UNCHANGED <<status, attempts, error, saved, outbox, messages, work, faults>>

-----------------------------------------------------------------------------
Receive(w, t) == Claim(w, t) \/ Join(w, t) \/ Ignore(w, t)

Work(w) ==
  \/ Reread(w) \/ ProviderReturns(w) \/ Save(w) \/ Conflict(w) \/ Complete(w) \/ Fail(w)

Next ==
  \/ ScheduleDueSync \/ RecoverStaleSyncs \/ Tick
  \/ \E t \in Targets : RequestSync(t) \/ Publish(t) \/ BrokerFault(t)
  \/ \E w \in Workers, t \in Targets : Receive(w, t)
  \/ \E w \in Workers : Work(w) \/ Crash(w) \/ Stall(w) \/ WriteFails(w)

Spec == Init /\ [][Next]_vars

\* Beat schedules for ever, Redis lists are first-in first-out, and time limits
\* end every call.  Administrators need not do anything.
Fairness ==
  /\ WF_vars(ScheduleDueSync) /\ WF_vars(RecoverStaleSyncs) /\ WF_vars(Tick)
  /\ \A t \in Targets : /\ WF_vars(Publish(t))
                        /\ SF_vars(\E w \in Workers : Receive(w, t))
  /\ \A w \in Workers : WF_vars(Work(w))

FairSpec == Spec /\ Fairness

-----------------------------------------------------------------------------
(* Properties.                                                             *)

SaveIsCurrent ==
  \A w \in Workers : phase[w] = "saving" /\ phase'[w] = "completing" => current[w]

\* A response is stored only while the run has been running without a break
\* since the provider was asked: comparing attempt numbers is enough to keep
\* out the workers whose run was recovered, failed or taken up again.
LateResponsesAreRefused == [][SaveIsCurrent]_vars

\* A run is finished only after a response for its target was stored, although
\* it is not asked whose attempt is completed.
FinishedIsBacked == \A t \in Targets : status[t] \in Finished => saved[t] # "no"

FinishedRunIsKept ==
  \A t \in Targets :
    /\ status[t] \in Finished => status'[t] = status[t] /\ attempts'[t] = attempts[t]
    /\ saved[t] = "rows" => saved'[t] = "rows"

\* A finished run is never rewritten, and what was collected is kept.
FinishedIsFinal == [][FinishedRunIsKept]_vars

\* Every one of the latest days is collected in the end, or has used up its
\* attempts, whichever workers and messages are lost.
Collected(t) == Resolved(t) \/ Exhausted(t)

DailyIsCollected == \A t \in Daily : []<>Collected(t)

\* execute_sync_run: the old worker must not rewrite the recovered run.
RecoveredIsLeftAlone ==
  [][\A t \in Targets : status[t] = "failed" /\ error[t] = "lease" =>
       error'[t] = "lease" \/ status'[t] = "queued"]_vars

\* ARCHITECTURE.md: after the latest days the scheduler advances the backfill.
BackfillAdvances == \A t \in Targets \ Daily : []<>(Resolved(t) \/ Exhausted(t))
=============================================================================
