--------------------------- MODULE BackgroundJobs ---------------------------
(***************************************************************************)
(* The durable job envelope of src/backend/background_jobs.py, the Celery  *)
(* tasks that execute it (src/backend/background_tasks.py) and the code    *)
(* that publishes its messages (src/backend/task_queue.py).                *)
(*                                                                         *)
(* Every repository method runs in one BEGIN IMMEDIATE transaction, which  *)
(* database.py serialises with all the others, so a method is one action.  *)
(* A broker message names a job and nothing else; the row is the only      *)
(* truth.  Messages are delivered late, more than once, or never.          *)
(*                                                                         *)
(* A worker is one prefork slot (each queue is deployed with               *)
(* --concurrency=1), so it executes one message at a time.  The code's     *)
(* worker_id is hostname:task_id and the task id is the constant           *)
(* "job-<job_id>": for a given job it is the host and no more.             *)
(***************************************************************************)
EXTENDS Naturals, FiniteSets

CONSTANTS
  Jobs,          \* the jobs users may create
  Workers,       \* the worker slots (hosts)
  NoJob,         \* an idle worker executes NoJob
  NoWorker,      \* worker_id IS NULL
  MaxAttempts,   \* max_attempts of every job (create_job clamps it to 1..10)
  LeaseTicks,    \* lease_seconds, in ticks of the model's clock
  RetryTicks,    \* retry_delay_seconds, in ticks
  MaxMessages,   \* bound: messages of one job in the broker at once
  MaxFaults      \* bound: crashes, stalls, losses and duplications together

ASSUME NullAssumption == NoJob \notin Jobs /\ NoWorker \notin Workers
ASSUME BoundAssumption ==
  /\ MaxAttempts \in Nat \ {0}
  /\ LeaseTicks  \in Nat \ {0}
  /\ RetryTicks  \in Nat
  /\ MaxMessages \in Nat \ {0}
  /\ MaxFaults   \in Nat

Active   == {"queued", "running"}
Decided  == {"succeeded", "partial", "failed", "cancelled"}  \* TERMINAL_JOB_STATUSES
Finished == {"succeeded", "partial"}

\* The event types that announce a change of status.
StatusEvents == {"none", "job_queued", "job_lease_expired", "job_retry_scheduled",
                 "job_started", "job_completed", "job_failed", "job_cancelled"}

VARIABLES
  \* The background_jobs table, one function per column.
  status, worker, lease, attempts, wait, cancel, dispatched,
  event,    \* the last status event of the job's hash chain
  \* Publishing and the broker.
  outbox,   \* a publisher's progress with a job: listed -> sent -> none
  messages, \* undelivered messages per job
  \* The worker slots.
  doing, phase, stalled,
  latest,   \* history: this execution made its job's latest claim
  faults    \* failures so far

\* Times are kept as the time that is left: lease = 0 is an expired lease and
\* wait = 0 an available_at that has passed.  attempts stops at MaxAttempts:
\* fail_job only ever asks whether attempt_count < max_attempts.
columns == <<status, worker, lease, attempts, wait, cancel, dispatched, event>>
slots   == <<doing, phase, stalled, latest>>
vars    == <<columns, outbox, messages, slots, faults>>

TypeOK ==
  /\ status \in [Jobs -> {"absent"} \cup Active \cup Decided]
  /\ worker \in [Jobs -> Workers \cup {NoWorker}]
  /\ lease \in [Jobs -> 0..LeaseTicks]
  /\ attempts \in [Jobs -> 0..MaxAttempts]
  /\ wait \in [Jobs -> 0..RetryTicks]
  /\ cancel \in [Jobs -> BOOLEAN]
  /\ dispatched \in [Jobs -> BOOLEAN]
  /\ event \in [Jobs -> StatusEvents]
  /\ outbox \in [Jobs -> {"none", "listed", "sent"}]
  /\ messages \in [Jobs -> 0..MaxMessages]
  /\ doing \in [Workers -> Jobs \cup {NoJob}]
  /\ phase \in [Workers -> {"idle", "handler", "returned", "raised", "rejected"}]
  /\ \A w \in Workers : phase[w] # "idle" => doing[w] \in Jobs
  /\ stalled \in [Workers -> BOOLEAN]
  /\ latest \in [Workers -> BOOLEAN]
  /\ faults \in 0..MaxFaults

Init ==
  /\ status = [j \in Jobs |-> "absent"]
  /\ worker = [j \in Jobs |-> NoWorker]
  /\ lease = [j \in Jobs |-> 0]
  /\ attempts = [j \in Jobs |-> 0]
  /\ wait = [j \in Jobs |-> 0]
  /\ cancel = [j \in Jobs |-> FALSE]
  /\ dispatched = [j \in Jobs |-> FALSE]
  /\ event = [j \in Jobs |-> "none"]
  /\ outbox = [j \in Jobs |-> "none"]
  /\ messages = [j \in Jobs |-> 0]
  /\ doing = [w \in Workers |-> NoJob]
  /\ phase = [w \in Workers |-> "idle"]
  /\ stalled = [w \in Workers |-> FALSE]
  /\ latest = [w \in Workers |-> FALSE]
  /\ faults = 0

Fault == faults < MaxFaults /\ faults' = faults + 1

\* A status change writes these columns together and appends its event.
Move(j, s, w, l, e) ==
  /\ status' = [status EXCEPT ![j] = s]
  /\ worker' = [worker EXCEPT ![j] = w]
  /\ lease'  = [lease EXCEPT ![j] = l]
  /\ event'  = [event EXCEPT ![j] = e]

-----------------------------------------------------------------------------
(* Users and the API.                                                      *)

\* create_job inserts the row and its job_queued event; the API goes on to
\* publish the message.  A second call with the idempotency key returns the
\* row and changes nothing.
CreateJob(j) ==
  /\ status[j] = "absent"
  /\ Move(j, "queued", NoWorker, 0, "job_queued")
  /\ outbox' = [outbox EXCEPT ![j] = "listed"]
  /\ UNCHANGED <<attempts, wait, cancel, dispatched, messages, slots, faults>>

\* request_cancel only raises the flag: the row is cancelled by a later claim.
RequestCancel(j) ==
  /\ status[j] \in Active
  /\ cancel' = [cancel EXCEPT ![j] = TRUE]
  /\ UNCHANGED <<status, worker, lease, attempts, wait, dispatched, event,
                 outbox, messages, slots, faults>>

-----------------------------------------------------------------------------
(* The scheduler (dispatch_queued_runs, every 30 seconds) and publishing.  *)

\* Mutant: a job that has been dispatched once is never listed again.
DispatchableOnce(j) ==
  status[j] = "queued" /\ ~cancel[j] /\ wait[j] = 0 /\ ~dispatched[j]

Dispatchable(j) == status[j] = "queued" /\ ~cancel[j] /\ wait[j] = 0

\* list_dispatchable_jobs: a snapshot, which goes stale before it is used.
List(j) ==
  /\ Dispatchable(j) /\ outbox[j] = "none"
  /\ outbox' = [outbox EXCEPT ![j] = "listed"]
  /\ UNCHANGED <<columns, messages, slots, faults>>

\* enqueue_background_job: send_task, whatever has become of the row ...
Send(j) ==
  /\ outbox[j] = "listed" /\ messages[j] < MaxMessages
  /\ messages' = [messages EXCEPT ![j] = @ + 1]
  /\ outbox' = [outbox EXCEPT ![j] = "sent"]
  /\ UNCHANGED <<columns, slots, faults>>

\* Mutant: mark_dispatched without its look at the status.
MarkDispatchedAlways(j) ==
  /\ outbox[j] = "sent"
  /\ outbox' = [outbox EXCEPT ![j] = "none"]
  /\ dispatched' = [dispatched EXCEPT ![j] = TRUE]
  /\ UNCHANGED <<status, worker, lease, attempts, wait, cancel, event,
                 messages, slots, faults>>

\* ... and then mark_dispatched, in a transaction of its own: a worker may have
\* claimed or even finished the job in between.
MarkDispatched(j) ==
  /\ outbox[j] = "sent"
  /\ outbox' = [outbox EXCEPT ![j] = "none"]
  /\ dispatched' = [dispatched EXCEPT ![j] = @ \/ status[j] \in Active]
  /\ UNCHANGED <<status, worker, lease, attempts, wait, cancel, event,
                 messages, slots, faults>>

\* The publisher dies, or Redis is down, between two of these steps.
PublisherFails(j) ==
  /\ Fault
  /\ outbox[j] # "none"
  /\ outbox' = [outbox EXCEPT ![j] = "none"]
  /\ UNCHANGED <<columns, messages, slots>>

Expired(j) == status[j] = "running" /\ lease[j] = 0

\* Mutant: the recovery forgets its event.
RecoverSilently ==
  /\ \E j \in Jobs : Expired(j)
  /\ status' = [j \in Jobs |-> IF Expired(j) THEN "queued" ELSE status[j]]
  /\ worker' = [j \in Jobs |-> IF Expired(j) THEN NoWorker ELSE worker[j]]
  /\ wait'   = [j \in Jobs |-> IF Expired(j) THEN 0 ELSE wait[j]]
  /\ UNCHANGED <<lease, event, attempts, cancel, dispatched, outbox, messages,
                 slots, faults>>

\* recover_expired_jobs: every expired lease goes back to the queue, in one
\* transaction, without a look at cancel_requested or at attempt_count.
RecoverExpiredJobs ==
  /\ \E j \in Jobs : Expired(j)
  /\ status' = [j \in Jobs |-> IF Expired(j) THEN "queued" ELSE status[j]]
  /\ worker' = [j \in Jobs |-> IF Expired(j) THEN NoWorker ELSE worker[j]]
  /\ wait'   = [j \in Jobs |-> IF Expired(j) THEN 0 ELSE wait[j]]
  /\ event'  = [j \in Jobs |-> IF Expired(j) THEN "job_lease_expired" ELSE event[j]]
  /\ UNCHANGED <<lease, attempts, cancel, dispatched, outbox, messages, slots, faults>>

-----------------------------------------------------------------------------
(* Workers.  A delivered message stays unacknowledged until the task ends  *)
(* (acks_late); claim_job is the first thing the task does.                *)

Deliver(w, j) ==
  /\ phase[w] = "idle" /\ messages[j] > 0
  /\ messages' = [messages EXCEPT ![j] = @ - 1]
  /\ UNCHANGED <<dispatched, outbox, faults>>

\* Mutant: the cancel flag is not looked at before the lease is granted.
ClaimableThoughCancelled(j) ==
  (status[j] = "queued" /\ wait[j] = 0) \/ Expired(j)

Claimable(j) ==
  /\ status[j] \in Active /\ ~cancel[j]
  /\ (status[j] = "queued" /\ wait[j] = 0) \/ Expired(j)

\* Mutant: worker_id is only filled in when it is NULL, the way started_at is.
ClaimKeepsOwner(w, j) ==
  /\ Deliver(w, j)
  /\ Claimable(j)
  /\ Move(j, "running", IF worker[j] = NoWorker THEN w ELSE worker[j],
          LeaseTicks, "job_started")
  /\ attempts' = [attempts EXCEPT ![j] = IF @ < MaxAttempts THEN @ + 1 ELSE @]
  /\ doing' = [doing EXCEPT ![w] = j]
  /\ phase' = [phase EXCEPT ![w] = "handler"]
  /\ stalled' = [stalled EXCEPT ![w] = FALSE]
  /\ latest' = [v \in Workers |-> v = w \/ (latest[v] /\ doing[v] # j)]
  /\ UNCHANGED <<wait, cancel>>

\* claim_job grants the lease.  Whoever executed the job before is not told.
\* max_attempts plays no part here.
ClaimGranted(w, j) ==
  /\ Deliver(w, j)
  /\ Claimable(j)
  /\ Move(j, "running", w, LeaseTicks, "job_started")
  /\ attempts' = [attempts EXCEPT ![j] = IF @ < MaxAttempts THEN @ + 1 ELSE @]
  /\ doing' = [doing EXCEPT ![w] = j]
  /\ phase' = [phase EXCEPT ![w] = "handler"]
  /\ stalled' = [stalled EXCEPT ![w] = FALSE]
  /\ latest' = [v \in Workers |-> v = w \/ (latest[v] /\ doing[v] # j)]
  /\ UNCHANGED <<wait, cancel>>

\* claim_job finds the flag and cancels the row, even one that another worker
\* is running under a live lease.
ClaimCancels(w, j) ==
  /\ Deliver(w, j)
  /\ status[j] \in Active /\ cancel[j]
  /\ Move(j, "cancelled", NoWorker, 0, "job_cancelled")
  /\ UNCHANGED <<attempts, wait, cancel, slots>>

\* claim_job returns None or a terminal row: the task ends, the message is gone.
ClaimRefused(w, j) ==
  /\ Deliver(w, j)
  /\ ~Claimable(j)
  /\ ~(status[j] \in Active /\ cancel[j])
  /\ UNCHANGED <<columns, slots>>

\* The handler returns, raises, or the task is refused for good (route or scope
\* mismatch, invalid input: fail_job with retryable=False).
HandlerEnds(w) ==
  /\ phase[w] = "handler"
  /\ \E outcome \in {"returned", "raised", "rejected"} :
       phase' = [phase EXCEPT ![w] = outcome]
  /\ UNCHANGED <<columns, outbox, messages, doing, stalled, latest, faults>>

\* Mutant: worker_id=? is missing from the WHERE clauses.
OwnsWhoever(w, j) == status[j] = "running" /\ w \in Workers

\* The WHERE clause of heartbeat, complete_job and fail_job.
Owns(w, j) == status[j] = "running" /\ worker[j] = w

\* Mutant: the lease is extended from its old end instead of from now.
HeartbeatAdds(w) ==
  /\ phase[w] = "handler" /\ Owns(w, doing[w])
  /\ lease' = [lease EXCEPT ![doing[w]] = @ + LeaseTicks]
  /\ UNCHANGED <<status, worker, attempts, wait, cancel, dispatched, event,
                 outbox, messages, slots, faults>>

\* The heartbeat thread of _job_heartbeat: it renews an expired lease too, as
\* long as nobody recovered it.
Heartbeat(w) ==
  /\ phase[w] = "handler" /\ Owns(w, doing[w])
  /\ lease' = [lease EXCEPT ![doing[w]] = LeaseTicks]
  /\ UNCHANGED <<status, worker, attempts, wait, cancel, dispatched, event,
                 outbox, messages, slots, faults>>

\* The task returns and its message is acknowledged.
Leave(w) ==
  /\ doing' = [doing EXCEPT ![w] = NoJob]
  /\ phase' = [phase EXCEPT ![w] = "idle"]
  /\ stalled' = [stalled EXCEPT ![w] = FALSE]
  /\ latest' = [latest EXCEPT ![w] = FALSE]

\* A message about the task of w goes (back) to the broker, or does not.
MayPublish(w) ==
  \/ UNCHANGED messages
  \/ /\ messages[doing[w]] < MaxMessages
     /\ messages' = [messages EXCEPT ![doing[w]] = @ + 1]

\* Mutant: a result is accepted from whoever returns one.
CompleteUnfenced(w) ==
  /\ phase[w] = "returned"
  /\ \E s \in Finished : Move(doing[w], s, NoWorker, 0, "job_completed")
  /\ Leave(w)
  /\ UNCHANGED <<attempts, wait, cancel, dispatched, outbox, messages, faults>>

\* complete_job: neither the lease's expiry nor cancel_requested is looked at.
CompleteJob(w) ==
  /\ phase[w] = "returned" /\ Owns(w, doing[w])
  /\ \E s \in Finished : Move(doing[w], s, NoWorker, 0, "job_completed")
  /\ Leave(w)
  /\ UNCHANGED <<attempts, wait, cancel, dispatched, outbox, messages, faults>>

\* fail_job schedules a retry while the budget lasts; the task then publishes
\* its own next message with task.retry, unless Celery's max_retries is spent.
RetryJob(w) ==
  /\ phase[w] = "raised" /\ Owns(w, doing[w])
  /\ attempts[doing[w]] < MaxAttempts
  /\ Move(doing[w], "queued", NoWorker, 0, "job_retry_scheduled")
  /\ wait' = [wait EXCEPT ![doing[w]] = RetryTicks]
  /\ Leave(w)
  /\ MayPublish(w)
  /\ UNCHANGED <<attempts, cancel, dispatched, outbox, faults>>

FailJob(w) ==
  /\ \/ phase[w] = "rejected"
     \/ phase[w] = "raised" /\ ~(attempts[doing[w]] < MaxAttempts)
  /\ Owns(w, doing[w])
  /\ Move(doing[w], "failed", NoWorker, 0, "job_failed")
  /\ wait' = [wait EXCEPT ![doing[w]] = RetryTicks]
  /\ Leave(w)
  /\ UNCHANGED <<attempts, cancel, dispatched, outbox, messages, faults>>

\* complete_job or fail_job raises BackgroundJobLeaseError: nothing is written.
LeaseLost(w) ==
  /\ phase[w] \in {"returned", "raised", "rejected"}
  /\ ~Owns(w, doing[w])
  /\ Leave(w)
  /\ UNCHANGED <<columns, outbox, messages, faults>>

-----------------------------------------------------------------------------
(* Failures and time.                                                      *)

\* The process dies.  reject_on_worker_lost returns the message to the broker;
\* a hard time limit acknowledges it.
Crash(w) ==
  /\ Fault
  /\ phase[w] # "idle"
  /\ Leave(w)
  /\ MayPublish(w)
  /\ UNCHANGED <<columns, outbox>>

\* The heartbeat thread dies of a database error (nothing catches it), or the
\* whole process is paused.
Stall(w) ==
  /\ Fault
  /\ phase[w] # "idle" /\ ~stalled[w]
  /\ stalled' = [stalled EXCEPT ![w] = TRUE]
  /\ UNCHANGED <<columns, outbox, messages, doing, phase, latest>>

\* complete_job fails in the database: the task's except clause turns a
\* finished handler into a retryable failure.
CommitFails(w) ==
  /\ Fault
  /\ phase[w] = "returned"
  /\ phase' = [phase EXCEPT ![w] = "raised"]
  /\ UNCHANGED <<columns, outbox, messages, doing, stalled, latest>>

\* The visibility timeout passes and Redis delivers the unacknowledged message
\* of a live execution once more.
Redeliver(w) ==
  /\ Fault
  /\ phase[w] # "idle" /\ messages[doing[w]] < MaxMessages
  /\ messages' = [messages EXCEPT ![doing[w]] = @ + 1]
  /\ UNCHANGED <<columns, outbox, slots>>

LoseMessage(j) ==
  /\ Fault
  /\ messages[j] > 0
  /\ messages' = [messages EXCEPT ![j] = @ - 1]
  /\ UNCHANGED <<columns, outbox, slots>>

\* An execution that has not stalled beats every third of its lease and needs
\* far less than a lease to commit, so time does not run its lease out.
KeepsLease(w) == phase[w] # "idle" /\ ~stalled[w] /\ Owns(w, doing[w])

OneLess(f) == [j \in Jobs |-> IF f[j] > 0 THEN f[j] - 1 ELSE 0]

Tick ==
  /\ \E j \in Jobs : lease[j] > 0 \/ wait[j] > 0
  /\ \A w \in Workers : KeepsLease(w) => lease[doing[w]] # 1
  /\ lease' = OneLess(lease)
  /\ wait' = OneLess(wait)
  /\ UNCHANGED <<status, worker, attempts, cancel, dispatched, event,
                 outbox, messages, slots, faults>>

-----------------------------------------------------------------------------
Claim(w, j) == ClaimGranted(w, j) \/ ClaimCancels(w, j) \/ ClaimRefused(w, j)

Settle(w) == CompleteJob(w) \/ RetryJob(w) \/ FailJob(w) \/ LeaseLost(w)

Next ==
  \/ \E j \in Jobs : \/ CreateJob(j) \/ RequestCancel(j)
                     \/ List(j) \/ Send(j) \/ MarkDispatched(j)
                     \/ PublisherFails(j) \/ LoseMessage(j)
  \/ \E w \in Workers, j \in Jobs : Claim(w, j)
  \/ \E w \in Workers : \/ HandlerEnds(w) \/ Heartbeat(w) \/ Settle(w)
                        \/ Crash(w) \/ Stall(w) \/ CommitFails(w) \/ Redeliver(w)
  \/ RecoverExpiredJobs
  \/ Tick

Spec == Init /\ [][Next]_vars

\* Beat runs the dispatcher for ever, the broker's lists are first-in
\* first-out, and time limits end every handler.
Fairness ==
  /\ WF_vars(RecoverExpiredJobs) /\ WF_vars(Tick)
  /\ \A j \in Jobs : /\ WF_vars(List(j)) /\ WF_vars(Send(j))
                     /\ WF_vars(MarkDispatched(j))
                     /\ SF_vars(\E w \in Workers : Claim(w, j))
  /\ \A w \in Workers : WF_vars(HandlerEnds(w)) /\ WF_vars(Settle(w))

FairSpec == Spec /\ Fairness

-----------------------------------------------------------------------------
(* Properties.                                                             *)

\* The fence: worker_id is only a host name, and yet an execution that the row
\* accepts is always the one that made the latest claim.
OwnerIsLatestClaim ==
  \A w \in Workers : phase[w] # "idle" /\ Owns(w, doing[w]) => latest[w]

StatusOf(e) ==
  CASE e = "none" -> {"absent"}
    [] e \in {"job_queued", "job_lease_expired", "job_retry_scheduled"} -> {"queued"}
    [] e = "job_started" -> {"running"}
    [] e = "job_completed" -> Finished
    [] e = "job_failed" -> {"failed"}
    [] e = "job_cancelled" -> {"cancelled"}

\* The last status event of the tamper-evident chain tells the row's status:
\* the chain can be replayed into the table.
ChainAgreesWithRow == \A j \in Jobs : status[j] \in StatusOf(event[j])

row(j) == <<status[j], worker[j], lease[j], attempts[j], cancel[j], dispatched[j], event[j]>>

RowIsFinal == \A j \in Jobs : status[j] \in Decided => row(j)' = row(j)

\* A terminal row is never written again: not by a late worker, a duplicate
\* message, a late mark_dispatched, a cancellation or the recovery.
DecidedIsFinal == [][RowIsFinal]_vars

LatestCommits ==
  \A j \in Jobs :
    status[j] \notin Finished /\ status'[j] \in Finished =>
      \E w \in Workers : /\ doing[w] = j /\ latest[w]
                         /\ phase[w] = "returned" /\ phase'[w] = "idle"

\* A result comes from the execution that made the latest claim.
OnlyLatestClaimCommits == [][LatestCommits]_vars

NoNewAttempt ==
  \A j \in Jobs : cancel[j] =>
    /\ cancel'[j]
    /\ attempts'[j] = attempts[j]
    /\ status[j] # "running" => status'[j] # "running"

\* Once a cancellation is requested no further attempt starts.
CancelStopsAttempts == [][NoNewAttempt]_vars

\* A queued job is settled in the end, whatever messages were lost and
\* whichever workers died, unless somebody asks for its cancellation.
JobsSettle ==
  \A j \in Jobs : status[j] \in Active ~> status[j] \in Decided \/ cancel[j]

\* DEPLOY.md says that the scheduler dispatches the unfinished tasks again from
\* the database when Redis loses its messages.
UnfinishedIsRedispatched ==
  \A j \in Jobs : status[j] \in Active ~> status[j] \in Decided

-----------------------------------------------------------------------------
\* What the envelope promises its callers, whatever Celery does.
Promise == INSTANCE LeasedOutcome WITH
  Items <- Jobs, Processes <- Workers, Nobody <- NoWorker,
  HolderOutcomes <- Finished \cup {"failed"}, OpenOutcomes <- {"cancelled"},
  Pending <- "pending",
  holder  <- worker,
  outcome <- [j \in Jobs |-> IF status[j] \in Decided THEN status[j] ELSE "pending"]

\* The detailed envelope implements that promise.
KeepsPromise == Promise!Spec
=============================================================================
