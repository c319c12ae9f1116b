---------------------------- MODULE AlphaForecasts ----------------------------
(***************************************************************************)
(* One program of probability forecasts (src/backend/                      *)
(* alpha_forecast_repository.py and alpha_forecast_service.py).  A request *)
(* of the user or the maintenance that Celery Beat sends makes a run and   *)
(* then its message; a worker executes it and publishes forecasts, whose   *)
(* outcomes the maintenance and a worker asked by the user settle once the *)
(* days they are about have passed.  A run has no lease.  Tasks go through *)
(* Celery here; embedded, a request would execute its run itself.          *)
(***************************************************************************)
EXTENDS Naturals, FiniteSets

CONSTANTS
  Workers,    \* executions that can be under way at the same time
  Callers,    \* requests and maintenance
  Settlers,   \* settlements
  Nobody,
  MaxRuns, MaxDays, MaxChanges, MaxFaults \* bounds

Runs == 1..MaxRuns

VARIABLES
  status,     \* alpha_forecast_programs.status
  dueOn,      \* next_run_at, a day
  today,
  run,        \* alpha_forecast_runs, in the order they were made
  published,  \* alpha_forecasts of each run: who computed them
  outcome,    \* alpha_forecast_outcomes: the settlement each comes from
  queue,      \* messages with the id of a run
  caller,     \* what each request has done so far
  exec,       \* the run of each execution
  settler,    \* the forecasts each settlement has yet to look at
  stranded,   \* history: the runs whose message or execution was lost for good
  changes, faults

vars == <<status, dueOn, today, run, published, outcome, queue, caller, exec, settler, changes, stranded, faults>>

NoRun == [status |-> "none", manual |-> FALSE, day |-> 0, sent |-> FALSE]

Init ==
  /\ status = "active" /\ dueOn = 0 /\ today = 0
  /\ run = [r \in Runs |-> NoRun]
  /\ published = [r \in Runs |-> Nobody] /\ outcome = [r \in Runs |-> Nobody]
  /\ queue = {}
  /\ caller = [c \in Callers |-> 0]
  /\ exec = [w \in Workers |-> 0] /\ settler = [s \in Settlers |-> {}]
  /\ stranded = {} /\ changes = 0 /\ faults = 0

Made == {r \in Runs : run[r].status # "none"}
Unfinished == {r \in Made : run[r].status \in {"queued", "running"}}

NextDay ==
  /\ today < MaxDays /\ today' = today + 1
  /\ UNCHANGED <<status, dueOn, run, published, outcome, queue, caller, exec, settler, changes, stranded, faults>>

\* transition_program: a program that resumes is due at once.
Transition ==
  /\ changes < MaxChanges /\ changes' = changes + 1
  /\ \/ status = "active" /\ status' \in {"paused", "retired"} /\ dueOn' = dueOn
     \/ status = "paused" /\ status' = "retired" /\ dueOn' = dueOn
     \/ status = "paused" /\ status' = "active" /\ dueOn' = today
  /\ UNCHANGED <<today, run, published, outcome, queue, caller, exec, settler, stranded, faults>>

-----------------------------------------------------------------------------
\* create_run
Create(c, manual) ==
  /\ caller[c] = 0 /\ status = "active" /\ Unfinished = {}
  /\ \E r \in Runs :
       /\ Made = 1..(r - 1)
       /\ run' = [run EXCEPT ![r] = [NoRun EXCEPT !.status = "queued", !.manual = manual, !.day = today]]
       /\ caller' = [caller EXCEPT ![c] = r]
  /\ UNCHANGED <<status, dueOn, today, published, outcome, queue, exec, settler, changes, stranded, faults>>

\* start_program_run with a key of its own
Request(c) == Create(c, TRUE)

\* maintain_programs: the program is due and has no run under way; the key is
\* the day, so that a run that failed is not repeated on the same day.
Maintain(c) ==
  /\ dueOn <= today /\ \A r \in Made : run[r].manual \/ run[r].day # today
  /\ Create(c, FALSE)

\* enqueue_alpha_forecast_run
Send(c) ==
  /\ caller[c] # 0 /\ ~run[caller[c]].sent
  /\ queue' = queue \cup {caller[c]}
  /\ run' = [run EXCEPT ![caller[c]].sent = TRUE]
  /\ UNCHANGED <<status, dueOn, today, published, outcome, caller, exec, settler, changes, stranded, faults>>

\* Mutant: a run that has ended fails too.
FailedAnyway(r) == run' = [run EXCEPT ![r].status = "failed"]

\* fail_run
Failed(r) ==
  run' = IF r \in Unfinished THEN [run EXCEPT ![r].status = "failed"] ELSE run

\* bind_task, after which the request is answered
Bind(c) ==
  /\ caller[c] # 0 /\ run[caller[c]].sent
  /\ caller' = [caller EXCEPT ![c] = 0]
  /\ UNCHANGED <<status, dueOn, today, run, published, outcome, queue, exec, settler, changes, stranded, faults>>

\* Sending or binding raises, although the message may be out.
SendFails(c) ==
  /\ caller[c] # 0 /\ faults < MaxFaults /\ faults' = faults + 1
  /\ Failed(caller[c])
  /\ caller' = [caller EXCEPT ![c] = 0]
  /\ UNCHANGED <<status, dueOn, today, published, outcome, queue, exec, settler, changes, stranded>>

\* The process ends between the transactions, or fail_run raises as well.
CallerDies(c) ==
  /\ caller[c] # 0 /\ faults < MaxFaults /\ faults' = faults + 1
  /\ caller' = [caller EXCEPT ![c] = 0]
  /\ UNCHANGED <<status, dueOn, today, run, published, outcome, queue, exec, settler, changes, stranded>>

-----------------------------------------------------------------------------
\* execute_run, up to mark_running
Execute(w) ==
  /\ exec[w] = 0
  /\ \E r \in queue :
       /\ queue' = queue \ {r}
       /\ \/ /\ r \in Unfinished
             /\ exec' = [exec EXCEPT ![w] = r]
             /\ run' = [run EXCEPT ![r].status = "running"]
          \/ r \notin Unfinished /\ UNCHANGED <<exec, run>>
  /\ UNCHANGED <<status, dueOn, today, published, outcome, caller, settler, changes, stranded, faults>>

\* Mutant: the forecasts are inserted without asking whether the run is over.
FinishAnyway(w) ==
  /\ exec[w] # 0
  /\ exec' = [exec EXCEPT ![w] = 0]
  /\ run' = [run EXCEPT ![exec[w]].status = "succeeded"]
  /\ published' = [published EXCEPT ![exec[w]] = w]
  /\ dueOn' = today + 1
  /\ UNCHANGED <<status, today, outcome, queue, caller, settler, changes, stranded, faults>>

\* complete_run, or the conflict when the run is over, whose fail_run then
\* changes nothing
Finish(w) ==
  /\ exec[w] # 0
  /\ exec' = [exec EXCEPT ![w] = 0]
  /\ \/ /\ exec[w] \in Unfinished
        /\ run' = [run EXCEPT ![exec[w]].status = "succeeded"]
        /\ published' = [published EXCEPT ![exec[w]] = w]
        /\ dueOn' = today + 1
     \/ exec[w] \notin Unfinished /\ UNCHANGED <<run, published, dueOn>>
  /\ UNCHANGED <<status, today, outcome, queue, caller, settler, changes, stranded, faults>>

\* The handlers of execute_run and of the task, which fail the run whoever
\* else is executing it.
Fail(w) ==
  /\ exec[w] # 0
  /\ exec' = [exec EXCEPT ![w] = 0]
  /\ Failed(exec[w])
  /\ UNCHANGED <<status, dueOn, today, published, outcome, queue, caller, settler, changes, stranded, faults>>

\* Mutant: the message was acknowledged when it was delivered.
WorkerDiesAcked(w) ==
  /\ exec[w] # 0 /\ faults < MaxFaults /\ faults' = faults + 1
  /\ exec' = [exec EXCEPT ![w] = 0]
  /\ UNCHANGED <<status, dueOn, today, run, published, outcome, queue, caller, settler, changes, stranded>>

\* The worker's process ends, and the broker delivers the message again.
WorkerDies(w) ==
  /\ exec[w] # 0 /\ faults < MaxFaults /\ faults' = faults + 1
  /\ exec' = [exec EXCEPT ![w] = 0] /\ queue' = queue \cup {exec[w]}
  /\ UNCHANGED <<status, dueOn, today, run, published, outcome, caller, settler, changes, stranded>>

\* The broker delivers a message again although its execution is under way.
Redeliver(w) ==
  /\ exec[w] # 0 /\ faults < MaxFaults /\ faults' = faults + 1
  /\ queue' = queue \cup {exec[w]}
  /\ UNCHANGED <<status, dueOn, today, run, published, outcome, caller, exec, settler, changes, stranded>>

\* A message is lost, or what is done with it raises before the try of execute_run:
\* mark_running has committed or not, and the message is acknowledged.
Lose(r) ==
  /\ r \in queue /\ faults < MaxFaults /\ faults' = faults + 1
  /\ queue' = queue \ {r} /\ stranded' = stranded \cup {r}
  /\ \/ UNCHANGED run
     \/ r \in Unfinished /\ run' = [run EXCEPT ![r].status = "running"]
  /\ UNCHANGED <<status, dueOn, today, published, outcome, caller, exec, settler, changes>>

\* fail_run raises in the handlers too, or the hard limit ends them: the message is
\* acknowledged, and nobody looks for the run.
Abandon(w) ==
  /\ exec[w] # 0 /\ faults < MaxFaults /\ faults' = faults + 1
  /\ exec' = [exec EXCEPT ![w] = 0] /\ stranded' = stranded \cup {exec[w]}
  /\ UNCHANGED <<status, dueOn, today, run, published, outcome, queue, caller, settler, changes>>

-----------------------------------------------------------------------------
\* list_pending_forecasts
Pending == {r \in Runs : published[r] # Nobody /\ outcome[r] = Nobody /\ run[r].day < today}

\* settle_mature_outcomes
Settle(s) ==
  /\ settler[s] = {} /\ Pending # {}
  /\ settler' = [settler EXCEPT ![s] = Pending]
  /\ UNCHANGED <<status, dueOn, today, run, published, outcome, queue, caller, exec, changes, stranded, faults>>

\* Mutant: the outcome replaces the one that is there.
RecordOver(s) ==
  \E r \in settler[s] :
    /\ outcome' = [outcome EXCEPT ![r] = s]
    /\ settler' = [settler EXCEPT ![s] = @ \ {r}]
    /\ UNCHANGED <<status, dueOn, today, run, published, queue, caller, exec, changes, stranded, faults>>

\* record_outcome.  Outcomes of two settlements never have the same payload,
\* which names its actor and source: when there is one the whole settlement
\* raises.  The history may also not be there yet, or not be read at all.
Record(s) ==
  \E r \in settler[s] :
    /\ \/ /\ outcome[r] = Nobody /\ outcome' = [outcome EXCEPT ![r] = s]
          /\ settler' = [settler EXCEPT ![s] = @ \ {r}]
       \/ outcome[r] # Nobody /\ outcome' = outcome /\ settler' = [settler EXCEPT ![s] = {}]
    /\ UNCHANGED <<status, dueOn, today, run, published, queue, caller, exec, changes, stranded, faults>>

\* An observation of a forecast cannot be made, or the benchmark's cannot,
\* which ends the settlement.
Miss(s) ==
  /\ settler[s] # {} /\ faults < MaxFaults /\ faults' = faults + 1
  /\ settler' = [settler EXCEPT ![s] = {}]
  /\ UNCHANGED <<status, dueOn, today, run, published, outcome, queue, caller, exec, changes, stranded>>

-----------------------------------------------------------------------------
Next ==
  \/ NextDay \/ Transition
  \/ \E c \in Callers :
       Request(c) \/ Maintain(c) \/ Send(c) \/ Bind(c) \/ SendFails(c) \/ CallerDies(c)
  \/ \E w \in Workers :
       Execute(w) \/ Finish(w) \/ Fail(w) \/ WorkerDies(w) \/ Redeliver(w) \/ Abandon(w)
  \/ \E r \in Runs : Lose(r)
  \/ \E s \in Settlers : Settle(s) \/ Record(s) \/ Miss(s)

\* A request goes on, and workers take messages and end what they execute.
Fairness ==
  /\ \A c \in Callers : WF_vars(Send(c) \/ Bind(c))
  /\ WF_vars(\E w \in Workers : Execute(w))
  /\ \A w \in Workers : WF_vars(Finish(w) \/ Fail(w))

Spec == Init /\ [][Next]_vars /\ Fairness

-----------------------------------------------------------------------------
(* Properties.                                                             *)

\* Everything has its type.
TypeOK ==
  /\ status \in {"active", "paused", "retired"} /\ dueOn \in 0..(MaxDays + 1) /\ today \in 0..MaxDays
  /\ \A r \in Runs :
       /\ run[r].status \in {"none", "queued", "running", "succeeded", "failed"}
       /\ run[r].manual \in BOOLEAN /\ run[r].day \in 0..MaxDays /\ run[r].sent \in BOOLEAN
  /\ published \in [Runs -> Workers \cup {Nobody}] /\ outcome \in [Runs -> Settlers \cup {Nobody}]
  /\ queue \subseteq Runs
  /\ caller \in [Callers -> 0..MaxRuns] /\ exec \in [Workers -> 0..MaxRuns]
  /\ settler \in [Settlers -> SUBSET Runs] /\ stranded \subseteq Runs

\* A run has forecasts if and only if it succeeded, and at most one run has
\* yet to end, however many executions of it overlap and fail.
PublishedIsSucceeded ==
  /\ \A r \in Runs : published[r] # Nobody <=> run[r].status = "succeeded"
  /\ Cardinality(Unfinished) <= 1

\* Forecasts and outcomes are facts: whichever executions and settlements
\* overlap, what was published or observed first stands.
FactsStand ==
  [][\A r \in Runs : /\ published[r] # Nobody => published'[r] = published[r]
                     /\ outcome[r] # Nobody => outcome'[r] = outcome[r]]_vars

\* A run whose message was sent ends, and the program is free to run again, however
\* often workers die, unless a message or an execution of it was lost for good: then
\* it may stay open, and only once nothing is left that could end it.
SentIsEnded ==
  \A r \in Unfinished : run[r].sent =>
    r \in stranded /\ r \notin queue /\ \A w \in Workers : exec[w] # r

SentRunEnds == []<>SentIsEnded

\* docs/updates/2026-07-26-004-calibrated-multi-horizon-alpha-lab.md: the
\* maintenance reclaims or redispatches abnormal runs.
AbnormalRunEnds == \A r \in Runs : r \in Unfinished ~> r \notin Unfinished
=============================================================================
