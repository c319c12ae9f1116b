---------------------------- MODULE SelectionRuns ----------------------------
(***************************************************************************)
(* Selection runs from their request to the paper basket that tries their  *)
(* result out: the row of a run (quant_selection_repository.py), the job   *)
(* that executes it (quant_selection_service.py, background_tasks.py; the  *)
(* job itself is BackgroundJobs'), the mandate a user freezes from it and  *)
(* the forward validation a mandate is enrolled in                         *)
(* (quant_selection_forward_service.py and _repository.py).  What a run    *)
(* computes is a choice (SelectionScores, QuantSimulation).                *)
(***************************************************************************)
EXTENDS Naturals, FiniteSets

CONSTANTS
  Runs,
  Requests,     \* that are served at the same time
  Results,      \* what an execution may come to
  Ready,        \* results that may be tried on paper
  Policy,       \* of each run: one strategy for one policy
  None,
  MaxDay

VARIABLES
  run,          \* quant_selection_runs
  job,          \* background_jobs
  executor,     \* of each run: "owner", "computing", "lost", "inline"
  mandate,      \* quant_selection_shadow_mandates: the result that was frozen
  validation,   \* quant_selection_forward_validations, and the basket's dates
  strategy,     \* of each policy, opportunity_strategies: "none", "active", "changed"
  today,
  request

execution == <<run, job, executor>>
frozen == <<mandate, validation, strategy>>
vars == <<execution, frozen, today, request>>

NoRun == [status |-> "none", bound |-> FALSE, result |-> None]
Idle == [at |-> "idle", run |-> None, saw |-> None]
Terminal == {"succeeded", "partial", "failed"}

\* A strategy may be there already, from a run before these.
Init ==
  /\ run = [r \in Runs |-> NoRun] /\ job = [r \in Runs |-> "none"]
  /\ executor = [r \in Runs |-> {}]
  /\ mandate = [r \in Runs |-> None] /\ validation = [r \in Runs |-> None]
  /\ strategy \in [{Policy[r] : r \in Runs} -> {"none", "active", "changed"}]
  /\ today = 0 /\ request = [q \in Requests |-> Idle]

Become(q, form) == request' = [request EXCEPT ![q] = form]
Answered(q) == Become(q, Idle)

-----------------------------------------------------------------------------
(* start_run.                                                              *)

Create(q, r) ==
  /\ request[q] = Idle /\ run[r] = NoRun
  /\ run' = [run EXCEPT ![r].status = "queued"]
  /\ Become(q, [Idle EXCEPT !.at = "created", !.run = r])
  /\ UNCHANGED <<job, executor, frozen, today>>

\* Without a queue the request executes the run itself.
ExecuteInline(q) ==
  /\ request[q].at = "created" /\ Answered(q)
  /\ run' = [run EXCEPT ![request[q].run].status = "running"]
  /\ executor' = [executor EXCEPT ![request[q].run] = {"inline"}]
  /\ UNCHANGED <<job, frozen, today>>

CreateJob(q) ==
  /\ request[q].at = "created" /\ Become(q, [request[q] EXCEPT !.at = "bind"])
  /\ job' = [job EXCEPT ![request[q].run] = "queued"]
  /\ UNCHANGED <<run, executor, frozen, today>>

\* fail_run leaves a run that has ended as it is.
Failed(r) == IF run[r].status \in Terminal THEN run[r] ELSE [run[r] EXCEPT !.status = "failed"]

\* bind_job and the message; any exception fails the run, also one that a
\* worker has begun by then.
Bind(q) ==
  /\ request[q].at = "bind" /\ Answered(q)
  /\ LET r == request[q].run IN
     \/ run[r].status = "queued" /\ run' = [run EXCEPT ![r].bound = TRUE]
     \/ run' = [run EXCEPT ![r] = Failed(r)]
  /\ UNCHANGED <<job, executor, frozen, today>>

-----------------------------------------------------------------------------
(* execute_quant_selection_run_job and execute_run.                        *)

Owns(e) == e \in {"owner", "computing"}

\* claim_job: a job that is queued, or whose lease has passed
Claim(r) ==
  /\ job[r] \in {"queued", "running"} /\ executor[r] \subseteq {"computing"}
  /\ job' = [job EXCEPT ![r] = "running"]
  /\ executor' = [executor EXCEPT ![r] = {"owner"} \cup {"lost" : e \in @}]
  /\ UNCHANGED <<run, frozen, today, request>>

\* The job of a worker that lost it is left alone.
Concluded(r, e, status) == IF Owns(e) THEN [job EXCEPT ![r] = status] ELSE job

\* A run that has a result is answered; mark_running refuses one that failed.
Begin(r) ==
  /\ "owner" \in executor[r]
  /\ IF run[r].status \in Terminal
     THEN /\ job' = Concluded(r, "owner", IF run[r].result = None THEN "failed" ELSE "succeeded")
          /\ executor' = [executor EXCEPT ![r] = @ \ {"owner"}] /\ UNCHANGED run
     ELSE /\ run' = [run EXCEPT ![r].status = "running"] /\ UNCHANGED job
          /\ executor' = [executor EXCEPT ![r] = (@ \ {"owner"}) \cup {"computing"}]
  /\ UNCHANGED <<frozen, today, request>>

\* complete_run refuses a run that has ended.
Unfinished(r) == run[r].status \notin Terminal

Complete(r, e, x) ==
  /\ e \in executor[r] \ {"owner"} /\ executor' = [executor EXCEPT ![r] = @ \ {e}]
  /\ IF Unfinished(r)
     THEN /\ \E status \in {"succeeded", "partial"} :
               run' = [run EXCEPT ![r].status = status, ![r].result = x]
          /\ job' = Concluded(r, e, "succeeded")
     ELSE UNCHANGED run /\ job' = Concluded(r, e, "failed")
  /\ UNCHANGED <<frozen, today, request>>

Fail(r, e) ==
  /\ e \in executor[r] \ {"owner"} /\ executor' = [executor EXCEPT ![r] = @ \ {e}]
  /\ run' = [run EXCEPT ![r] = Failed(r)] /\ job' = Concluded(r, e, "failed")
  /\ UNCHANGED <<frozen, today, request>>

\* The process dies; what becomes of the job is up to its recovery.
Die(r, e) ==
  /\ e \in executor[r] /\ executor' = [executor EXCEPT ![r] = @ \ {e}]
  /\ \E status \in {"queued", "failed"} : job' = Concluded(r, e, status)
  /\ UNCHANGED <<run, frozen, today, request>>

\* refresh_run_status: run and job are read one after the other.
Refresh(r) ==
  /\ run[r].status \in {"queued", "running"} /\ run[r].bound /\ job[r] = "failed"
  /\ run' = [run EXCEPT ![r] = Failed(r)]
  /\ UNCHANGED <<job, executor, frozen, today, request>>

-----------------------------------------------------------------------------
(* freeze_shadow_mandate, enroll_validation: read, compare, append.        *)

ReadFreeze(q, r) ==
  /\ request[q] = Idle /\ run[r].result \in Ready
  /\ Become(q, [at |-> "freeze", run |-> r, saw |-> run[r].result])
  /\ UNCHANGED <<execution, frozen, today>>

\* create_shadow_mandate: the first stays, whatever the later ones bring
Freeze(q) ==
  /\ request[q].at = "freeze" /\ Answered(q)
  /\ LET r == request[q].run IN
     mandate' = [mandate EXCEPT ![r] = IF @ = None THEN request[q].saw ELSE @]
  /\ UNCHANGED <<execution, validation, strategy, today>>

\* The dates are those of this moment.
ReadEnroll(q, r) ==
  /\ request[q] = Idle /\ mandate[r] # None /\ run[r].result = mandate[r]
  /\ Become(q, [at |-> "enroll", run |-> r, saw |-> today])
  /\ UNCHANGED <<execution, frozen, today>>

\* create_validation: the strategy of the policy must be as it was made.
Enroll(q) ==
  /\ request[q].at = "enroll" /\ Answered(q)
  /\ LET r == request[q].run IN
     /\ validation[r] = None /\ strategy[Policy[r]] # "changed"
     /\ validation' = [validation EXCEPT ![r] =
          [result |-> mandate[r], after |-> request[q].saw, entered |-> None]]
     /\ strategy' = [strategy EXCEPT ![Policy[r]] = "active"]
  /\ UNCHANGED <<execution, mandate, today>>

\* The user edits or archives the strategy like any other of the factory's.
ChangeStrategy(p) ==
  /\ strategy[p] = "active" /\ strategy' = [strategy EXCEPT ![p] = "changed"]
  /\ UNCHANGED <<execution, mandate, validation, today, request>>

\* An observation enters at the open of a day after the enrolment (PaperBaskets).
Enter(r) ==
  /\ validation[r] # None /\ validation[r].entered = None /\ today > validation[r].after
  /\ validation' = [validation EXCEPT ![r].entered = today]
  /\ UNCHANGED <<execution, mandate, strategy, today, request>>

NextDay ==
  /\ today < MaxDay /\ today' = today + 1
  /\ UNCHANGED <<execution, frozen, request>>

\* A request is refused, or its process ends.
Drop(q) ==
  /\ request[q] # Idle /\ Answered(q) /\ UNCHANGED <<execution, frozen, today>>

-----------------------------------------------------------------------------
Next ==
  \/ \E q \in Requests :
       \/ ExecuteInline(q) \/ CreateJob(q) \/ Bind(q) \/ Freeze(q) \/ Enroll(q) \/ Drop(q)
       \/ \E r \in Runs : Create(q, r) \/ ReadFreeze(q, r) \/ ReadEnroll(q, r)
  \/ \E r \in Runs :
       \/ Claim(r) \/ Begin(r) \/ Refresh(r) \/ Enter(r)
       \/ \E e \in {"owner", "computing", "lost", "inline"} :
            Fail(r, e) \/ Die(r, e) \/ \E x \in Results : Complete(r, e, x)
  \/ \E p \in DOMAIN strategy : ChangeStrategy(p)
  \/ NextDay

Spec == Init /\ [][Next]_vars

-----------------------------------------------------------------------------
(* Properties.                                                             *)

\* Everything has its type.
TypeOK ==
  /\ run \in [Runs -> [status : {"none", "queued", "running"} \cup Terminal, bound : BOOLEAN,
                       result : Results \cup {None}]]
  /\ job \in [Runs -> {"none", "queued", "running", "succeeded", "failed"}]
  /\ mandate \in [Runs -> Ready \cup {None}] /\ today \in 0 .. MaxDay
  /\ \A r \in Runs : executor[r] \subseteq {"owner", "computing", "lost", "inline"}

\* A job that succeeded has the result of its run; what was frozen and what is
\* tried on paper is that result, although executions overlap and requests act
\* on what they have read; and no basket is bought before its enrolment is over.
PaperIsBacked ==
  \A r \in Runs :
    /\ job[r] = "succeeded" => run[r].result # None
    /\ run[r].status \in {"succeeded", "partial"} <=> run[r].result # None
    /\ mandate[r] # None => mandate[r] = run[r].result
    /\ validation[r] # None =>
         /\ validation[r].result = run[r].result
         /\ validation[r].entered # None => validation[r].entered > validation[r].after
=============================================================================
