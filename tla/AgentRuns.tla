------------------------------ MODULE AgentRuns ------------------------------
(***************************************************************************)
(* One Agent Run: its row, steps, evidence and claims in                   *)
(* src/backend/agent/repository.py, the workflow that executes it          *)
(* (src/backend/agent/workflow.py) and the two ways it is scheduled: by    *)
(* Celery (background_tasks.py) in production, by the threads of one       *)
(* process (agent/worker.py) when embedded.                                *)
(*                                                                         *)
(* Repository methods are serialised transactions, hence single actions.   *)
(* The workflow is a sequence of them with reads of the cancel flag and of *)
(* the step in between, and none of its writes names the worker or the     *)
(* lease under which it is made.  Runs share nothing but the workers, so   *)
(* one run is modelled; a worker that is busy with another run is one that *)
(* takes no step.                                                          *)
(***************************************************************************)
EXTENDS Naturals, FiniteSets

CONSTANTS
  Workers, Nobody,
  StepCount,    \* the steps of the run's plan are 1..StepCount
  Required,     \* steps whose failure fails the run
  Guarded,      \* steps of the research loop, which checks for cancellation
                \* first; governance, decision and synthesis come after it
  Inputs,       \* Inputs[s]: the steps whose evidence the input of s names
  Deployments,  \* TRUE: AgentWorker threads; FALSE: Celery
  LeaseTicks,   \* lease_seconds in ticks of the model's clock
  MaxMessages,  \* bound: messages in the broker at once
  MaxEvidence,  \* bound: evidence rows ever written
  MaxFaults,    \* bound: crashes, stalls, losses and duplications together
  MaxStalls     \* bound: of them, executions that stop renewing their lease

Steps == 1..StepCount

ASSUME NobodyAssumption == Nobody \notin Workers
ASSUME PlanAssumption ==
  /\ StepCount \in Nat \ {0}
  /\ Required \subseteq 1..StepCount /\ Guarded \subseteq 1..StepCount
  /\ Inputs \in [1..StepCount -> SUBSET (1..StepCount)]
ASSUME BoundAssumption ==
  /\ Deployments \subseteq BOOLEAN
  /\ LeaseTicks \in Nat \ {0} /\ MaxMessages \in Nat \ {0}
  /\ MaxEvidence \in Nat /\ MaxFaults \in Nat /\ MaxStalls \in Nat

Active   == {"queued", "running"}
Answered == {"completed", "partial"}
Terminal == Answered \cup {"failed", "cancelled"}   \* RUN_TERMINAL_STATUSES
Reusable == {"succeeded", "partial"}                \* STEP_REUSABLE_STATUSES

VARIABLES
  \* agent_runs
  status, owner, lease, cancel,
  result,    \* result_json: the evidence it cites for each step, 0 for none
  \* agent_steps, agent_evidence, agent_claims
  step,      \* status of each step
  input,     \* input_json: the evidence the input of each step names
  evidence,  \* evidence_id of each step, 0 for NULL
  written,   \* evidence rows written so far: they are numbered 1..written
  claims,    \* the evidence the claims about each step cite, 0 for none
  embedded,  \* the deployment
  messages,  \* the broker
  \* the executions: where each worker is in workflow.py, and its locals
  at, pos, cited, lacking, verdict, stalled,
  faults, stalls

run    == <<status, owner, lease, cancel, result>>
facts  == <<step, input, evidence, written, claims>>
locals == <<pos, cited, lacking, verdict, stalled>>
env    == <<embedded, messages, faults, stalls>>
vars   == <<run, facts, at, locals, env>>

Places == {"idle", "check", "read", "start", "tool", "commit", "failing",
           "cancelling", "build", "confirm", "finish", "handle"}
NoCitation   == [s \in Steps |-> 0]

TypeOK ==
  /\ status \in Active \cup Terminal
  /\ owner \in Workers \cup {Nobody}
  /\ lease \in 0..LeaseTicks
  /\ cancel \in BOOLEAN
  /\ result \in [Steps -> 0..MaxEvidence]
  /\ step \in [Steps -> {"absent", "queued", "running", "failed", "cancelled"} \cup Reusable]
  /\ \A s \in Steps : input[s] \in [Inputs[s] -> 0..MaxEvidence]
  /\ evidence \in [Steps -> 0..MaxEvidence]
  /\ written \in 0..MaxEvidence
  /\ claims \in [Steps -> 0..MaxEvidence]
  /\ at \in [Workers -> Places]
  /\ pos \in [Workers -> 1..(StepCount + 1)]
  /\ cited \in [Workers -> [Steps -> 0..MaxEvidence]]
  /\ lacking \in [Workers -> BOOLEAN]
  /\ verdict \in [Workers -> Terminal]
  /\ stalled \in [Workers -> BOOLEAN]
  /\ embedded \in Deployments
  /\ messages \in 0..MaxMessages
  /\ faults \in 0..MaxFaults /\ stalls \in 0..MaxStalls
  /\ \A w \in Workers :
       at[w] \in {"read", "start", "tool", "commit", "failing", "cancelling"} =>
         pos[w] \in Steps

\* create_run left the run in the queue; no message has been sent yet.
Init ==
  /\ status = "queued" /\ owner = Nobody /\ lease = 0 /\ cancel = FALSE
  /\ result = NoCitation
  /\ step = [s \in Steps |-> "absent"]
  /\ input = [s \in Steps |-> [t \in Inputs[s] |-> 0]]
  /\ evidence = NoCitation /\ written = 0 /\ claims = NoCitation
  /\ at = [w \in Workers |-> "idle"]
  /\ pos = [w \in Workers |-> 1]
  /\ cited = [w \in Workers |-> NoCitation]
  /\ lacking = [w \in Workers |-> FALSE]
  /\ verdict = [w \in Workers |-> "failed"]
  /\ stalled = [w \in Workers |-> FALSE]
  /\ embedded \in Deployments
  /\ messages = 0 /\ faults = 0 /\ stalls = 0

-----------------------------------------------------------------------------
(* The user.                                                               *)

\* request_cancel: a queued run is cancelled at once, a running one is asked.
RequestCancel ==
  /\ status \in Active
  /\ cancel' = TRUE
  /\ status' = IF status = "queued" THEN "cancelled" ELSE status
  /\ UNCHANGED <<owner, lease, result, facts, at, locals, env>>

-----------------------------------------------------------------------------
(* Scheduling.                                                             *)

\* dispatch_queued_runs: list_queued_run_ids skips the runs with the flag, and
\* enqueue_agent_run sends a message for every other one, again and again.
Dispatch ==
  /\ ~embedded
  /\ status = "queued" /\ ~cancel
  /\ messages < MaxMessages
  /\ messages' = messages + 1
  /\ UNCHANGED <<run, facts, at, locals, embedded, faults, stalls>>

\* Mutant: every step goes back to the queue, finished or not.
RequeuedAll(steps) == [s \in Steps |-> IF steps[s] = "absent" THEN "absent" ELSE "queued"]

Requeued(steps) == [s \in Steps |-> IF steps[s] = "running" THEN "queued" ELSE steps[s]]

\* Mutant: the steps are reset and the run itself is not.
RecoverStepsOnly ==
  /\ ~embedded
  /\ status = "running" /\ lease = 0
  /\ step' = Requeued(step)
  /\ UNCHANGED <<run, input, evidence, written, claims, at, locals, env>>

\* recover_expired_run_leases
RecoverExpired ==
  /\ ~embedded
  /\ status = "running" /\ lease = 0
  /\ status' = "queued" /\ owner' = Nobody
  /\ step' = Requeued(step)
  /\ UNCHANGED <<lease, cancel, result, input, evidence, written, claims, at, locals, env>>

\* The worker enters the workflow with fresh locals.
Enter(w) ==
  /\ status' = "running" /\ owner' = w /\ lease' = LeaseTicks
  /\ at' = [at EXCEPT ![w] = "check"]
  /\ pos' = [pos EXCEPT ![w] = 1]
  /\ cited' = [cited EXCEPT ![w] = NoCitation]
  /\ lacking' = [lacking EXCEPT ![w] = FALSE]
  /\ stalled' = [stalled EXCEPT ![w] = FALSE]
  /\ UNCHANGED <<cancel, result, facts, verdict>>

Deliver(w) ==
  /\ ~embedded
  /\ at[w] = "idle" /\ messages > 0
  /\ messages' = messages - 1
  /\ UNCHANGED <<embedded, faults, stalls>>

\* claim_run admits the same worker again at once, others after the lease.
Claimable(w) ==
  \/ status = "queued"
  \/ status = "running" /\ (owner = w \/ lease = 0)

ClaimRun(w) ==
  /\ Deliver(w)
  /\ Claimable(w) /\ ~cancel
  /\ Enter(w)

\* claim_run cancels a flagged run, even while another worker executes it.
ClaimCancels(w) ==
  /\ Deliver(w)
  /\ status \in Active /\ cancel
  /\ status' = "cancelled" /\ owner' = Nobody /\ lease' = 0
  /\ UNCHANGED <<cancel, result, facts, at, locals>>

\* Terminal, or under somebody else's live lease: the message is consumed.
ClaimRefused(w) ==
  /\ Deliver(w)
  /\ status \in Terminal \/ (~cancel /\ ~Claimable(w))
  /\ UNCHANGED <<run, facts, at, locals>>

\* claim_next_run: the polling threads of the embedded worker.
ClaimNextRun(w) ==
  /\ embedded
  /\ at[w] = "idle"
  /\ status = "queued" /\ ~cancel
  /\ Enter(w)
  /\ UNCHANGED env

\* renew_run_lease, every 60 seconds.  Embedded workers never renew.
RenewLease(w) ==
  /\ ~embedded
  /\ at[w] # "idle"
  /\ status = "running" /\ owner = w
  /\ lease' = LeaseTicks
  /\ UNCHANGED <<status, owner, cancel, result, facts, at, locals, env>>

-----------------------------------------------------------------------------
(* The workflow.  Go moves the program counter of w and nothing else.      *)

Go(w, place) == at' = [at EXCEPT ![w] = place]

\* finish_run with the verdict of the workflow, or in a handler of execute.
Conclude(w, v) == Go(w, "finish") /\ verdict' = [verdict EXCEPT ![w] = v]
Raise(w, v)    == Go(w, "handle") /\ verdict' = [verdict EXCEPT ![w] = v]

NextStep(w) ==
  /\ pos' = [pos EXCEPT ![w] = @ + 1]
  /\ Go(w, "check")

\* Mutant: the plan is left one step too late.
CheckOffByOne(w) ==
  /\ at[w] = "check"
  /\ LET looks == pos[w] \in Guarded \cup {StepCount + 1} IN
     \/ looks /\ cancel /\ Conclude(w, "cancelled")
     \/ /\ ~(looks /\ cancel)
        /\ Go(w, IF pos[w] <= StepCount + 1 THEN "read" ELSE "build")
        /\ UNCHANGED verdict
  /\ UNCHANGED <<run, facts, pos, cited, lacking, stalled, env>>

\* Before each step of the loop, and before the result is built.
CheckCancel(w) ==
  /\ at[w] = "check"
  /\ LET looks == pos[w] \in Guarded \cup {StepCount + 1} IN
     \/ looks /\ cancel /\ Conclude(w, "cancelled")
     \/ /\ ~(looks /\ cancel)
        /\ Go(w, IF pos[w] \in Steps THEN "read" ELSE "build")
        /\ UNCHANGED verdict
  /\ UNCHANGED <<run, facts, pos, cited, lacking, stalled, env>>

\* The evidence that the input of step s names in this execution.
Named(w, s) == [t \in Inputs[s] |-> cited[w][t]]

Finished(s) == step[s] \in Reusable /\ evidence[s] # 0

\* Mutant: a finished step is skipped, and its evidence not cited.
ReuseUncited(w) ==
  LET s == pos[w] IN
  /\ at[w] = "read"
  /\ Finished(s) /\ input[s] = Named(w, s)
  /\ NextStep(w)
  /\ UNCHANGED <<run, facts, cited, lacking, verdict, stalled, env>>

\* _execute_tool_step reads the step.  Finished work is cited, not repeated;
\* what was lacking in it is not noted again.
ReuseStep(w) ==
  LET s == pos[w] IN
  /\ at[w] = "read"
  /\ Finished(s) /\ input[s] = Named(w, s)
  /\ cited' = [cited EXCEPT ![w][s] = evidence[s]]
  /\ NextStep(w)
  /\ UNCHANGED <<run, facts, lacking, verdict, stalled, env>>

\* A finished step that was given another input: RequiredToolError, be the
\* step required or not.  It was meant for workflows of another version.
ContractDiffers(w) ==
  LET s == pos[w] IN
  /\ at[w] = "read"
  /\ Finished(s) /\ input[s] # Named(w, s)
  /\ Raise(w, "failed")
  /\ UNCHANGED <<run, facts, pos, cited, lacking, stalled, env>>

NothingToReuse(w) ==
  /\ at[w] = "read"
  /\ ~Finished(pos[w])
  /\ Go(w, "start")
  /\ UNCHANGED <<run, facts, locals, env>>

\* start_step resets the step, unless another execution has finished it since
\* it was read.  The tool is invoked in either case.
StartStep(w) ==
  LET s == pos[w]
      fresh == step[s] \notin Reusable IN
  /\ at[w] = "start"
  /\ step' = IF fresh THEN [step EXCEPT ![s] = "running"] ELSE step
  /\ input' = IF fresh THEN [input EXCEPT ![s] = Named(w, s)] ELSE input
  /\ evidence' = IF fresh THEN [evidence EXCEPT ![s] = 0] ELSE evidence
  /\ Go(w, "tool")
  /\ UNCHANGED <<run, written, claims, locals, env>>

\* _invoke_tool: the tool answers, fails or times out; or the poll of the
\* cancel flag comes first.
ToolReturns(w) == at[w] = "tool" /\ Go(w, "commit")  /\ UNCHANGED <<run, facts, locals, env>>
ToolFails(w)   == at[w] = "tool" /\ Go(w, "failing") /\ UNCHANGED <<run, facts, locals, env>>
ToolCancelled(w) ==
  /\ at[w] = "tool" /\ cancel
  /\ Go(w, "cancelling")
  /\ UNCHANGED <<run, facts, locals, env>>

\* complete_step_with_evidence asks neither who runs the run nor whether it is
\* still running.
CommitEvidence(w) ==
  LET s == pos[w] IN
  /\ at[w] = "commit"
  /\ written < MaxEvidence
  /\ written' = written + 1
  /\ evidence' = [evidence EXCEPT ![s] = written + 1]
  /\ cited' = [cited EXCEPT ![w][s] = written + 1]
  /\ \E quality \in Reusable :
       /\ step' = [step EXCEPT ![s] = quality]
       /\ lacking' = [lacking EXCEPT ![w] = @ \/ quality = "partial"]
  /\ NextStep(w)
  /\ UNCHANGED <<run, input, claims, verdict, stalled, env>>

\* Mutant: required steps are treated like optional ones.
FailStepOptional(w) ==
  LET s == pos[w] IN
  /\ at[w] = "failing"
  /\ step' = [step EXCEPT ![s] = "failed"]
  /\ lacking' = [lacking EXCEPT ![w] = TRUE]
  /\ NextStep(w)
  /\ UNCHANGED <<run, input, evidence, written, claims, cited, verdict, stalled, env>>

\* fail_step: a failed required step ends the run, an optional one leaves a gap.
FailStep(w) ==
  LET s == pos[w] IN
  /\ at[w] = "failing"
  /\ step' = [step EXCEPT ![s] = "failed"]
  /\ \/ s \in Required /\ Raise(w, "failed") /\ UNCHANGED <<pos, lacking>>
     \/ /\ s \notin Required
        /\ lacking' = [lacking EXCEPT ![w] = TRUE]
        /\ NextStep(w)
        /\ UNCHANGED verdict
  /\ UNCHANGED <<run, input, evidence, written, claims, cited, stalled, env>>

\* cancel_step only touches a step that is still running.
CancelStep(w) ==
  LET s == pos[w] IN
  /\ at[w] = "cancelling"
  /\ step' = IF step[s] = "running" THEN [step EXCEPT ![s] = "cancelled"] ELSE step
  /\ Raise(w, "cancelled")
  /\ UNCHANGED <<run, input, evidence, written, claims, pos, cited, lacking, stalled, env>>

\* _build_fund_result upserts the claims (add_claim).
BuildResult(w) ==
  /\ at[w] = "build"
  /\ claims' = [s \in Steps |-> IF cited[w][s] # 0 THEN cited[w][s] ELSE claims[s]]
  /\ Go(w, "confirm")
  /\ UNCHANGED <<run, step, input, evidence, written, locals, env>>

\* The last look at the flag, and the verdict.
Confirm(w) ==
  /\ at[w] = "confirm"
  /\ Conclude(w, IF cancel THEN "cancelled"
                 ELSE IF lacking[w] THEN "partial" ELSE "completed")
  /\ UNCHANGED <<run, facts, pos, cited, lacking, stalled, env>>

\* Mutant: the last verdict wins.
FinishAnyRun(w) ==
  /\ at[w] \in {"finish", "handle"}
  /\ status' = verdict[w]
  /\ owner' = Nobody /\ lease' = 0
  /\ result' = IF verdict[w] \in Answered THEN cited[w] ELSE NoCitation
  /\ UNCHANGED cancel
  /\ Go(w, "idle")
  /\ stalled' = [stalled EXCEPT ![w] = FALSE]
  /\ UNCHANGED <<facts, pos, cited, lacking, verdict, env>>

\* finish_run: the first verdict wins, whoever brings it.
FinishRun(w) ==
  /\ at[w] \in {"finish", "handle"}
  /\ IF status \in Terminal THEN UNCHANGED run
     ELSE /\ status' = verdict[w]
          /\ owner' = Nobody /\ lease' = 0
          /\ result' = IF verdict[w] \in Answered THEN cited[w] ELSE NoCitation
          /\ UNCHANGED cancel
  /\ Go(w, "idle")
  /\ stalled' = [stalled EXCEPT ![w] = FALSE]
  /\ UNCHANGED <<facts, pos, cited, lacking, verdict, env>>

-----------------------------------------------------------------------------
(* Failures and time.                                                      *)

Fault == faults < MaxFaults /\ faults' = faults + 1

MayPublish ==
  \/ UNCHANGED messages
  \/ messages < MaxMessages /\ messages' = messages + 1

\* A Celery worker dies, or its database does and the task is retried.
Crash(w) ==
  /\ ~embedded
  /\ Fault /\ MayPublish
  /\ at[w] # "idle"
  /\ Go(w, "idle")
  /\ stalled' = [stalled EXCEPT ![w] = FALSE]
  /\ UNCHANGED <<run, facts, pos, cited, lacking, verdict, embedded, stalls>>

\* Mutant: interrupted runs are requeued with their cancel flag set.
RestartRequeues ==
  /\ embedded
  /\ Fault
  /\ at' = [w \in Workers |-> "idle"]
  /\ IF status = "running"
     THEN /\ status' = "queued" /\ owner' = Nobody /\ lease' = 0
          /\ step' = Requeued(step)
     ELSE UNCHANGED <<status, owner, lease, step>>
  /\ UNCHANGED <<cancel, result, input, evidence, written, claims, locals, embedded, messages, stalls>>

\* The embedded process restarts: every thread is gone, and
\* recover_interrupted_runs requeues or cancels whatever was running.
Restart ==
  /\ embedded
  /\ Fault
  /\ at' = [w \in Workers |-> "idle"]
  /\ IF status = "running"
     THEN /\ status' = IF cancel THEN "cancelled" ELSE "queued"
          /\ owner' = Nobody /\ lease' = 0
          /\ step' = [s \in Steps |->
                        IF step[s] = "running"
                        THEN IF cancel THEN "cancelled" ELSE "queued" ELSE step[s]]
     ELSE UNCHANGED <<status, owner, lease, step>>
  /\ UNCHANGED <<cancel, result, input, evidence, written, claims, locals, embedded, messages, stalls>>

\* Redis duplicates or loses a message.
BrokerFault ==
  /\ ~embedded
  /\ Fault
  /\ \/ messages < MaxMessages /\ messages' = messages + 1
     \/ messages > 0 /\ messages' = messages - 1
  /\ UNCHANGED <<run, facts, at, locals, embedded, stalls>>

\* The database refuses a query of the workflow outside the try block of a
\* step: the last handler of execute concludes that the run has failed.
WorkflowFails(w) ==
  /\ Fault
  /\ at[w] \in {"check", "read", "start", "failing", "cancelling", "build", "confirm", "finish"}
  /\ Raise(w, "failed")
  /\ UNCHANGED <<run, facts, pos, cited, lacking, stalled, embedded, messages, stalls>>

\* The database refuses the handler too.  The polling thread logs it and goes on
\* to the next run; this one stays as it is.  (For Celery this is a Crash.)
Abandon(w) ==
  /\ embedded
  /\ Fault
  /\ at[w] = "handle"
  /\ Go(w, "idle")
  /\ UNCHANGED <<run, facts, locals, embedded, messages, stalls>>

\* The database refuses complete_step_with_evidence: the step fails instead.
CommitFails(w) ==
  /\ Fault
  /\ at[w] = "commit"
  /\ Go(w, "failing")
  /\ UNCHANGED <<run, facts, locals, embedded, messages, stalls>>

\* The renewing thread dies, or the process is paused beyond its lease.
Stall(w) ==
  /\ ~embedded
  /\ Fault
  /\ stalls < MaxStalls /\ stalls' = stalls + 1
  /\ at[w] # "idle" /\ ~stalled[w]
  /\ stalled' = [stalled EXCEPT ![w] = TRUE]
  /\ UNCHANGED <<run, facts, at, pos, cited, lacking, verdict, embedded, messages>>

\* A renewal a minute keeps a two-hour lease from running out.
Tick ==
  /\ ~embedded
  /\ lease > 0
  /\ \A w \in Workers : at[w] # "idle" /\ owner = w /\ ~stalled[w] => lease # 1
  /\ lease' = lease - 1
  /\ UNCHANGED <<status, owner, cancel, result, facts, at, locals, env>>

-----------------------------------------------------------------------------
Claim(w) == ClaimRun(w) \/ ClaimCancels(w) \/ ClaimRefused(w) \/ ClaimNextRun(w)

Work(w) ==
  \/ CheckCancel(w) \/ ReuseStep(w) \/ ContractDiffers(w) \/ NothingToReuse(w)
  \/ StartStep(w)
  \/ ToolReturns(w) \/ ToolFails(w) \/ ToolCancelled(w)
  \/ CommitEvidence(w) \/ FailStep(w) \/ CancelStep(w)
  \/ BuildResult(w) \/ Confirm(w) \/ FinishRun(w)

Next ==
  \/ RequestCancel \/ Dispatch \/ RecoverExpired \/ Restart \/ BrokerFault \/ Tick
  \/ \E w \in Workers : Claim(w) \/ RenewLease(w) \/ Work(w)
                        \/ Crash(w) \/ CommitFails(w) \/ WorkflowFails(w)
                        \/ Abandon(w) \/ Stall(w)

Spec == Init /\ [][Next]_vars

\* Beat dispatches and recovers for ever; every tool has a deadline; Redis
\* lists are first-in first-out and the threads poll for ever.
Fairness ==
  /\ WF_vars(Dispatch) /\ WF_vars(RecoverExpired) /\ WF_vars(Tick)
  /\ SF_vars(\E w \in Workers : Claim(w))
  /\ \A w \in Workers : WF_vars(Work(w))

FairSpec == Spec /\ Fairness

-----------------------------------------------------------------------------
(* Properties.                                                             *)

RunIsFinal == status \in Terminal => status' = status /\ result' = result

\* A terminal run is never changed: late executions, cancellations, claims and
\* recoveries leave its status and its result alone.
TerminalIsFinal == [][RunIsFinal]_vars

\* However often the run was interrupted, what a finished run cites is what its
\* steps hold: the result, the claims and the steps agree on the evidence, as
\* long as no execution outlived its lease and overlapped with another one.
ResultIsBacked ==
  stalls = 0 /\ status \in Answered =>
    \A s \in Steps :
      /\ result[s] = (IF step[s] \in Reusable THEN evidence[s] ELSE 0)
      /\ claims[s] = result[s]

\* A run that produced an answer has no loose ends: every required step was
\* finished and none is still queued or running, under the same condition.
AnsweredIsSettled ==
  stalls = 0 /\ status \in Answered =>
    /\ \A s \in Steps : step[s] \in Reusable \cup {"failed"}
    /\ \A s \in Required : step[s] \in Reusable
    /\ status = "completed" => \A s \in Steps : step[s] \in Reusable

StepIsKept ==
  \A s \in Steps : stalls = 0 /\ step[s] \in Reusable =>
    step'[s] = step[s] /\ evidence'[s] = evidence[s]

\* Finished steps are not done again when the run is resumed, nor replaced,
\* as long as no execution outlived its lease.
EvidenceIsReused == [][StepIsKept]_vars

\* A run that its thread gave up on when the database refused the verdict:
\* nobody executes it, and only queued runs are polled for.
LeftBehind == embedded /\ status = "running" /\ \A w \in Workers : at[w] = "idle"

\* The run has its verdict; or under Celery its cancellation was asked for, which
\* takes it off the list of runs that are sent again.
Settled == status \in Terminal \/ (~embedded /\ cancel) \/ LeftBehind

\* Every run is settled in the end, through crashes, restarts, lost messages and
\* refused queries, with the two exceptions that the code leaves open: under
\* Celery a cancelled run, and when embedded a run whose verdict was refused,
\* until the process is restarted.
RunsAreSettled == []<>Settled

\* README.md: when a real source fails, the run becomes partial or failed.  So
\* a completed run is one in which no step fell short.
CompletedIsComplete ==
  status = "completed" => \A s \in Steps : step[s] = "succeeded"
=============================================================================
