--------------------------- MODULE ResearchPrograms ---------------------------
(***************************************************************************)
(* A preregistered research program (src/backend/                          *)
(* quant_research_program_repository.py and _service.py): its cycles, the  *)
(* selection run each starts once it is due (quant_selection_repository.py *)
(* and _service.py) and the forward validation of a run that passes        *)
(* (quant_selection_forward_*.py).  Celery Beat and the user reconcile it, *)
(* from a list read in a transaction of its own.  The job that executes a  *)
(* run is what BackgroundJobs shows a job to be: it is decided once,       *)
(* although two executions may overlap.                                    *)
(***************************************************************************)
EXTENDS Naturals, FiniteSets

CONSTANTS
  Cycles, Workers, Reconcilers, None,
  MaxFaults \* bound

Ended == {"research_only", "forward_enrolled", "failed", "retired_unrun"}

VARIABLES
  due,        \* the cycles whose time has come
  retired,    \* whether the program is
  cycle,      \* quant_research_cycles.status
  attached,   \* whether run_id of each is set
  orphan,     \* the cycles that failed as orphaned dispatches
  run,        \* quant_selection_runs of each cycle
  job,        \* background_jobs of each run: status and whether the run names it
  passes,     \* whether the result of each run passes the promotion gate
  thin,       \* the cycles whose latest signal has fewer than two targets
  mandate, validation, \* of each cycle's run
  recon,      \* what each reconciliation has listed and is doing
  lost,       \* the cycles whose dispatch ended with its process
  exec,       \* the run of each execution
  faults

vars == <<due, retired, cycle, attached, orphan, run, job, passes, thin, mandate, validation, recon, lost, exec, faults>>

reconVars == <<due, retired, passes, thin, exec, faults>>

Idle == [at |-> "idle", cycle |-> None]

Init ==
  /\ due = {} /\ retired = FALSE
  /\ cycle = [c \in Cycles |-> "scheduled"] /\ attached = [c \in Cycles |-> FALSE] /\ orphan = {}
  /\ run = [c \in Cycles |-> "none"] /\ job = [c \in Cycles |-> "none"]
  /\ passes \in [Cycles -> BOOLEAN] /\ thin \in SUBSET {c \in Cycles : passes[c]}
  /\ mandate = {} /\ validation = {}
  /\ recon = [p \in Reconcilers |-> Idle] /\ lost = {}
  /\ exec = [w \in Workers |-> None] /\ faults = 0

Due(c) ==
  /\ c \notin due /\ due' = due \cup {c}
  /\ UNCHANGED <<retired, cycle, attached, orphan, run, job, passes, thin, mandate, validation, recon, lost, exec, faults>>

\* retire_program: what has not begun will not.
Retire ==
  /\ ~retired /\ retired' = TRUE
  /\ cycle' = [c \in Cycles |-> IF cycle[c] = "scheduled" THEN "retired_unrun" ELSE cycle[c]]
  /\ UNCHANGED <<due, attached, orphan, run, job, passes, thin, mandate, validation, recon, lost, exec, faults>>

-----------------------------------------------------------------------------
(* The run and its job.                                                    *)

Live(c) == run[c] \in {"queued", "running"}

Jobless == UNCHANGED <<due, retired, cycle, attached, orphan, passes, thin, mandate, validation, recon, lost>>

\* execute_quant_selection_run_job claims the job, execute_run marks the run;
\* a run that is over ends the job at once.
Execute(w, c) ==
  /\ exec[w] = None /\ job[c] = "queued"
  /\ \/ /\ Live(c)
        /\ run' = [run EXCEPT ![c] = "running"] /\ job' = [job EXCEPT ![c] = "running"]
        /\ exec' = [exec EXCEPT ![w] = c]
     \/ /\ ~Live(c)
        /\ job' = [job EXCEPT ![c] = IF run[c] = "failed" THEN "failed" ELSE "succeeded"]
        /\ UNCHANGED <<run, exec>>
  /\ Jobless /\ UNCHANGED faults

\* complete_run or fail_run, which only an unfinished run accepts, and then
\* complete_job or fail_job, which fail when the lease was lost.
Finish(w) ==
  /\ exec[w] # None
  /\ \E c \in {exec[w]}, result \in {"succeeded", "failed"} :
       /\ run' = [run EXCEPT ![c] = IF Live(c) THEN result ELSE @]
       /\ job' = [job EXCEPT ![c] =
            IF @ # "running" THEN @ ELSE IF Live(c) THEN result ELSE "failed"]
  /\ exec' = [exec EXCEPT ![w] = None]
  /\ Jobless /\ UNCHANGED faults

\* The lease of an execution runs out, whether or not its process has ended:
\* the job is queued again, or it has been attempted often enough.
Expire(w) ==
  /\ exec[w] # None /\ job[exec[w]] = "running" /\ faults < MaxFaults /\ faults' = faults + 1
  /\ \E status \in {"queued", "failed"} : job' = [job EXCEPT ![exec[w]] = status]
  /\ exec' \in {exec, [exec EXCEPT ![w] = None]}
  /\ Jobless /\ UNCHANGED run

-----------------------------------------------------------------------------
(* Reconciliation.  It handles one cycle of its list after the other; here *)
(* every cycle is listed on its own.                                       *)

Reconcilable(c) ==
  \/ cycle[c] = "scheduled" /\ c \in due
  \/ cycle[c] \in {"dispatching", "run_queued", "run_running"}

At(p, at) == recon' = [recon EXCEPT ![p].at = at]

Done(p) == recon' = [recon EXCEPT ![p] = Idle]

\* list_reconcilable
List(p, c) ==
  /\ recon[p] = Idle /\ Reconcilable(c)
  /\ recon' = [recon EXCEPT ![p] =
       [at |-> IF cycle[c] = "scheduled" THEN "claim"
               ELSE IF attached[c] THEN "refresh" ELSE "orphan",
        cycle |-> c]]
  /\ UNCHANGED <<reconVars, cycle, attached, orphan, run, job, mandate, validation, lost>>

\* Mutant: a cycle that is being dispatched is claimed as well.
ClaimAgain(p) ==
  LET c == recon[p].cycle IN
  /\ recon[p].at = "claim"
  /\ \/ /\ cycle[c] \in {"scheduled", "dispatching", "run_queued", "run_running"}
        /\ cycle' = [cycle EXCEPT ![c] = "dispatching"] /\ At(p, "start")
     \/ cycle[c] \in Ended /\ Done(p) /\ UNCHANGED cycle
  /\ UNCHANGED <<reconVars, attached, orphan, run, job, mandate, validation, lost>>

\* claim_cycle
Claim(p) ==
  LET c == recon[p].cycle IN
  /\ recon[p].at = "claim"
  /\ \/ cycle[c] = "scheduled" /\ cycle' = [cycle EXCEPT ![c] = "dispatching"] /\ At(p, "start")
     \/ cycle[c] # "scheduled" /\ Done(p) /\ UNCHANGED cycle
  /\ UNCHANGED <<reconVars, attached, orphan, run, job, mandate, validation, lost>>

\* complete_cycle: false for a cycle that has ended
Closed(c, status) ==
  cycle' = IF cycle[c] \in Ended THEN cycle ELSE [cycle EXCEPT ![c] = status]

\* start_run: the run, then its job, which is bound and sent.  Each may fail,
\* and then the run and the cycle do.
Start(p) ==
  LET c == recon[p].cycle IN
  /\ \/ /\ recon[p].at = "start" /\ At(p, "dispatch")
        /\ run' = [run EXCEPT ![c] = "queued"] /\ UNCHANGED job
     \/ /\ recon[p].at = "dispatch" /\ At(p, "attach")
        /\ job' = [job EXCEPT ![c] = "queued"] /\ UNCHANGED run
  /\ UNCHANGED <<reconVars, cycle, attached, orphan, mandate, validation, lost>>

StartFails(p) ==
  LET c == recon[p].cycle IN
  /\ recon[p].at \in {"start", "dispatch"} /\ faults < MaxFaults /\ faults' = faults + 1
  /\ run' = [run EXCEPT ![c] = IF @ = "none" THEN @ ELSE "failed"]
  /\ \/ UNCHANGED job
     \/ recon[p].at = "dispatch" /\ job' = [job EXCEPT ![c] = "queued"]
  /\ Closed(c, "failed") /\ Done(p)
  /\ UNCHANGED <<due, retired, passes, thin, exec, attached, orphan, mandate, validation, lost>>

\* attach_run, or the conflict, which closes the cycle unless it is closed
Attach(p) ==
  LET c == recon[p].cycle IN
  /\ recon[p].at = "attach"
  /\ \/ /\ cycle[c] = "dispatching" /\ ~attached[c]
        /\ cycle' = [cycle EXCEPT ![c] = "run_queued"] /\ attached' = [attached EXCEPT ![c] = TRUE]
        /\ At(p, "refresh")
     \/ /\ cycle[c] # "dispatching" \/ attached[c]
        /\ Closed(c, "failed") /\ Done(p) /\ UNCHANGED attached
  /\ UNCHANGED <<reconVars, orphan, run, job, mandate, validation, lost>>

\* Mutant: a dispatch that has no run is left to the process that began it.
OrphanWaits(p) ==
  /\ recon[p].at = "orphan" /\ Done(p)
  /\ UNCHANGED <<reconVars, cycle, attached, orphan, run, job, mandate, validation, lost>>

\* The cycle was listed as dispatching and without a run.
Orphan(p) ==
  LET c == recon[p].cycle IN
  /\ recon[p].at = "orphan"
  /\ Closed(c, "failed") /\ Done(p)
  /\ orphan' = IF cycle[c] \in Ended THEN orphan ELSE orphan \cup {c}
  /\ UNCHANGED <<reconVars, attached, run, job, mandate, validation, lost>>

\* refresh_run_status: the run fails with its job; then the cycle follows it.
Refresh(p) ==
  LET c == recon[p].cycle IN
  /\ recon[p].at = "refresh"
  /\ run' = [run EXCEPT ![c] = IF Live(c) /\ job[c] = "failed" THEN "failed" ELSE @]
  /\ \/ /\ run'[c] \in {"queued", "running"}
        /\ cycle' = IF cycle[c] \in {"run_queued", "run_running"}
                    THEN [cycle EXCEPT ![c] = IF run'[c] = "running" THEN "run_running" ELSE "run_queued"]
                    ELSE cycle
        /\ Done(p)
     \/ run'[c] = "failed" /\ Closed(c, "failed") /\ Done(p)
     \/ run'[c] = "succeeded" /\ ~passes[c] /\ Closed(c, "research_only") /\ Done(p)
     \/ run'[c] = "succeeded" /\ passes[c] /\ At(p, "freeze") /\ UNCHANGED cycle
  /\ UNCHANGED <<reconVars, attached, orphan, job, mandate, validation, lost>>

\* Mutant: the cycle is closed before its evidence is there.
EnrollLast(p) ==
  LET c == recon[p].cycle IN
  /\ \/ /\ recon[p].at = "freeze" /\ At(p, "enroll")
        /\ Closed(c, "forward_enrolled") /\ UNCHANGED <<mandate, validation>>
     \/ /\ recon[p].at = "enroll" /\ Done(p)
        /\ mandate' = mandate \cup {c} /\ validation' = validation \cup {c} /\ UNCHANGED cycle
  /\ UNCHANGED <<reconVars, attached, orphan, run, job, lost>>

\* freeze_shadow_mandate, enroll_validation and complete_cycle, the first two
\* of which return what is there when they are repeated.  The first raises, and the
\* reconciliation goes on to the next cycle, when there are too few targets.
Enroll(p) ==
  LET c == recon[p].cycle IN
  /\ \/ /\ recon[p].at = "freeze" /\ c \in thin /\ Done(p)
        /\ UNCHANGED <<mandate, validation, cycle>>
     \/ /\ recon[p].at = "freeze" /\ c \notin thin /\ At(p, "enroll")
        /\ mandate' = mandate \cup {c} /\ UNCHANGED <<validation, cycle>>
     \/ /\ recon[p].at = "enroll" /\ At(p, "close")
        /\ validation' = validation \cup {c} /\ UNCHANGED <<mandate, cycle>>
     \/ /\ recon[p].at = "close" /\ Done(p)
        /\ Closed(c, "forward_enrolled") /\ UNCHANGED <<mandate, validation>>
  /\ UNCHANGED <<reconVars, attached, orphan, run, job, lost>>

\* The process that reconciles ends.
Die(p) ==
  /\ recon[p] # Idle /\ faults < MaxFaults /\ faults' = faults + 1
  /\ lost' = IF recon[p].at \in {"start", "dispatch", "attach"} THEN lost \cup {recon[p].cycle} ELSE lost
  /\ Done(p)
  /\ UNCHANGED <<due, retired, passes, thin, exec, cycle, attached, orphan, run, job, mandate, validation>>

Step(p) == Claim(p) \/ Start(p) \/ Attach(p) \/ Orphan(p) \/ Refresh(p) \/ Enroll(p)

Next ==
  \/ Retire \/ \E c \in Cycles : Due(c)
  \/ \E w \in Workers : Finish(w) \/ Expire(w) \/ \E c \in Cycles : Execute(w, c)
  \/ \E p \in Reconcilers :
       Step(p) \/ StartFails(p) \/ Die(p) \/ \E c \in Cycles : List(p, c)

\* The hour of a cycle comes, every cycle that can be reconciled is listed
\* again and again, and what is begun goes on.
Fairness ==
  /\ \A c \in Cycles : WF_vars(Due(c)) /\ SF_vars(\E p \in Reconcilers : List(p, c))
  /\ \A p \in Reconcilers : WF_vars(Step(p))
  /\ WF_vars(\E w \in Workers, c \in Cycles : Execute(w, c)) /\ \A w \in Workers : WF_vars(Finish(w))

Spec == Init /\ [][Next]_vars /\ Fairness

-----------------------------------------------------------------------------
(* Properties.                                                             *)

\* Everything has its type.
TypeOK ==
  /\ due \subseteq Cycles /\ thin \subseteq Cycles /\ retired \in BOOLEAN /\ mandate \subseteq Cycles /\ validation \subseteq Cycles
  /\ cycle \in [Cycles -> Ended \cup {"scheduled", "dispatching", "run_queued", "run_running"}]
  /\ run \in [Cycles -> {"none", "queued", "running", "succeeded", "failed"}]
  /\ job \in [Cycles -> {"none", "queued", "running", "succeeded", "failed"}]

\* What a cycle says happened did: it is enrolled only with the validation of
\* a run that succeeded and passed with two targets at least, in whatever order
\* processes end.
EnrolledIsBacked ==
  \A c \in Cycles :
    /\ cycle[c] = "forward_enrolled" =>
         /\ c \in mandate /\ c \in validation /\ passes[c] /\ c \notin thin
         /\ attached[c] /\ run[c] = "succeeded"
    /\ cycle[c] = "research_only" => run[c] = "succeeded" /\ c \notin mandate
    /\ cycle[c] = "retired_unrun" => run[c] = "none"

\* A cycle that passed and can never be enrolled stays as it is.
NeverEnrolled(c) == run[c] = "succeeded" /\ passes[c] /\ c \in thin /\ attached[c]

\* A slot cannot be skipped: every cycle ends, whatever process dies, but for those
\* whose run passes with a signal that cannot be frozen.
AllDecided == \A c \in Cycles : cycle[c] \in Ended \/ NeverEnrolled(c)

SlotIsDecided == <>AllDecided

\* docs/updates/2026-07-26-001-preregistered-quant-research-program.md: a
\* dispatch is failed as an orphan when its process crashed.
OrphanMeansCrash == orphan \subseteq lost
=============================================================================
