------------------------------ MODULE MCPrograms ------------------------------
(***************************************************************************)
(* What Celery Beat drives, for TLC: the collection of FactorSync, the     *)
(* forecasts of AlphaForecasts, the cycles of ResearchPrograms and, as far *)
(* as it is to be settled in the end, the run of AgentRuns.  They share no *)
(* state: a behaviour is one of a single component, the one in focus.      *)
(***************************************************************************)
EXTENDS FactorSync

CONSTANTS
  Nobody, Executors, Callers, Settlers, MaxRuns, MaxDays, MaxChanges, AlphaFaults,
  None, Cycles, Reconcilers, CycleFaults,
  StepCount, Required, Guarded, Deployments, RunLease, RunMessages, MaxEvidence, RunFaults, MaxStalls

\* Nobody has computed a forecast that is not there.
ASSUME ProgramAssumption == Nobody \notin Executors /\ MaxRuns \in Nat /\ MaxDays \in Nat

VARIABLES
  focus,
  program, dueOn, today, forecastRun, published, outcome, queue, caller, forecasting, settler,
  changes, stranded, forecastFaults,
  due, retired, cycle, attached, orphan, run, job, passes, thin, mandate, validation, recon, lost, exec,
  cycleFaults,
  runStatus, owner, runLease, cancel, result, step, input, evidence, written, claims, embedded,
  runMessages, place, pos, cited, lacking, verdict, runStalled, runFaults, stalls

Alpha == INSTANCE AlphaForecasts WITH
  Workers <- Executors, MaxFaults <- AlphaFaults,
  status <- program, run <- forecastRun, exec <- forecasting, faults <- forecastFaults

Research == INSTANCE ResearchPrograms WITH
  Workers <- Executors, MaxFaults <- CycleFaults, faults <- cycleFaults

\* The last step of an agent's plan decides on the evidence of the first.
Decision == [s \in 1..StepCount |-> IF s = StepCount THEN {1} ELSE {}]

Agent == INSTANCE AgentRuns WITH
  Workers <- Executors, Inputs <- Decision,
  LeaseTicks <- RunLease, MaxMessages <- RunMessages, MaxFaults <- RunFaults,
  status <- runStatus, lease <- runLease, messages <- runMessages, at <- place, stalled <- runStalled,
  faults <- runFaults

alphaVars == <<program, dueOn, today, forecastRun, published, outcome, queue, caller, forecasting,
               settler, changes, stranded, forecastFaults>>

researchVars == <<due, retired, cycle, attached, orphan, run, job, passes, thin, mandate, validation,
                  recon, lost, exec, cycleFaults>>

agentVars == <<runStatus, owner, runLease, cancel, result, step, input, evidence, written, claims,
               embedded, runMessages, place, pos, cited, lacking, verdict, runStalled, runFaults, stalls>>

all == <<focus, vars, alphaVars, researchVars, agentVars>>

\* The others start from one of their initial states, whichever.
MCInit ==
  /\ focus \in {"factors", "workers", "publishing", "settling", "research", "agent"}
  /\ Init /\ Alpha!Init
  /\ Research!Init /\ (focus # "research" => thin = {} /\ \A c \in Cycles : passes[c])
  /\ Agent!Init /\ (focus # "agent" => embedded = CHOOSE e \in Deployments : TRUE)

\* Either all targets are collected by one worker, or several workers meet in
\* one target, with one more fault.
OfFactors(A) ==
  /\ focus = "factors" /\ A /\ UNCHANGED <<focus, alphaVars, researchVars, agentVars>>
  /\ faults' < MaxFaults
  /\ \A w \in Workers \ {CHOOSE w \in Workers : TRUE} : doing'[w] = NoTarget

OfWorkers(A) ==
  /\ focus = "workers" /\ A /\ UNCHANGED <<focus, alphaVars, researchVars, agentVars>>
  /\ \A t \in Targets \ {1} : status'[t] = "absent"

\* Either two requests are executed and nothing is settled, or everything is
\* settled twice, and one request is executed at a time.
OfAlpha(A) ==
  /\ focus \in {"publishing", "settling"} /\ A /\ UNCHANGED <<focus, vars, researchVars, agentVars>>
  /\ focus = "publishing" => \A s \in Settlers : settler'[s] = {}
  /\ focus = "settling" =>
       /\ \A c \in Callers \ {CHOOSE c \in Callers : TRUE} : caller'[c] = 0
       /\ \A w \in Executors \ {CHOOSE w \in Executors : TRUE} : forecasting'[w] = 0

OfResearch(A) == focus = "research" /\ A /\ UNCHANGED <<focus, vars, alphaVars, agentVars>>

OfAgent(A) == focus = "agent" /\ A /\ UNCHANGED <<focus, vars, alphaVars, researchVars>>

MCNext ==
  \/ OfFactors(Next) \/ OfWorkers(Next)
  \/ OfAlpha(Alpha!Next)
  \/ OfResearch(Research!Next)
  \/ OfAgent(Agent!Next)

(* Fairness.  One focus moves at a time, so that a condition on an action of *)
(* one focus or an action of another is a condition on each of them.         *)

\* The beat collects what is due, dispatches, recovers what a lease was lost of,
\* and time passes; messages are published.
BeatIsFair ==
  /\ WF_all(OfFactors(ScheduleDueSync) \/ OfAgent(Agent!Dispatch))
  /\ WF_all(OfFactors(RecoverStaleSyncs) \/ OfAgent(Agent!RecoverExpired))
  /\ WF_all(OfFactors(Tick) \/ OfAgent(Agent!Tick))
  /\ \A t \in Targets : WF_all(OfFactors(Publish(t)))
  /\ \A c \in Cycles : WF_all(OfResearch(Research!Due(c)))

\* What is in the broker, or can be reconciled, again and again is taken.
TakingIsFair ==
  /\ WF_all(\/ OfAlpha(\E w \in Executors : Alpha!Execute(w))
            \/ OfResearch(\E w \in Executors, c \in Cycles : Research!Execute(w, c)))
  /\ \A t \in Targets, c \in Cycles :
       SF_all(\/ OfFactors(\E w \in Workers : Receive(w, t))
              \/ OfResearch(\E p \in Reconcilers : Research!List(p, c))
              \/ OfAgent(\E w \in Executors : Agent!Claim(w)))

\* What is begun goes on: executions, requests, reconciliations.
WorkIsFair ==
  /\ \A w \in Workers : WF_all(OfFactors(Work(w)))
  /\ \A w \in Executors :
       WF_all(\/ OfAlpha(Alpha!Finish(w) \/ Alpha!Fail(w))
              \/ OfResearch(Research!Finish(w)) \/ OfAgent(Agent!Work(w)))
  /\ \A c \in Callers : WF_all(OfAlpha(Alpha!Send(c) \/ Alpha!Bind(c)))
  /\ \A p \in Reconcilers : WF_all(OfResearch(Research!Step(p)))

MCSpec == MCInit /\ [][MCNext]_all /\ BeatIsFair /\ TakingIsFair /\ WorkIsFair

-----------------------------------------------------------------------------
\* Every variable of the three programs keeps its type.
TypesOK == TypeOK /\ Alpha!TypeOK /\ Research!TypeOK

\* What is said to have succeeded has its result: a collection its response
\* (FactorSync), a run its forecasts (AlphaForecasts), a cycle its research
\* (ResearchPrograms).
ResultsAreBacked == FinishedIsBacked /\ Alpha!PublishedIsSucceeded /\ Research!EnrolledIsBacked

\* Facts stand: a finished collection (FactorSync), a forecast and an outcome
\* (AlphaForecasts) are not written again.
FactsStand == FinishedIsFinal /\ Alpha!FactsStand

\* Every run of an agent is settled in the end, through crashes, restarts, lost
\* messages and refused queries, unless its cancellation is asked for under Celery or
\* its verdict is refused when embedded (AgentRuns).
RunsAreSettled == []<>(focus = "agent" => Agent!Settled)

\* The programs go on: the latest days are collected (FactorSync), runs whose
\* message was sent end unless their message or execution was lost for good
\* (AlphaForecasts), and every cycle whose signal can be frozen is decided
\* (ResearchPrograms).
ProgramsGoOn ==
  /\ \A t \in Daily : []<>(focus = "factors" => Collected(t))
  /\ []<>(/\ focus \in {"publishing", "settling"} => Alpha!SentIsEnded
          /\ focus = "research" => Research!AllDecided)
=============================================================================
